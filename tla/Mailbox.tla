------------------------------- MODULE Mailbox -------------------------------
(***************************************************************************)
(* The LED program (rpi/led.s) and its partner, the GPU.  The program      *)
(* copies a message from a template into a buffer, writes the address of   *)
(* the buffer to the write mailbox, polls, reads the read mailbox, waits,  *)
(* and begins again with the LED's state toggled.  The GPU takes the       *)
(* address, reads the buffer, sets the LED, writes its answer over the     *)
(* buffer and posts a reply.                                               *)
(*                                                                         *)
(* The program has no other synchronisation with the GPU than its polls of *)
(* one status register and the length of its wait loop, so how long the    *)
(* GPU takes is part of the model: soonest and latest bound it, counted in *)
(* steps of the program.  The GPU is external: what it does is what the    *)
(* program expects of it.                                                  *)
(***************************************************************************)
EXTENDS Integers, Sequences

CONSTANTS
    WaitLoops,      \* rounds of wait_loop, 0x800000 in the code
    MailboxSize,    \* messages a mailbox holds
    Timings         \* pairs <<soonest, latest>> considered

ASSUME MailboxAssumption ==
    /\ WaitLoops \in Nat \ {0}
    /\ MailboxSize \in Nat \ {0}
    /\ Timings \subseteq Nat \X Nat
    /\ \A t \in Timings : t[1] <= t[2] /\ t[2] > 0

VARIABLES
    pc,             \* the label the program is at
    w3,             \* the status last loaded into w3
    copied,         \* double-words of the template copied
    waited,         \* x3 of the wait loop
    template,       \* the state word of template_led_buffer
    led_buffer,     \* the shared buffer, four double-words
    write_box,      \* messages in the write mailbox; all are the same
    read_box,       \* replies in the read mailbox
    gpu,            \* where the GPU is
    fetched,        \* the double-words of the message it has read
    led,            \* the LED
    soonest, latest,    \* the GPU's timing
    age             \* steps the program took since the GPU had a message

program == <<pc, w3, copied, waited, template>>
timing == <<soonest, latest>>
vars == <<program, led_buffer, write_box, read_box, gpu, fetched, led, timing,
          age>>

-----------------------------------------------------------------------------
(* Messages and status.                                                    *)

\* The double-words of template_led_buffer: size and request code, the tag
\* that sets a pin, the tag's code and the pin, the state.
Template(state) == << <<"request">>, <<"tag">>, <<"pin">>, <<"state", state>> >>

\* The codes the GPU writes over the message when it answers it.
Answered(message) ==
    [message EXCEPT ![1] = <<"response">>, ![3] = <<"pin", "response">>]

Zero == <<"zero">>
DoubleWord ==
    {Zero, <<"request">>, <<"response">>, <<"tag">>, <<"pin">>,
     <<"pin", "response">>, <<"state", 0>>, <<"state", 1>>}

IsRequest(message) == \E state \in {0, 1} : message = Template(state)

\* The F and E flags of the status register of the write mailbox, the one
\* register that the program loads (x2).
Status == [full : BOOLEAN, empty : BOOLEAN]
write_status == [full |-> write_box = MailboxSize, empty |-> write_box = 0]

Labels ==
    {"toggle_led_status", "set_led_buffer", "write", "write_test",
     "write_buffer_to_register", "read", "read_test",
     "read_message_from_register", "wait_loop"}

TypeOK ==
    /\ pc \in Labels /\ w3 \in Status
    /\ copied \in 0 .. 3 /\ waited \in 0 .. WaitLoops - 1
    /\ template \in {0, 1}
    /\ led_buffer \in [1 .. 4 -> DoubleWord]
    /\ write_box \in 0 .. MailboxSize /\ read_box \in 0 .. MailboxSize
    /\ gpu \in {"idle", "fetch", "answer", "reply"}
    /\ fetched \in Seq(DoubleWord) /\ Len(fetched) <= 4
    /\ led \in {0, 1}
    /\ <<soonest, latest>> \in Timings
    /\ age \in 0 .. latest

\* After start, whose only effect is on the address registers.
Init ==
    /\ pc = "toggle_led_status"
    /\ w3 = [full |-> FALSE, empty |-> TRUE]
    /\ copied = 0 /\ waited = 0 /\ template = 0
    /\ led_buffer = [k \in 1 .. 4 |-> Zero]
    /\ write_box = 0 /\ read_box = 0
    /\ gpu = "idle" /\ fetched = <<>> /\ led = 0
    /\ \E t \in Timings : soonest = t[1] /\ latest = t[2]
    /\ age = 0

-----------------------------------------------------------------------------
(* The program.                                                            *)

\* The GPU has something to do, and can.
Pending == write_box > 0 \/ gpu # "idle"
ReplyBlocked == gpu = "reply" /\ read_box = MailboxSize

\* A step of the program: it goes from a label to a label, and the GPU is
\* not later than it may be.
Step(from, to) ==
    /\ pc = from /\ pc' = to
    /\ Pending => age < latest \/ ReplyBlocked
    /\ age' = IF Pending /\ age < latest THEN age + 1 ELSE IF Pending THEN age ELSE 0
    /\ UNCHANGED <<gpu, fetched, led, timing>>

\* A fault of toggle_led_status: w4 is stored instead of the eor.
OneStored ==
    /\ Step("toggle_led_status", "set_led_buffer")
    /\ template' = 1
    /\ UNCHANGED <<w3, copied, waited, led_buffer, write_box, read_box>>

\* The eor leaves the state of the template for the next message.
toggle_led_status ==
    /\ Step("toggle_led_status", "set_led_buffer")
    /\ template' = 1 - template
    /\ UNCHANGED <<w3, copied, waited, led_buffer, write_box, read_box>>

\* A fault of set_led_buffer: the first double-word is taken to be constant.
FirstNotCopied ==
    LET k == copied + 1
    IN  /\ Step("set_led_buffer", IF k = 4 THEN "write" ELSE "set_led_buffer")
        /\ copied' = k % 4
        /\ led_buffer' = IF k = 1 /\ led_buffer[1] # Zero
                         THEN led_buffer
                         ELSE [led_buffer EXCEPT ![k] = Template(template)[k]]
        /\ UNCHANGED <<w3, waited, template, write_box, read_box>>

\* One double-word is loaded and stored.
set_led_buffer ==
    LET k == copied + 1
    IN  /\ Step("set_led_buffer", IF k = 4 THEN "write" ELSE "set_led_buffer")
        /\ copied' = k % 4
        /\ led_buffer' = [led_buffer EXCEPT ![k] = Template(template)[k]]
        /\ UNCHANGED <<w3, waited, template, write_box, read_box>>

\* The status is loaded by one instruction and tested by later ones.
write ==
    /\ Step("write", "write_test")
    /\ w3' = write_status
    /\ UNCHANGED <<copied, waited, template, led_buffer, write_box, read_box>>

\* A fault of the test: the branch back to write is left out.
FullNotHeeded ==
    /\ Step("write_test", "write_buffer_to_register")
    /\ UNCHANGED <<w3, copied, waited, template, led_buffer, write_box,
                   read_box>>

write_test ==
    /\ Step("write_test",
            IF w3.full THEN "write" ELSE "write_buffer_to_register")
    /\ UNCHANGED <<w3, copied, waited, template, led_buffer, write_box,
                   read_box>>

\* A message written to a full mailbox is lost.
write_buffer_to_register ==
    /\ Step("write_buffer_to_register", "read")
    /\ write_box' = IF write_box < MailboxSize THEN write_box + 1 ELSE write_box
    /\ UNCHANGED <<w3, copied, waited, template, led_buffer, read_box>>

\* x2 again: the status is that of the write mailbox.
read ==
    /\ Step("read", "read_test")
    /\ w3' = write_status
    /\ UNCHANGED <<copied, waited, template, led_buffer, write_box, read_box>>

read_test ==
    /\ Step("read_test",
            IF w3.empty THEN "read" ELSE "read_message_from_register")
    /\ UNCHANGED <<w3, copied, waited, template, led_buffer, write_box,
                   read_box>>

\* A fault of the load: the register is not read.
ReplyNotRead ==
    /\ Step("read_message_from_register", "wait_loop")
    /\ UNCHANGED <<w3, copied, waited, template, led_buffer, write_box,
                   read_box>>

\* The load takes a reply out of the mailbox if there is one; what it says
\* is not used.
read_message_from_register ==
    /\ Step("read_message_from_register", "wait_loop")
    /\ read_box' = IF read_box > 0 THEN read_box - 1 ELSE 0
    /\ UNCHANGED <<w3, copied, waited, template, led_buffer, write_box>>

\* A fault of the loop: it is left after its first round.
WaitsOnce ==
    /\ Step("wait_loop", "toggle_led_status")
    /\ waited' = 0
    /\ UNCHANGED <<w3, copied, template, led_buffer, write_box, read_box>>

\* A fault of wait: x3 is set to zero once, before the first loop.
CountKept ==
    LET x3 == waited + 1
    IN  /\ Step("wait_loop",
                IF x3 < WaitLoops THEN "wait_loop" ELSE "toggle_led_status")
        /\ waited' = x3
        /\ UNCHANGED <<w3, copied, template, led_buffer, write_box, read_box>>

\* One round of the loop, with the branch back to toggle_led_status.
wait_loop ==
    LET x3 == waited + 1
    IN  /\ Step("wait_loop",
                IF x3 < WaitLoops THEN "wait_loop" ELSE "toggle_led_status")
        /\ waited' = x3 % WaitLoops
        /\ UNCHANGED <<w3, copied, template, led_buffer, write_box, read_box>>

Program ==
    \/ toggle_led_status \/ set_led_buffer \/ write \/ write_test
    \/ write_buffer_to_register \/ read \/ read_test
    \/ read_message_from_register \/ wait_loop

-----------------------------------------------------------------------------
(* The GPU.                                                                *)

Receive ==
    /\ gpu = "idle" /\ write_box > 0 /\ age >= soonest
    /\ gpu' = "fetch" /\ fetched' = <<>>
    /\ write_box' = write_box - 1
    /\ UNCHANGED <<program, led_buffer, read_box, led, timing, age>>

\* The message is read a double-word at a time from the memory shared.
Fetch ==
    /\ gpu = "fetch" /\ Len(fetched) < 4
    /\ fetched' = Append(fetched, led_buffer[Len(fetched) + 1])
    /\ UNCHANGED <<program, led_buffer, write_box, read_box, gpu, led, timing,
                   age>>

\* A request sets the LED; anything else is not acted upon.
SetLed ==
    /\ gpu = "fetch" /\ Len(fetched) = 4
    /\ led' = IF IsRequest(fetched) THEN fetched[4][2] ELSE led
    /\ gpu' = "answer"
    /\ UNCHANGED <<program, led_buffer, write_box, read_box, fetched, timing,
                   age>>

Answer ==
    /\ gpu = "answer"
    /\ led_buffer' = Answered(led_buffer)
    /\ gpu' = "reply"
    /\ UNCHANGED <<program, write_box, read_box, fetched, led, timing, age>>

Reply ==
    /\ gpu = "reply" /\ read_box < MailboxSize
    /\ read_box' = read_box + 1
    /\ gpu' = "idle" /\ fetched' = <<>> /\ age' = 0
    /\ UNCHANGED <<program, led_buffer, write_box, led, timing>>

Gpu == Receive \/ Fetch \/ SetLed \/ Answer \/ Reply

Next == Program \/ Gpu

\* The processor and the GPU are two machines that both keep running.
Spec == Init /\ [][Next]_vars /\ WF_vars(Program) /\ WF_vars(Gpu)

-----------------------------------------------------------------------------
\* The GPU has answered by the time the program toggles the state again:
\* three steps come before the wait and WaitLoops in it.
WaitOutlastsGpu == latest <= WaitLoops + 3

\* However slow the GPU, the message is written to a mailbox with room: the
\* status tested (led.s:44) is old by then, but only the program fills the
\* mailbox.
NoMessageLost ==
    pc = "write_buffer_to_register" => write_box < MailboxSize

\* If the wait outlasts the GPU, the buffer is the program's while it copies
\* (led.s:31), and what the GPU has read of it, at any time, is the message
\* the program wrote, although nothing in led.s waits for the answer.
MessageIntact ==
    WaitOutlastsGpu =>
        /\ Pending => pc # "set_led_buffer"
        /\ \A k \in DOMAIN fetched : fetched[k] = Template(template)[k]

\* If the wait outlasts the GPU, the LED shows the state of a message before
\* the state of the next is chosen (led.s:25): none is skipped or repeated.
EveryStateShown ==
    [][WaitOutlastsGpu /\ template' # template => led = template]_vars

\* The program reads the read mailbox without knowing whether a reply is
\* there (led.s:59 polls the other mailbox).  If the wait outlasts the GPU it
\* has at most one reply unread when it begins a message and two at any time,
\* so that replies never block a GPU whose mailbox holds three.
AtMostOneReplyBehind ==
    WaitOutlastsGpu =>
        /\ read_box <= 2
        /\ pc = "toggle_led_status" => read_box <= 1

\* "flash in a constant frequency and ensuring it stays in an infinite loop"
\* (Report.tex:83): the LED goes on and off for ever.
Blinks == []<>(led = 0) /\ []<>(led = 1)

\* The wait is meant to make it so.  It does not: the program polls the status
\* of the write mailbox before it reads the reply (led.s:59), although x7
\* holds the address of the read status (led.s:7,18), and if the GPU has taken
\* the message by then, the E flag stays set and the program polls for ever.
Flashes == WaitOutlastsGpu => Blinks

\* What is true of the program: it blinks if besides the GPU leaves every
\* message in the write mailbox for the step the program takes to poll it, so
\* no other wait, for room or for a reply, stops either side.
BlinksIfPolledInTime == WaitOutlastsGpu /\ soonest > 0 => Blinks
=============================================================================
