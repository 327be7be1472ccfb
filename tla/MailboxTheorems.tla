-------------------------- MODULE MailboxTheorems --------------------------
(***************************************************************************)
(* The LED program for every length of the wait loop, size of the          *)
(* mailboxes and timing of the GPU.  What holds whatever the GPU does      *)
(* needs only who fills which mailbox; what holds if the wait outlasts the *)
(* GPU rests on a lower bound of the GPU's age at every label.             *)
(***************************************************************************)
EXTENDS Mailbox, SequenceTheorems, TLAPS

\* The labels from the write of a message to the next toggle, and those
\* among them before a reply is read.
Polling == {"read", "read_test", "read_message_from_register"}
Handling == Polling \cup {"wait_loop", "toggle_led_status"}
Writing == {"write", "write_test", "write_buffer_to_register"}

\* The counters are used by one loop each, the message by the GPU at work.
Counters ==
    /\ pc # "wait_loop" => waited = 0
    /\ pc # "set_led_buffer" => copied = 0
    /\ gpu = "idle" => fetched = <<>>

\* The test of the F flag is about the mailbox as it is, or fuller.
RoomTested == pc = "write_test" /\ ~w3.full => write_box < MailboxSize

\* Messages the program wrote and the GPU did not reply to.
Outstanding == write_box + (IF gpu = "idle" THEN 0 ELSE 1)

OneMessage ==
    /\ Outstanding <= 1
    /\ Outstanding + read_box <= IF pc \in Polling THEN 2 ELSE 1

\* A message is handled while the program polls and waits; the steps it has
\* taken since it wrote the message, unless the GPU has no time left.
InTime ==
    Pending =>
        /\ pc \in Handling
        /\ \/ age = latest
           \/ /\ pc = "read_test" => age >= 1
              /\ pc = "read_message_from_register" => age >= 2
              /\ pc = "wait_loop" => age >= 3 + waited
              /\ pc # "toggle_led_status"

\* The buffer has the message from the copy to the answer.
BufferHeld ==
    /\ pc = "set_led_buffer" =>
          \A k \in 1 .. copied : led_buffer[k] = Template(template)[k]
    /\ pc \in Writing \/ write_box > 0 \/ gpu = "fetch" =>
          \A k \in 1 .. 4 : led_buffer[k] = Template(template)[k]

MessageFetched ==
    \A k \in DOMAIN fetched : fetched[k] = Template(template)[k]

Shown ==
    pc \in Handling /\ (Pending => gpu \in {"answer", "reply"})
        => led = template

WaitInv == OneMessage /\ InTime /\ BufferHeld /\ MessageFetched /\ Shown

-----------------------------------------------------------------------------
LEMMA Assumptions ==
    /\ WaitLoops \in Nat \ {0} /\ MailboxSize \in Nat \ {0}
    /\ \A t \in Timings : t[1] \in Nat /\ t[2] \in Nat \ {0} /\ t[1] <= t[2]
BY MailboxAssumption

LEMMA TemplateFacts ==
    ASSUME NEW s \in {0, 1}
    PROVE  /\ Template(s) \in [1 .. 4 -> DoubleWord]
           /\ Template(s) \in Seq(DoubleWord) /\ Len(Template(s)) = 4
           /\ Template(s)[4] = <<"state", s>>
BY DEF Template, DoubleWord

\* A message that is a template word by word is a request for its state.
LEMMA TemplateIsRequest ==
    ASSUME NEW s \in {0, 1}, NEW message \in Seq(DoubleWord),
           Len(message) = 4, \A k \in 1 .. 4 : message[k] = Template(s)[k]
    PROVE  IsRequest(message) /\ message[4][2] = s
<1>1. message = Template(s)
    BY TemplateFacts, SeqEqual
<1>2. message[4] = <<"state", s>>
    BY <1>1, TemplateFacts
<1>3. QED
    BY <1>1, <1>2 DEF IsRequest

\* A request is for one of the states of the LED.
LEMMA RequestedState ==
    ASSUME NEW message, IsRequest(message)
    PROVE  message[4][2] \in {0, 1}
<1>1. PICK s \in {0, 1} : message = Template(s)
    BY DEF IsRequest
<1>2. message[4] = <<"state", s>>
    BY <1>1, TemplateFacts
<1>3. QED
    BY <1>2

LEMMA StatusType ==
    write_status \in Status
BY DEF write_status, Status

\* The timing is a pair of numbers that never changes.
LEMMA TimingFacts ==
    ASSUME TypeOK
    PROVE  soonest \in Nat /\ latest \in Nat \ {0} /\ age \in Nat /\ age <= latest
<1>1. soonest = <<soonest, latest>>[1] /\ latest = <<soonest, latest>>[2]
    OBVIOUS
<1>2. QED
    BY <1>1, Assumptions DEF TypeOK

LEMMA ProgramTyped == TypeOK /\ Counters /\ Program => TypeOK'
<1> SUFFICES ASSUME TypeOK, Counters, Program PROVE TypeOK'
    OBVIOUS
<1> USE DEF TypeOK, Counters
<1>0. latest \in Nat \ {0} /\ age \in Nat /\ age <= latest /\ soonest \in Nat
    BY TimingFacts
<1>1. ASSUME NEW a \in Labels, NEW b \in Labels, Step(a, b)
      PROVE  /\ pc' \in Labels /\ gpu' = gpu /\ fetched' = fetched
             /\ led' = led /\ <<soonest', latest'>> \in Timings
             /\ age' \in 0 .. latest'
  <2>1. /\ pc' = b /\ gpu' = gpu /\ fetched' = fetched /\ led' = led
        /\ soonest' = soonest /\ latest' = latest
        /\ age' = IF Pending /\ age < latest THEN age + 1
                  ELSE IF Pending THEN age ELSE 0
    BY <1>1 DEF Step, timing
  <2>2. QED
    BY <1>0, <2>1
<1>2. CASE toggle_led_status
    BY <1>1, <1>2 DEF toggle_led_status, Labels
<1>3. CASE set_led_buffer
  <2>1. pc = "set_led_buffer" /\ copied + 1 \in 1 .. 4
    BY <1>3 DEF set_led_buffer, Step
  <2>2. (copied + 1) % 4 \in 0 .. 3
    BY <2>1
  <2>3. Template(template)[copied + 1] \in DoubleWord
    BY <2>1, TemplateFacts
  <2>4. led_buffer' \in [1 .. 4 -> DoubleWord]
    BY <1>3, <2>1, <2>3 DEF set_led_buffer
  <2>5. QED
    BY <1>1, <1>3, <2>2, <2>4 DEF set_led_buffer, Labels
<1>4. CASE write
    BY <1>1, <1>4, StatusType DEF write, Labels
<1>5. CASE write_test
    BY <1>1, <1>5 DEF write_test, Labels
<1>6. CASE write_buffer_to_register
    BY <1>1, <1>6, Assumptions DEF write_buffer_to_register, Labels
<1>7. CASE read
    BY <1>1, <1>7, StatusType DEF read, Labels
<1>8. CASE read_test
    BY <1>1, <1>8 DEF read_test, Labels
<1>9. CASE read_message_from_register
    BY <1>1, <1>9, Assumptions DEF read_message_from_register, Labels
<1>10. CASE wait_loop
  <2>1. (waited + 1) % WaitLoops \in 0 .. WaitLoops - 1
    BY Assumptions
  <2>2. QED
    BY <1>1, <1>10, <2>1 DEF wait_loop, Labels
<1>11. QED
    BY <1>2, <1>3, <1>4, <1>5, <1>6, <1>7, <1>8, <1>9, <1>10 DEF Program

LEMMA GpuTyped == TypeOK /\ Gpu => TypeOK'
<1> SUFFICES ASSUME TypeOK, Gpu PROVE TypeOK'
    OBVIOUS
<1> USE DEF TypeOK, program, timing
<1>0. latest \in Nat \ {0} /\ age \in Nat /\ age <= latest
    BY TimingFacts
<1> DEFINE none == <<>>
<1>00. none \in Seq(DoubleWord) /\ Len(none) = 0
    BY EmptySeq
<1> HIDE DEF none
<1>1. CASE Receive
  <2>1. fetched' = none
    BY <1>1 DEF Receive, none
  <2>2. QED
    BY <1>00, <1>1, <2>1, Assumptions DEF Receive
<1>2. CASE Fetch
  <2>1. led_buffer[Len(fetched) + 1] \in DoubleWord
    BY <1>2 DEF Fetch
  <2>2. fetched' \in Seq(DoubleWord) /\ Len(fetched') <= 4
    BY <1>2, <2>1 DEF Fetch
  <2>3. QED
    BY <1>2, <2>2 DEF Fetch
<1>3. CASE SetLed
  <2>1. led' \in {0, 1}
    BY <1>3, RequestedState DEF SetLed
  <2>2. QED
    BY <1>3, <2>1 DEF SetLed
<1>4. CASE Answer
  <2>1. led_buffer' \in [1 .. 4 -> DoubleWord]
    BY <1>4 DEF Answer, Answered, DoubleWord
  <2>2. QED
    BY <1>4, <2>1 DEF Answer
<1>5. CASE Reply
  <2>1. fetched' = none
    BY <1>5 DEF Reply, none
  <2>2. QED
    BY <1>0, <1>00, <1>5, <2>1, Assumptions DEF Reply
<1>6. QED
    BY <1>1, <1>2, <1>3, <1>4, <1>5 DEF Gpu

-----------------------------------------------------------------------------
(* Whatever the GPU does.                                                  *)

RoomInv == TypeOK /\ Counters /\ RoomTested /\ NoMessageLost

LEMMA InitialRoom == Init => RoomInv
<1> SUFFICES ASSUME Init PROVE RoomInv
    OBVIOUS
<1> DEFINE none == <<>>
<1>1. none \in Seq(DoubleWord) /\ Len(none) = 0
    BY EmptySeq
<1> HIDE DEF none
<1>2. fetched = none
    BY DEF Init, none
<1>3. PICK t \in Timings : soonest = t[1] /\ latest = t[2]
    BY DEF Init
<1>4. <<soonest, latest>> \in Timings /\ latest \in Nat
    BY <1>3, MailboxAssumption
<1>5. led_buffer \in [1 .. 4 -> DoubleWord]
    BY DEF Init, DoubleWord
<1>6. w3 \in Status
    BY DEF Init, Status
<1>7. TypeOK
    BY <1>1, <1>2, <1>4, <1>5, <1>6, Assumptions DEF Init, TypeOK, Labels
<1>8. QED
    BY <1>7 DEF Init, RoomInv, Counters, RoomTested, NoMessageLost

LEMMA RoomInductive == RoomInv /\ [Next]_vars => RoomInv'
<1> SUFFICES ASSUME RoomInv, [Next]_vars PROVE RoomInv'
    OBVIOUS
<1> USE DEF RoomInv
<1>1. CASE Program
  <2>1. TypeOK'
    BY <1>1, ProgramTyped
  <2>2. copied \in 0 .. 3 /\ waited \in 0 .. WaitLoops - 1 /\ WaitLoops \in Nat \ {0}
    BY Assumptions DEF TypeOK
  <2>3. Counters'
    BY <1>1, <2>2
       DEF Counters, Program, Step, toggle_led_status, set_led_buffer, write,
           write_test, write_buffer_to_register, read, read_test,
           read_message_from_register, wait_loop
  <2>4. write_box \in 0 .. MailboxSize /\ MailboxSize \in Nat
    BY Assumptions DEF TypeOK
  <2>5. CASE write
    <3>1. w3'.full <=> write_box = MailboxSize
      BY <2>5 DEF write, write_status
    <3>2. pc' = "write_test" /\ write_box' = write_box
      BY <2>5 DEF write, Step
    <3>3. QED
      BY <2>1, <2>3, <2>4, <3>1, <3>2 DEF RoomTested, NoMessageLost
  <2>6. CASE write_test
    <3>1. pc = "write_test" /\ write_box' = write_box
      BY <2>6 DEF write_test, Step
    <3>2. pc' = IF w3.full THEN "write" ELSE "write_buffer_to_register"
      BY <2>6 DEF write_test, Step
    <3>3. QED
      BY <2>1, <2>3, <3>1, <3>2 DEF RoomTested, NoMessageLost
  <2>7. CASE ~write /\ ~write_test
    <3>1. pc' \notin {"write_test", "write_buffer_to_register"}
      BY <1>1, <2>7
         DEF Program, Step, toggle_led_status, set_led_buffer,
             write_buffer_to_register, read, read_test,
             read_message_from_register, wait_loop
    <3>2. QED
      BY <2>1, <2>3, <3>1 DEF RoomTested, NoMessageLost
  <2>8. QED
    BY <2>5, <2>6, <2>7
<1>2. CASE Gpu
  <2>1. TypeOK'
    BY <1>2, GpuTyped
  <2>2. pc' = pc /\ w3' = w3 /\ copied' = copied /\ waited' = waited
    BY <1>2 DEF Gpu, Receive, Fetch, SetLed, Answer, Reply, program
  <2>3. write_box \in Nat /\ MailboxSize \in Nat
    BY Assumptions DEF TypeOK
  <2>4. write_box' \in Nat /\ write_box' <= write_box
    BY <1>2, <2>3 DEF Gpu, Receive, Fetch, SetLed, Answer, Reply
  <2>5. gpu' = "idle" => fetched' = <<>>
    BY <1>2 DEF Counters, Gpu, Receive, Fetch, SetLed, Answer, Reply
  <2>6. QED
    BY <2>1, <2>2, <2>3, <2>4, <2>5 DEF Counters, RoomTested, NoMessageLost
<1>3. CASE UNCHANGED vars
    BY <1>3
       DEF vars, program, timing, TypeOK, Counters, RoomTested, NoMessageLost
<1>4. QED
    BY <1>1, <1>2, <1>3 DEF Next

LEMMA RoomInvariant == Spec => []RoomInv
BY InitialRoom, RoomInductive, PTL DEF Spec

\* Registers, buffer, mailboxes and the GPU are what the types say.
THEOREM TypeCorrect == Spec => []TypeOK
<1>1. RoomInv => TypeOK
    BY DEF RoomInv
<1>2. QED
    BY <1>1, RoomInvariant, PTL

\* No message is written to a full mailbox (led.s:55), however slow the GPU.
THEOREM MessagesNeverLost == Spec => []NoMessageLost
<1>1. RoomInv => NoMessageLost
    BY DEF RoomInv
<1>2. QED
    BY <1>1, RoomInvariant, PTL

-----------------------------------------------------------------------------
(* If the wait outlasts the GPU.                                           *)

LEMMA InitialWait == Init => WaitInv
<1> SUFFICES ASSUME Init PROVE WaitInv
    OBVIOUS
<1> USE DEF Init
<1>1. OneMessage
    BY DEF OneMessage, Outstanding, Polling
<1>2. InTime
    BY DEF InTime, Pending
<1>3. BufferHeld
    BY DEF BufferHeld, Writing
<1>4. MessageFetched
    BY DEF MessageFetched
<1>5. Shown
    BY DEF Shown
<1>6. QED
    BY <1>1, <1>2, <1>3, <1>4, <1>5 DEF WaitInv

\* What every step of the invariant's proof knows of the state.
LEMMA StateFacts ==
    ASSUME TypeOK
    PROVE  /\ latest \in Nat \ {0} /\ age \in 0 .. latest
           /\ WaitLoops \in Nat \ {0} /\ waited \in 0 .. WaitLoops - 1
           /\ MailboxSize \in Nat \ {0}
           /\ write_box \in 0 .. MailboxSize /\ read_box \in 0 .. MailboxSize
           /\ copied \in 0 .. 3
           /\ gpu \in {"idle", "fetch", "answer", "reply"}
           /\ template \in {0, 1}
BY TimingFacts, Assumptions DEF TypeOK

\* The program toggles and copies only when the GPU has nothing to do: at the
\* toggle the GPU has no time left and is not blocked.
LEMMA IdleBeforeWrite ==
    ASSUME RoomInv, WaitInv, NEW a, NEW b, Step(a, b), a \notin Polling,
           a # "wait_loop"
    PROVE  write_box = 0 /\ gpu = "idle" /\ ~Pending
<1>1. pc = a /\ (Pending => age < latest \/ ReplyBlocked)
    BY DEF Step
<1>2. ASSUME Pending PROVE FALSE
  <2>1. pc = "toggle_led_status" /\ age = latest
    BY <1>1, <1>2 DEF WaitInv, InTime, Handling
  <2>2. ~ReplyBlocked
    BY <2>1, StateFacts
       DEF RoomInv, WaitInv, OneMessage, Outstanding, Polling, ReplyBlocked
  <2>3. QED
    BY <1>1, <1>2, <2>1, <2>2, StateFacts DEF RoomInv
<1>3. QED
    BY <1>2, StateFacts DEF Pending, RoomInv

LEMMA ProgramKeepsWait ==
    RoomInv /\ WaitInv /\ WaitOutlastsGpu /\ Program => WaitInv'
<1> SUFFICES ASSUME RoomInv, WaitInv, WaitOutlastsGpu, Program PROVE WaitInv'
    OBVIOUS
<1>0. TypeOK /\ Counters /\ OneMessage /\ InTime /\ BufferHeld /\ MessageFetched /\ Shown
    BY DEF RoomInv, WaitInv
<1>1. /\ latest \in Nat \ {0} /\ age \in 0 .. latest
      /\ WaitLoops \in Nat \ {0} /\ waited \in 0 .. WaitLoops - 1
      /\ MailboxSize \in Nat \ {0}
      /\ write_box \in 0 .. MailboxSize /\ read_box \in 0 .. MailboxSize
      /\ copied \in 0 .. 3
    BY <1>0, StateFacts
<1>2. CASE toggle_led_status
  <2>1. /\ pc' = "set_led_buffer" /\ gpu' = gpu /\ fetched' = fetched
        /\ write_box' = write_box /\ read_box' = read_box /\ copied' = copied
        /\ pc = "toggle_led_status" /\ Step("toggle_led_status", "set_led_buffer")
    BY <1>2 DEF toggle_led_status, Step
  <2>2. write_box = 0 /\ gpu = "idle" /\ fetched = <<>> /\ copied = 0
    BY <1>0, <2>1, IdleBeforeWrite DEF Polling, Counters
  <2>3. OneMessage'
    BY <1>0, <2>1 DEF OneMessage, Outstanding, Polling
  <2>4. InTime' /\ Shown'
    BY <2>1, <2>2 DEF InTime, Pending, Shown, Handling, Polling
  <2>5. BufferHeld'
    BY <2>1, <2>2 DEF BufferHeld, Writing
  <2>6. MessageFetched'
    BY <2>1, <2>2 DEF MessageFetched
  <2>7. QED
    BY <2>3, <2>4, <2>5, <2>6 DEF WaitInv
<1>3. CASE set_led_buffer
  <2> DEFINE k == copied + 1
  <2>1. /\ pc = "set_led_buffer" /\ gpu' = gpu /\ fetched' = fetched
        /\ write_box' = write_box /\ read_box' = read_box
        /\ template' = template
        /\ pc' = (IF k = 4 THEN "write" ELSE "set_led_buffer")
        /\ copied' = k % 4
        /\ led_buffer' = [led_buffer EXCEPT ![k] = Template(template)[k]]
        /\ Step("set_led_buffer", IF k = 4 THEN "write" ELSE "set_led_buffer")
    BY <1>3 DEF set_led_buffer, Step
  <2>2. write_box = 0 /\ gpu = "idle"
    BY <2>1, IdleBeforeWrite DEF Polling
  <2>3. OneMessage'
    BY <1>0, <1>1, <2>1, <2>2 DEF OneMessage, Outstanding, Polling
  <2>4. InTime' /\ Shown'
    BY <2>1, <2>2 DEF InTime, Pending, Shown, Handling, Polling
  <2>5. \A j \in 1 .. k : led_buffer'[j] = Template(template)[j]
    BY <1>0, <1>1, <2>1 DEF BufferHeld, TypeOK
  <2>6. BufferHeld'
    BY <1>1, <2>1, <2>2, <2>5 DEF BufferHeld, Writing
  <2>7. MessageFetched'
    BY <1>0, <2>1 DEF MessageFetched
  <2>8. QED
    BY <2>3, <2>4, <2>6, <2>7 DEF WaitInv
<1>4. CASE write_buffer_to_register
  <2>1. /\ pc = "write_buffer_to_register" /\ pc' = "read"
        /\ gpu' = gpu /\ fetched' = fetched /\ read_box' = read_box
        /\ template' = template /\ led_buffer' = led_buffer
        /\ latest' = latest
        /\ age' = IF Pending /\ age < latest THEN age + 1
                  ELSE IF Pending THEN age ELSE 0
        /\ Step("write_buffer_to_register", "read")
    BY <1>4 DEF write_buffer_to_register, Step, timing
  <2>2. write_box = 0 /\ gpu = "idle"
    BY <2>1, IdleBeforeWrite DEF Polling
  <2>3. write_box' = 1
    BY <1>1, <1>4, <2>2 DEF write_buffer_to_register
  <2>4. OneMessage'
    BY <1>0, <1>1, <2>1, <2>2, <2>3 DEF OneMessage, Outstanding, Polling
  <2>5. InTime' /\ Shown'
    BY <2>1, <2>2, <2>3 DEF InTime, Pending, Shown, Handling, Polling
  <2>6. BufferHeld'
    BY <1>0, <2>1 DEF BufferHeld, Writing
  <2>7. MessageFetched'
    BY <1>0, <2>1 DEF MessageFetched
  <2>8. QED
    BY <2>4, <2>5, <2>6, <2>7 DEF WaitInv
<1>5. CASE read_message_from_register
  <2>1. /\ pc = "read_message_from_register" /\ pc' = "wait_loop"
        /\ UNCHANGED <<gpu, fetched, led, template, led_buffer, write_box, waited>>
        /\ latest' = latest
        /\ age' = IF Pending /\ age < latest THEN age + 1
                  ELSE IF Pending THEN age ELSE 0
        /\ read_box' = IF read_box > 0 THEN read_box - 1 ELSE 0
    BY <1>5 DEF read_message_from_register, Step, timing
  <2>2. OneMessage'
    BY <1>0, <1>1, <2>1 DEF OneMessage, Outstanding, Polling
  <2>3. InTime' /\ Shown'
    BY <1>0, <1>1, <2>1
       DEF InTime, Pending, Shown, Handling, Polling, Counters
  <2>4. BufferHeld' /\ MessageFetched'
    BY <1>0, <2>1 DEF BufferHeld, Writing, MessageFetched
  <2>5. QED
    BY <2>2, <2>3, <2>4 DEF WaitInv
<1>6. CASE wait_loop
  <2>1. /\ pc = "wait_loop"
        /\ pc' = (IF waited + 1 < WaitLoops THEN "wait_loop"
                  ELSE "toggle_led_status")
        /\ waited' = (waited + 1) % WaitLoops
        /\ UNCHANGED <<gpu, fetched, led, template, led_buffer, write_box,
                       read_box>>
        /\ latest' = latest
        /\ Pending => age < latest \/ ReplyBlocked
        /\ age' = IF Pending /\ age < latest THEN age + 1
                  ELSE IF Pending THEN age ELSE 0
    BY <1>6 DEF wait_loop, Step, timing
  <2>2. OneMessage'
    BY <1>0, <1>1, <2>1 DEF OneMessage, Outstanding, Polling
  <2>3. waited + 1 < WaitLoops => waited' = waited + 1
    BY <1>1, <2>1
  <2>4. latest <= WaitLoops + 3
    BY DEF WaitOutlastsGpu
  <2>5. InTime'
    BY <1>0, <1>1, <2>1, <2>3, <2>4 DEF InTime, Pending, Handling, Polling
  <2>6. Shown'
    BY <1>0, <2>1 DEF Shown, Pending, Handling, Polling
  <2>7. BufferHeld' /\ MessageFetched'
    BY <1>0, <2>1 DEF BufferHeld, Writing, MessageFetched
  <2>8. QED
    BY <2>2, <2>5, <2>6, <2>7 DEF WaitInv
<1>7. CASE write \/ write_test
  <2>1. /\ pc \in {"write", "write_test"} /\ pc' \in Writing
        /\ UNCHANGED <<gpu, fetched, led, template, led_buffer, write_box,
                       read_box>>
        /\ Step(pc, pc')
    BY <1>7 DEF write, write_test, Step, Writing
  <2>2. write_box = 0 /\ gpu = "idle"
    BY <2>1, IdleBeforeWrite DEF Polling
  <2>3. OneMessage'
    BY <1>0, <1>1, <2>1 DEF OneMessage, Outstanding, Polling
  <2>4. InTime' /\ Shown'
    BY <2>1, <2>2 DEF InTime, Pending, Shown, Handling, Polling, Writing
  <2>5. BufferHeld' /\ MessageFetched'
    BY <1>0, <2>1 DEF BufferHeld, Writing, MessageFetched
  <2>6. QED
    BY <2>3, <2>4, <2>5 DEF WaitInv
<1>8. CASE read \/ read_test
  <2>1. /\ \/ pc = "read" /\ pc' = "read_test"
           \/ pc = "read_test"
              /\ pc' \in {"read", "read_message_from_register"}
        /\ UNCHANGED <<gpu, fetched, led, template, led_buffer, write_box,
                       read_box>>
        /\ latest' = latest
        /\ age' = IF Pending /\ age < latest THEN age + 1
                  ELSE IF Pending THEN age ELSE 0
    BY <1>8 DEF read, read_test, Step, timing
  <2>2. OneMessage'
    BY <1>0, <1>1, <2>1 DEF OneMessage, Outstanding, Polling
  <2>3. InTime'
    BY <1>0, <1>1, <2>1 DEF InTime, Pending, Handling, Polling
  <2>4. Shown'
    BY <1>0, <2>1 DEF Shown, Pending, Handling, Polling
  <2>5. BufferHeld' /\ MessageFetched'
    BY <1>0, <2>1 DEF BufferHeld, Writing, MessageFetched
  <2>6. QED
    BY <2>2, <2>3, <2>4, <2>5 DEF WaitInv
<1>9. QED
    BY <1>2, <1>3, <1>4, <1>5, <1>6, <1>7, <1>8 DEF Program

LEMMA GpuKeepsWait ==
    RoomInv /\ WaitInv /\ Gpu => WaitInv'
<1> SUFFICES ASSUME RoomInv, WaitInv, Gpu PROVE WaitInv'
    OBVIOUS
<1>0. TypeOK /\ Counters /\ OneMessage /\ InTime /\ BufferHeld /\ MessageFetched /\ Shown
    BY DEF RoomInv, WaitInv
<1>1. /\ MailboxSize \in Nat \ {0}
      /\ write_box \in 0 .. MailboxSize /\ read_box \in 0 .. MailboxSize
      /\ template \in {0, 1}
    BY <1>0, StateFacts
<1>2. /\ pc' = pc /\ copied' = copied /\ waited' = waited
      /\ template' = template /\ latest' = latest
    BY DEF Gpu, Receive, Fetch, SetLed, Answer, Reply, program, timing
<1>3. Pending /\ pc \in Handling /\ pc \notin Writing /\ pc # "set_led_buffer"
  <2>1. Pending
    BY <1>1 DEF Gpu, Receive, Fetch, SetLed, Answer, Reply, Pending
  <2>2. QED
    BY <1>0, <2>1 DEF InTime, Handling, Polling, Writing
<1>4. CASE Receive
  <2>1. /\ gpu' = "fetch" /\ fetched' = <<>> /\ write_box' = write_box - 1
        /\ gpu = "idle" /\ write_box > 0
        /\ UNCHANGED <<led_buffer, read_box, led, age>>
    BY <1>4 DEF Receive
  <2>2. OneMessage'
    BY <1>0, <1>1, <1>2, <2>1 DEF OneMessage, Outstanding
  <2>3. InTime' /\ Shown'
    BY <1>0, <1>2, <1>3, <2>1 DEF InTime, Shown, Pending
  <2>4. BufferHeld'
    BY <1>0, <1>2, <1>3, <2>1 DEF BufferHeld
  <2>5. MessageFetched'
    BY <2>1 DEF MessageFetched
  <2>6. QED
    BY <2>2, <2>3, <2>4, <2>5 DEF WaitInv
<1>5. CASE Fetch
  <2>1. /\ gpu = "fetch" /\ gpu' = "fetch"
        /\ fetched' = Append(fetched, led_buffer[Len(fetched) + 1])
        /\ Len(fetched) < 4
        /\ UNCHANGED <<led_buffer, read_box, write_box, led, age>>
    BY <1>5 DEF Fetch
  <2>2. OneMessage'
    BY <1>0, <1>2, <2>1 DEF OneMessage, Outstanding
  <2>3. InTime' /\ Shown'
    BY <1>0, <1>2, <1>3, <2>1 DEF InTime, Shown, Pending
  <2>4. BufferHeld'
    BY <1>0, <1>2, <1>3, <2>1 DEF BufferHeld
  <2>5. fetched \in Seq(DoubleWord) /\ Len(fetched) + 1 \in 1 .. 4
    BY <1>0, <2>1 DEF TypeOK
  <2>6. led_buffer[Len(fetched) + 1] = Template(template)[Len(fetched) + 1]
    BY <1>0, <2>1, <2>5 DEF BufferHeld
  <2>7. /\ DOMAIN fetched' = 1 .. Len(fetched) + 1
        /\ DOMAIN fetched = 1 .. Len(fetched)
        /\ \A k \in 1 .. Len(fetched) : fetched'[k] = fetched[k]
        /\ fetched'[Len(fetched) + 1] = led_buffer[Len(fetched) + 1]
    BY <2>1, <2>5
  <2>8. MessageFetched'
    BY <1>0, <1>2, <2>5, <2>6, <2>7 DEF MessageFetched
  <2>9. QED
    BY <2>2, <2>3, <2>4, <2>8 DEF WaitInv
<1>6. CASE SetLed
  <2>1. /\ gpu = "fetch" /\ gpu' = "answer" /\ Len(fetched) = 4
        /\ led' = (IF IsRequest(fetched) THEN fetched[4][2] ELSE led)
        /\ UNCHANGED <<led_buffer, read_box, write_box, fetched, age>>
    BY <1>6 DEF SetLed
  <2>2. OneMessage'
    BY <1>0, <1>2, <2>1 DEF OneMessage, Outstanding
  <2>3. InTime'
    BY <1>0, <1>2, <1>3, <2>1 DEF InTime, Pending
  <2>4. BufferHeld' /\ MessageFetched'
    BY <1>0, <1>2, <1>3, <2>1 DEF BufferHeld, MessageFetched
  <2>5. fetched \in Seq(DoubleWord) /\ \A k \in 1 .. 4 : fetched[k] = Template(template)[k]
    BY <1>0, <2>1 DEF TypeOK, MessageFetched
  <2>6. led' = template
    BY <1>1, <2>1, <2>5, TemplateIsRequest
  <2>7. Shown'
    BY <1>2, <2>6 DEF Shown
  <2>8. QED
    BY <2>2, <2>3, <2>4, <2>7 DEF WaitInv
<1>7. CASE Answer
  <2>1. /\ gpu = "answer" /\ gpu' = "reply"
        /\ UNCHANGED <<read_box, write_box, fetched, led, age>>
    BY <1>7 DEF Answer
  <2>2. OneMessage' /\ write_box = 0
    BY <1>0, <1>1, <1>2, <2>1 DEF OneMessage, Outstanding
  <2>3. InTime' /\ Shown'
    BY <1>0, <1>2, <1>3, <2>1 DEF InTime, Shown, Pending
  <2>4. BufferHeld' /\ MessageFetched'
    BY <1>0, <1>2, <1>3, <2>1, <2>2 DEF BufferHeld, MessageFetched
  <2>5. QED
    BY <2>2, <2>3, <2>4 DEF WaitInv
<1>8. CASE Reply
  <2>1. /\ gpu = "reply" /\ gpu' = "idle" /\ read_box' = read_box + 1
        /\ fetched' = <<>>
        /\ UNCHANGED <<write_box, led_buffer, led>>
    BY <1>8 DEF Reply
  <2>2. OneMessage' /\ write_box = 0
    BY <1>0, <1>1, <1>2, <2>1 DEF OneMessage, Outstanding
  <2>3. InTime' /\ Shown'
    BY <1>0, <1>2, <1>3, <2>1, <2>2 DEF InTime, Shown, Pending
  <2>4. BufferHeld' /\ MessageFetched'
    BY <1>2, <1>3, <2>1, <2>2 DEF BufferHeld, MessageFetched
  <2>5. QED
    BY <2>2, <2>3, <2>4 DEF WaitInv
<1>9. QED
    BY <1>4, <1>5, <1>6, <1>7, <1>8 DEF Gpu

MailboxInv == RoomInv /\ (WaitOutlastsGpu => WaitInv)

LEMMA MailboxInductive == MailboxInv /\ [Next]_vars => MailboxInv'
<1> SUFFICES ASSUME MailboxInv, [Next]_vars PROVE MailboxInv'
    OBVIOUS
<1>1. RoomInv'
    BY RoomInductive DEF MailboxInv
<1>2. latest' = latest
    BY DEF Next, Program, Gpu, vars, timing, Step, toggle_led_status,
           set_led_buffer, write, write_test, write_buffer_to_register, read,
           read_test, read_message_from_register, wait_loop, Receive, Fetch,
           SetLed, Answer, Reply
<1>3. ASSUME WaitOutlastsGpu PROVE WaitInv'
  <2>1. CASE UNCHANGED vars
    BY <1>3, <2>1
       DEF MailboxInv, vars, program, timing, WaitInv, OneMessage, Outstanding,
           InTime, Pending, BufferHeld, MessageFetched, Shown
  <2>2. QED
    BY <1>3, <2>1, ProgramKeepsWait, GpuKeepsWait DEF MailboxInv, Next
<1>4. WaitOutlastsGpu' <=> WaitOutlastsGpu
    BY <1>2 DEF WaitOutlastsGpu
<1>5. QED
    BY <1>1, <1>3, <1>4 DEF MailboxInv

LEMMA MailboxInvariant == Spec => []MailboxInv
<1>1. Init => MailboxInv
    BY InitialRoom, InitialWait DEF MailboxInv
<1>2. QED
    BY <1>1, MailboxInductive, PTL DEF Spec

\* With a wait that outlasts the GPU, the buffer is the program's while it
\* copies and the GPU reads nothing but the message (led.s:31).
THEOREM MessagesStayIntact == Spec => []MessageIntact
<1>1. MailboxInv => MessageIntact
    BY DEF MailboxInv, WaitInv, InTime, MessageFetched, MessageIntact,
           Handling, Polling
<1>2. QED
    BY <1>1, MailboxInvariant, PTL

\* With a wait that outlasts the GPU, the program is at most one reply
\* behind (led.s:67), for mailboxes of every size.
THEOREM RepliesAreRead == Spec => []AtMostOneReplyBehind
<1>1. MailboxInv => AtMostOneReplyBehind
  <2> SUFFICES ASSUME MailboxInv, WaitOutlastsGpu
               PROVE  read_box <= 2 /\ (pc = "toggle_led_status" => read_box <= 1)
      BY DEF AtMostOneReplyBehind
  <2>1. write_box \in Nat /\ read_box \in Nat
      BY StateFacts DEF MailboxInv, RoomInv
  <2>2. QED
      BY <2>1 DEF MailboxInv, WaitInv, OneMessage, Outstanding, Polling
<1>2. QED
    BY <1>1, MailboxInvariant, PTL

\* With a wait that outlasts the GPU, the LED shows each state before the
\* next is chosen (led.s:25).
THEOREM StatesAreShown == Spec => EveryStateShown
<1> DEFINE A == WaitOutlastsGpu /\ template' # template => led = template
<1>1. MailboxInv /\ [Next]_vars => [A]_vars
  <2> SUFFICES ASSUME MailboxInv, Next, WaitOutlastsGpu, template' # template
               PROVE  led = template
      OBVIOUS
  <2>1. toggle_led_status
      BY DEF Next, Program, Gpu, Step, set_led_buffer, write, write_test,
             write_buffer_to_register, read, read_test,
             read_message_from_register, wait_loop, Receive, Fetch, SetLed,
             Answer, Reply, program
  <2>2. pc = "toggle_led_status" /\ Step("toggle_led_status", "set_led_buffer")
      BY <2>1 DEF toggle_led_status, Step
  <2>3. ~Pending
      BY <2>2, IdleBeforeWrite DEF MailboxInv, Polling
  <2>4. QED
      BY <2>2, <2>3 DEF MailboxInv, WaitInv, Shown, Handling
<1>2. QED
    BY <1>1, MailboxInvariant, PTL DEF Spec, EveryStateShown
=============================================================================
