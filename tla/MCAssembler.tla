---------------------------- MODULE MCAssembler ----------------------------
(***************************************************************************)
(* Source files of three sorts: all of up to four lines over a choice of   *)
(* plainly written lines; all of up to two over lines written in other     *)
(* ways, or longer than the buffer; and all of up to four characters       *)
(* over a choice of nine.  Offset fields have two and three bits, and      *)
(* addresses are below 64.                                                 *)
(***************************************************************************)
EXTENDS SourceFile

\* Text.
Blank == <<Space>>
TabStop == <<9>>
End == <<Newline>>
a == <<97>>
b == <<98>>
b_eq == b \o <<Dot, 101, 113>>
nop == <<110, 111, 112>>
ldr == <<108, 100, 114>>
x0 == <<120, 48, 44>>
odd_name == <<Underscore, 98, Dot, Zero + 2, Dollar>>
number(n) == <<Zero + n>>
label(s) == Append(s, Colon)
comment == <<Slash, Slash>>
Upper(s) == [i \in DOMAIN s |->
                IF isalpha(s[i]) /\ ~isupper(s[i]) THEN s[i] - 32 ELSE s[i]]

MCBranches ==
    (b :> [word |-> "b", field |-> 8]) @@ (b_eq :> [word |-> "b.eq", field |-> 4])

MCLiteral(field, target) ==
    [kind |-> "literal", word |-> "ldr", field |-> field, target |-> target]
MCOperations ==
    (<<nop>> :> [kind |-> "plain", word |-> "nop"]) @@
    (<<ldr, x0, a>> :> MCLiteral(4, [symbol |-> a])) @@
    (<<ldr, x0, number(6)>> :> MCLiteral(8, [number |-> 6]))

MCPlainly ==
    {End, label(a) \o End, label(b) \o End, nop \o End,
     b \o Blank \o a \o End, b_eq \o Blank \o b \o End,
     b \o Blank \o number(0) \o End,
     ldr \o Blank \o x0 \o Blank \o a \o End,
     ldr \o Blank \o x0 \o Blank \o number(6) \o End,
     number(1) \o End}

\* Comments that fill the buffer and that are one character too long.
Filled == nop \o comment \o [i \in 1 .. MAX_LINE_LENGTH - 7 |-> 97] \o End
TooLong == comment \o [i \in 1 .. MAX_LINE_LENGTH - 3 |-> Space] \o End

MCOtherwise ==
    {label(a) \o End, b \o Blank \o a \o End,
     label(odd_name) \o End,
     TabStop \o label(Upper(a)) \o Blank \o comment \o a \o End,
     label(a) \o Blank \o nop \o End,
     a \o Blank \o <<Colon>> \o End,
     comment \o label(a) \o End, Blank \o comment \o comment \o nop \o End,
     nop \o comment \o comment \o End,
     Blank \o Blank \o Upper(b) \o Blank \o Blank \o a \o Blank \o End,
     b \o TabStop \o a \o End, b \o Blank \o TabStop \o a \o End,
     b \o Blank \o a \o Blank \o b \o End,
     b \o Blank \o TabStop \o Blank \o a \o End,
     b \o Blank \o number(1) \o number(2) \o a \o End,
     b \o End, Filled, TooLong, TabStop, Blank \o TabStop \o End}

MCCharacters == {Newline, 9, Space, Slash, Zero + 1, Colon, 66, 98, 97}

FilesOf(lines, length) ==
    UNION {{FlattenSeq(f) : f \in [1 .. n -> lines]} : n \in 0 .. length}
MCFiles ==
    FilesOf(MCPlainly, 4) \cup {f \o nop : f \in FilesOf(MCPlainly, 3)} \cup
    FilesOf(MCOtherwise, 2) \cup
    {f \o End : f \in BoundedSeq(MCCharacters, 4)}

MCSymbols ==
    {odd_name} \cup
    {s \in BoundedSeq({Zero + 1, 97, 98}, 3) : is_symbol(s)}

\* TLC evaluates such a definition once, but one that the configuration
\* gives to a constant each time.
SourcesRead == {read_file(f) : f \in MCFiles}
MCPrograms == SourcesRead
MCBases == {8, 58}
MCValues == 0 .. AddrMod - 1
=============================================================================
