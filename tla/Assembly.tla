----------------------------- MODULE Assembly -----------------------------
(***************************************************************************)
(* What assembling a source is, without passes and without a symbol table: *)
(* line i is at four times the number of code lines before it, a symbol is *)
(* the address of its last declaration, and the source is translated as a  *)
(* whole or refused as a whole.                                            *)
(***************************************************************************)
EXTENDS SourceLines, FiniteSets

VARIABLES
    program,    \* the source
    base,       \* the address the binary is to be loaded at
    result      \* <<"none">>, <<"refused">>, <<"failed">>, or <<"done", the
                \* words by their offset>>

vars == <<program, base, result>>

CodeLines(p) == {i \in DOMAIN p : p[i].kind \notin NoCodeKinds}
Offset(p, i) == WORD_SIZE_BYTES * Cardinality({j \in CodeLines(p) : j < i})

Declarations(p, symbol) ==
    {i \in DOMAIN p : p[i].kind = "label" /\ p[i].symbol = symbol}

\* A symbol declared again means the last declaration.
AddressOf(p, b, symbol) ==
    LET last == CHOOSE i \in Declarations(p, symbol) :
                   \A j \in Declarations(p, symbol) : j <= i
    IN  (b + Offset(p, last)) % AddrMod

Value(p, b, target) ==
    IF IsSymbol(target) THEN AddressOf(p, b, target.symbol) ELSE target.number

\* The distance from line i to its target.
Distance(p, b, i) == Value(p, b, p[i].target) - (b + Offset(p, i))

Refused(p, b, i) ==
    \/ p[i].kind \in {"invalid", "unended"}
    \/ /\ p[i].kind \in {"branch", "literal"}
       /\ IsSymbol(p[i].target)
       /\ Declarations(p, p[i].target.symbol) = {}
    \/ /\ p[i].kind = "branch"
       /\ Value(p, b, p[i].target) % WORD_SIZE_BYTES # 0

\* The offset in words, as many bits of it as the field has.
Translated(p, b, i) ==
    IF p[i].kind = "plain"
    THEN PlainWord(p[i].word)
    ELSE [word |-> p[i].word, field |-> p[i].field,
          simm |-> (Distance(p, b, i) \div WORD_SIZE_BYTES) % p[i].field]

Translation(p, b) ==
    [a \in {Offset(p, i) : i \in CodeLines(p)} |->
        Translated(p, b, CHOOSE i \in CodeLines(p) : Offset(p, i) = a)]

Init == result = <<"none">>

Refuse ==
    /\ result = <<"none">>
    /\ \E i \in DOMAIN program : Refused(program, base, i)
    /\ result' = <<"refused">>
    /\ UNCHANGED <<program, base>>

Translate ==
    /\ result = <<"none">>
    /\ \A i \in DOMAIN program : ~Refused(program, base, i)
    /\ result' = <<"done", Translation(program, base)>>
    /\ UNCHANGED <<program, base>>

\* A file cannot be opened.
Fail ==
    /\ result = <<"none">>
    /\ result' = <<"failed">>
    /\ UNCHANGED <<program, base>>

Next == Refuse \/ Translate \/ Fail

Spec == Init /\ [][Next]_vars
=============================================================================
