--------------------------- MODULE MCSymbolTable ---------------------------
(***************************************************************************)
(* Small instances of the symbol table: eight buckets, characters 1 to 4.  *)
(* The key <<1>> hashes to 1, <<2>> to 2, <<1, 4>> to 3 and <<1, 4, 1>> to *)
(* 6; <<1, 2>> collides with its prefix <<1>>, <<1, 3>> with <<2>>.        *)
(***************************************************************************)
EXTENDS SymbolTableUse

\* Two keys in one bucket.
CollidingKeys == {<<2>>, <<1, 3>>, <<1, 4>>}

\* A key and a prefix of it in one bucket.
PrefixKeys == {<<1>>, <<1, 2>>}

\* Both, and two keys with buckets of their own, one a prefix of the other.
AllKeys == CollidingKeys \cup PrefixKeys \cup {<<1, 4, 1>>}
=============================================================================
