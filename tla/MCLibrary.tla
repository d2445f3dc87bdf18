----------------------------- MODULE MCLibrary ------------------------------
(* Ten bytes of memory: distinct ones, strings of several lengths, and      *)
(* repeating ones that comparisons take long to tell apart.  Numbers of 6   *)
(* bits, shorts of 4 and chars of 2, at and about the limits of each.       *)
EXTENDS Library

MCBytes == 0..10
MCMemories ==
    {[a \in Addr |-> IF a \in Z THEN 0 ELSE a + 1] : Z \in {{}, {3}, {2, 7}}}
    \cup {[a \in Addr |-> IF a \in {4, 8} THEN 0 ELSE (a % 4) + 1],
          [a \in Addr |-> IF a = 9 THEN 0 ELSE 1 + (a % 2)]}

Item(kind, arg, width, zero, alt, sign, base, length_) ==
    [kind |-> kind, arg |-> arg, width |-> width, zero |-> zero, alt |-> alt,
     sign |-> sign, base |-> base, size |-> length_]

Char == Item("char", 20, 0, FALSE, FALSE, FALSE, 10, "int")
Strings ==
    {Item("str", s, w, FALSE, FALSE, FALSE, 10, "int") :
        s \in {<<>>, <<20, 21>>}, w \in {0, 3}}
Numbers ==
    {Item("num", x, w, z, alt, sb[1], sb[2], l) :
        x \in {0, 1, 8, 15, 31, 32, 33, 63}, w \in {0, 2, 4},
        z \in BOOLEAN, alt \in BOOLEAN,
        sb \in {<<TRUE, 10>>, <<FALSE, 10>>, <<FALSE, 16>>, <<FALSE, 8>>},
        l \in {"char", "short", "int"}}

MCFormats ==
    {<<>>} \cup {<<i>> : i \in Strings \cup Numbers}
    \cup {<<Char, i>> : i \in Strings \cup Numbers}
    \cup {<<i, Char, j>> : i, j \in Strings}
=============================================================================
