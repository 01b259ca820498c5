--------------------------- MODULE MCAggregate ---------------------------
(***************************************************************************)
(* Up to three upstreams with the same series.  The first two hold an      *)
(* episode of it, the second also a series of its own.  The names on the   *)
(* second are Chinese, the third lists the series twice, under two ids.    *)
(***************************************************************************)
EXTENDS Aggregate, TLC

CONSTANTS A, B, C, a1, a2, b1, b2, b3, c1, c2, r1, r2

Of(s) == CASE s = A -> {a1, a2} [] s = B -> {b1, b2, b3} [] s = C -> {c1, c2}
MCItems == UNION {Of(s) : s \in Servers}
MCSrvOf == [i \in MCItems |-> CHOOSE s \in Servers : i \in Of(s)]
MCKey == [i \in MCItems |->
            CASE i \in {a1, b1, c1, c2} -> "series" [] i \in {a2, b2} -> "episode" [] i = b3 -> "other"]
MCLibrary == [s \in Servers |->
                CASE s = A -> <<a1>> [] s = B -> <<b3, b1>> [] s = C -> <<c1, c2>>]
MCContents == [i \in MCItems |-> CASE i = a1 -> <<a2>> [] i = b1 -> <<b2>> [] OTHER -> <<>>]

Symmetry == Permutations({r1, r2})
=============================================================================
