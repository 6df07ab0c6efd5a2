--------------------------- MODULE MCBoardLayout ---------------------------
(***************************************************************************)
(* Parts of OLT_BOARDS at the edges of the ranges, with and without ports. *)
(***************************************************************************)
EXTENDS BoardLayout

Part(slot, hasPon, n) == [slot |-> slot, hasPon |-> hasPon, pons |-> n]
EdgeParts ==
    {Part(s, FALSE, 0) : s \in {0, 1, 30, 31}}
        \cup {Part(s, TRUE, n) : s \in {1, 30}, n \in {0, 1, 16, 17}}
EdgeDefaults == {0, 8, 16}
EdgeOnus == {1, 128}

\* Around the indexes of the outermost ports of the outermost slots: one port, one slot
\* and one shelf away, and numbers below all of them.
EdgeIndexes ==
    {GenerateBoardPonOID(b, p).onuIDSuffix + d :
        b \in {1, MaxBoardID}, p \in {1, MaxPonID}, d \in {-256, -1, 0, 1, 256, 65536}}
      \cup {0, OnuIDIfIndexBase - 1}

CardParts == {Part(3, TRUE, 16), Part(5, FALSE, 0)}
CardDefaults == {8}
=============================================================================
