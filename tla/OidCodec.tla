------------------------------ MODULE OidCodec ------------------------------
(***************************************************************************)
(* The two interface indexes that config/oid_generator.go computes for a   *)
(* PON port, and the inverse that internal/trap/listener.go applies to the *)
(* index found in a trap.                                                  *)
(***************************************************************************)
EXTENDS Integers, Sequences

OnuIDIfIndexBase   == 285278208
OnuIDSlotStride    == 256
OnuIDIncrement     == 1
OnuTypeIfIndexBase == 268435456
OnuTypeSlotStride  == 65536
OnuTypeIncrement   == 256
MaxBoardID == 30
MaxPonID   == 16

BoardIDs == 1..MaxBoardID
PonIDs   == 1..MaxPonID

\* The suffixes of a port that GenerateBoardPonOID does not refuse.
GenerateBoardPonOID(boardID, ponID) ==
    [onuIDSuffix   |-> OnuIDIfIndexBase + boardID * OnuIDSlotStride + ponID * OnuIDIncrement,
     onuTypeSuffix |-> OnuTypeIfIndexBase + boardID * OnuTypeSlotStride + ponID * OnuTypeIncrement]

\* Mutant: the slot is one byte of the index, whatever the shelf above it is.
MutParse(parts) ==
    LET n    == parts[1] - OnuIDIfIndexBase
        slot == (n \div OnuIDSlotStride) % 256
        pon  == n % OnuIDSlotStride
    IN  IF n < 1 \/ slot \notin BoardIDs \/ pon \notin PonIDs
        THEN [board |-> 0, pon |-> 0, onuID |-> parts[Len(parts)]]
        ELSE [board |-> slot, pon |-> pon, onuID |-> IF Len(parts) >= 2 THEN parts[2] ELSE 0]

\* parseOnuIndex: parts are the numbers of the OID behind the prefix.  When the
\* first is not the index of a port, the last one is taken for the ONU.
parseOnuIndex(parts) ==
    LET n    == parts[1] - OnuIDIfIndexBase
        slot == n \div OnuIDSlotStride
        pon  == n % OnuIDSlotStride
    IN  IF n < 1 \/ slot \notin BoardIDs \/ pon \notin PonIDs
        THEN [board |-> 0, pon |-> 0, onuID |-> parts[Len(parts)]]
        ELSE [board |-> slot, pon |-> pon, onuID |-> IF Len(parts) >= 2 THEN parts[2] ELSE 0]
=============================================================================
