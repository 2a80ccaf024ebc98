--------------------------- MODULE MCIndexReaders ---------------------------
(* IndexReaders on small instances, with the values of MCIndexProtocol.      *)
EXTENDS IndexReaders, TLC

CONSTANTS v0, v1

(* Every file there and committed at the start.                              *)
AllPresent == [f \in Files |-> v0]

WholeRepo == {Files}
=============================================================================
