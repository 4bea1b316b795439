------------------------------ MODULE MCSound -------------------------------
(* A ring of three slots (two waiting notes): it fills, wraps and drains.  *)
EXTENDS Sound

C4 == [freq |-> 261, duration_ms |-> 2]
Rest == [freq |-> 0, duration_ms |-> 1]
C5 == [freq |-> 523, duration_ms |-> 3]
MCNotes == {C4, Rest, C5}

SourceOnly == {SourceOrder}
BuildOnly == {BuildOrder}
=============================================================================
