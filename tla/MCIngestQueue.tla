--------------------------- MODULE MCIngestQueue ---------------------------
(* Instances of IngestQueue for TLC. *)
EXTENDS IngestQueue

CONSTANTS e1, e2, w1, w2

TwoEvents == {e1, e2}
JustE2 == {e2}
TwoWorkers == {w1, w2}

\* Two events and one fault, or one event and a fault of two kinds.
MCBounds ==
  {[events |-> TwoEvents, losses |-> 1, expiries |-> 0, purges |-> 0],
   [events |-> TwoEvents, losses |-> 0, expiries |-> 1, purges |-> 0],
   [events |-> {e1}, losses |-> 1, expiries |-> 1, purges |-> 0],
   [events |-> {e1}, losses |-> 0, expiries |-> 1, purges |-> 1]}

=============================================================================
