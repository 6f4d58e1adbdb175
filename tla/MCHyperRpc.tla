----------------------------- MODULE MCHyperRpc -----------------------------
(* Small instances of HyperRpc.                                               *)
EXTENDS HyperRpc

CONSTANTS c1, c2, c3, c4, r1, r2, t1

\* One application thread issues c1, then c2, synchronously; c3 and c4 are issued
\* by closures in a worker, c4 synchronously.
Callers == [c \in Calls |-> IF c \in {c3, c4} THEN InWorker ELSE t1]
AllFound == [c \in Calls |-> "found"]
SecondUnrouted == [c \in Calls |-> IF c = c2 THEN "none" ELSE "found"]
FirstOversize == [c \in Calls |-> IF c = c1 THEN "oversize" ELSE "found"]
OneCopy == [p \in Calls \cup Requests |-> 1]
\* c3 hears nothing but misfits.
NoneFits == [p \in Calls \cup Requests |-> IF p = c3 THEN 0 ELSE 1]
Duplicates == [p \in Calls \cup Requests |-> IF p = c3 THEN 2 ELSE 1]
FirstRetries == [c \in Calls |-> IF c = c1 THEN 2 ELSE 1]
=============================================================================
