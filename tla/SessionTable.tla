---------------------------- MODULE SessionTable ----------------------------
(* What RpcCore relies on from a worker's session table: a bounded set of     *)
(* open calls, each of which ends with one result. A call is turned away only *)
(* when the table is full, and leaves the table only after it has ended.      *)
EXTENDS Naturals, FiniteSets

CONSTANTS
  Calls,     \* the calls the table may be given
  Results,   \* what a call may end with
  Capacity   \* how many calls may be open at a time

Undecided == "none"

VARIABLES
  open,      \* calls the table holds
  verdict    \* the result of each call that has ended

vars == <<open, verdict>>

Init == open = {} /\ verdict = [c \in Calls |-> Undecided]

Outside(c) == c \notin open /\ verdict[c] = Undecided

Open(c) ==
  /\ Outside(c)
  /\ Cardinality(open) < Capacity
  /\ open' = open \cup {c}
  /\ UNCHANGED verdict

TurnAway(c) ==
  /\ Outside(c)
  /\ Cardinality(open) = Capacity
  /\ verdict' = [verdict EXCEPT ![c] = "kInError"]
  /\ UNCHANGED open

End(c, result) ==
  /\ c \in open
  /\ verdict[c] = Undecided
  /\ verdict' = [verdict EXCEPT ![c] = result]
  /\ UNCHANGED open

Close(c) ==
  /\ c \in open
  /\ verdict[c] # Undecided
  /\ open' = open \ {c}
  /\ UNCHANGED verdict

Next ==
  \E c \in Calls :
    \/ Open(c)
    \/ TurnAway(c)
    \/ \E result \in Results : End(c, result)
    \/ Close(c)

Spec == Init /\ [][Next]_vars
=============================================================================
