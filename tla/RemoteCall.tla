----------------------------- MODULE RemoteCall -----------------------------
(* What hyperrpc promises of a call between two processes, over a network     *)
(* that promises nothing: the service may run any number of times, also after *)
(* the call has ended, and the caller is given at most one result, which is   *)
(* one the service produced for this call, kTimeout, or kInError if the       *)
(* service can never run for it.                                              *)
CONSTANTS Calls, PeerResults

VARIABLES
  state,     \* where each call stands
  produced,  \* the results the service has produced for each call
  verdict    \* the result the caller was given

vars == <<state, produced, verdict>>

Init ==
  /\ state = [c \in Calls |-> "idle"]
  /\ produced = [c \in Calls |-> {}]
  /\ verdict = [c \in Calls |-> "none"]

Issue(c) ==
  /\ state[c] = "idle"
  /\ state' = [state EXCEPT ![c] = "open"]
  /\ UNCHANGED <<produced, verdict>>

Refuse(c) ==
  /\ state[c] = "idle"
  /\ state' = [state EXCEPT ![c] = "refused"]
  /\ verdict' = [verdict EXCEPT ![c] = "kInError"]
  /\ UNCHANGED produced

\* At least once, late, or never.
Execute(c, result) ==
  /\ state[c] \in {"open", "ended", "abandoned"}
  /\ produced' = [produced EXCEPT ![c] = @ \cup {result}]
  /\ UNCHANGED <<state, verdict>>

End(c, result) ==
  /\ state[c] = "open"
  /\ result \in produced[c] \cup {"kTimeout"}
  /\ state' = [state EXCEPT ![c] = "ended"]
  /\ verdict' = [verdict EXCEPT ![c] = result]
  /\ UNCHANGED produced

\* The caller's process dies: its open calls have no result.
Crash ==
  /\ state' = [c \in Calls |-> IF state[c] = "open" THEN "abandoned" ELSE state[c]]
  /\ UNCHANGED <<produced, verdict>>

Next ==
  \/ \E c \in Calls : Issue(c) \/ Refuse(c)
  \/ \E c \in Calls, result \in PeerResults : Execute(c, result)
  \/ \E c \in Calls, result \in PeerResults \cup {"kTimeout"} : End(c, result)
  \/ Crash

Spec == Init /\ [][Next]_vars
=============================================================================
