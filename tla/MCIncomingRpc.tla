--------------------------- MODULE MCIncomingRpc ---------------------------
(* Small instances of IncomingRpc.                                            *)
EXTENDS IncomingRpc

CONSTANTS w1, w2, t1, plain, arena, older, echo, add, r1, r2, r3, r4, r5

\* echo is implemented by both services, add left to the base class of arena.
\* older has arena's name and was registered before it.
\* r3's body does not parse, r4's header does not fit its length field.
Calls == [r \in Requests |->
  CASE r = r1 -> [service |-> "Plain", method |-> echo]
    [] r = r2 -> [service |-> "Arena", method |-> add]
    [] r = r5 -> [service |-> "Arena", method |-> "unknown"]
    [] OTHER  -> [service |-> "Arena", method |-> echo]]
ServicesInOrder == <<older, plain, arena>>
Names == [s \in {older, plain, arena} |-> IF s = plain THEN "Plain" ELSE "Arena"]
Declared == [s \in {older, plain, arena} |->
  IF s = older THEN {"unknown", echo} ELSE {echo, add}]
Implemented == [s \in {older, plain, arena} |-> {echo}]
HeaderLengths == [r \in Requests |-> IF r = r4 THEN 5 ELSE 2]
BodyLengths == [r \in Requests |-> IF r = r1 THEN 3 ELSE 0]
=============================================================================
