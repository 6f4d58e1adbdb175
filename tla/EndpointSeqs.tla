---------------------------- MODULE EndpointSeqs ----------------------------
(* What the users of EndpointList see: each list is a sequence of endpoints,  *)
(* lists are independent of each other, and a list that is moved from, or     *)
(* assigned to itself, is empty.                                              *)
EXTENDS Sequences

CONSTANTS
  Lists,       \* the EndpointList objects
  Addrs        \* the endpoints

VARIABLE contents

Init == contents = [l \in Lists |-> << >>]

PushBack(l, a) == contents' = [contents EXCEPT ![l] = Append(@, a)]
Clear(l) == contents' = [contents EXCEPT ![l] = << >>]
Copy(l, m) == l # m /\ contents' = [contents EXCEPT ![l] = contents[m]]
Move(l, m) == l # m /\ contents' = [contents EXCEPT ![l] = contents[m],
                                                    ![m] = << >>]

Next ==
  \E l \in Lists :
    \/ \E a \in Addrs : PushBack(l, a)
    \/ Clear(l)
    \/ \E m \in Lists : Copy(l, m) \/ Move(l, m)

Spec == Init /\ [][Next]_contents
=============================================================================
