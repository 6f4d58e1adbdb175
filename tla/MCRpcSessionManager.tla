------------------------ MODULE MCRpcSessionManager ------------------------
(* Small instances of RpcSessionManager.                                      *)
EXTENDS RpcSessionManager, TLC

CONSTANTS c1, c2, c3, c4

\* Two of the calls may retry; two share a method.
OneOrTwo == [c \in Calls |-> IF c = c2 THEN 1 ELSE 2]
Methods  == [c \in Calls |-> IF c = c2 THEN "Store" ELSE "Query"]

\* c3's list is one longer than AddSession accepts when IndexSpan is 3.
OneOversize == [c \in Calls |-> IF c = c3 THEN 4 ELSE IF c = c1 THEN 2 ELSE 1]
=============================================================================
