---------------------------- MODULE MCRpcSystem ----------------------------
(* Small instances of RpcSystem.                                              *)
EXTENDS RpcSystem

CONSTANTS c1, c2, c3

OneOrTwo == [c \in Calls |-> IF c = c1 THEN 2 ELSE 1]
Methods == [c \in Calls |-> IF c = c2 THEN "Store" ELSE "Query"]
=============================================================================
