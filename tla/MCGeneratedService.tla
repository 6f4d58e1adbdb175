------------------------- MODULE MCGeneratedService -------------------------
(* A small instance of GeneratedService: the server's file lists the methods  *)
(* of the first service in another order, lacks one and has one more.         *)
EXTENDS GeneratedService

CONSTANTS t1, t2, s1, s2

ClientMethods == << <<"get", "put", "old">>, <<"stat">> >>
ServerMethods == << <<"new", "put", "get">>, <<"stat">> >>
Implemented == << {"get"}, {"stat"} >>
=============================================================================
