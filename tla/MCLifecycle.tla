---------------------------- MODULE MCLifecycle ----------------------------
(* Small instances of Lifecycle.                                              *)
EXTENDS Lifecycle

HudpDefaults == [worker_num |-> 2, worker_queue_size |-> 1]
HudpBlank == [worker_num |-> 0, worker_queue_size |-> 0]
NoFlags == [name \in Names |-> NoFlag]

\* The same flags whose value MaxRpcSessions refuses once a Build has taken the
\* workers', and a timeout it always refuses.
Lines == {NoFlags,
          [NoFlags EXCEPT !.worker_num = 3, !.worker_queue_size = 1],
          [NoFlags EXCEPT !.worker_num = 3, !.max_rpc_sessions = 1],
          [NoFlags EXCEPT !.worker_num = 1, !.default_rpc_timeout = 0]}
NoLine == {NoFlags}
=============================================================================
