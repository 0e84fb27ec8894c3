---------------------------- MODULE MCWorkerHost ---------------------------
(* Small worker hosts; slots and worker types are model values. *)
EXTENDS WorkerHost
=============================================================================
