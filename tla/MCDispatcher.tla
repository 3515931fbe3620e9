---------------------------- MODULE MCDispatcher ----------------------------
(* One role with a per_role semaphore, one serialized by its Lock. *)
EXTENDS Dispatcher, TLC

MCPerRole == "engineer" :> 2
=============================================================================
