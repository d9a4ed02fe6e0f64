------------------------------ MODULE MCWorkerPool ------------------------------
(* Instances of WorkerPool for TLC: twice as many callers as workers. *)
EXTENDS WorkerPool

FourCallers == {"c1", "c2", "c3", "c4"}
TwoCallers == {"c1", "c2"}
================================================================================
