------------------------------ MODULE MCLifecycle ------------------------------
(* An instance of Lifecycle for TLC: the one dispatcher of the process. *)
EXTENDS Lifecycle

DispatcherOnly == {Dispatcher}
================================================================================
