------------------------------ MODULE MCRuntime ------------------------------
(* Runtime on small instances: every constant is a set or a number of the cfg. *)
EXTENDS Runtime
=============================================================================
