---------------------------- MODULE MCControlGate ----------------------------
(* A small instance of ControlGate: the bound on requests is its only size. *)
EXTENDS ControlGate
=============================================================================
