-------------------------- MODULE MCParameterControl --------------------------
(* A small instance of ParameterControl: one parameter and one command.     *)
EXTENDS ParameterControl
=============================================================================
