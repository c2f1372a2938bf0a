-------------------------- MODULE MCAppletLifecycle --------------------------
(* Small instances of AppletLifecycle: applets and configurations are        *)
(* interchangeable.                                                          *)
EXTENDS AppletLifecycle, TLC

PathSymmetry == Permutations(Applets) \cup Permutations(Configs)
=============================================================================
