------------------------- MODULE MCChannelLifecycle -------------------------
(* Small instances of ChannelLifecycle: two DMA channels of a CoaXPress      *)
(* applet, and controllers that are interchangeable.                        *)
EXTENDS ChannelLifecycle, TLC

TwoDmas == {0, 1}
OneDma == {0}

AllOperations ==
  {"grab", "stop", "requestStop", "close", "load", "connect", "disconnect"}
JoiningOperations == AllOperations \ {"requestStop"}
RunOperations == {"grab", "stop", "requestStop", "close", "load"}
ReentrantOperations == {"grab", "stop", "requestStop", "close"}
NoOperations == {}

ControllerSymmetry == Permutations(Controllers)
=============================================================================
