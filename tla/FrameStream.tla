----------------------------- MODULE FrameStream -----------------------------
(***************************************************************************)
(* What the grab callbacks of one DMA channel may rely on, said without    *)
(* the worker, the buffers and the waiting: frames arrive numbered; the    *)
(* callback is shown some of them, each newer than the last, none before   *)
(* its transfer is complete, and none before the previous one has been     *)
(* accepted with ready().  FrameDelivery implements it.                    *)
(***************************************************************************)
EXTENDS Integers

VARIABLES
  newest,   \* the frames that have arrived are 1 .. newest
  shown,    \* the frame last shown to the callbacks, 0 before the first
  owed      \* the callback has yet to accept the frame it was shown

streamVars == <<newest, shown, owed>>

StreamTypeOK == newest \in Nat /\ shown \in 0 .. newest /\ owed \in BOOLEAN

StreamInit == newest = 0 /\ shown = 0 /\ owed = FALSE

Arrive ==
  /\ newest' = newest + 1
  /\ UNCHANGED <<shown, owed>>

\* Frames in between are skipped, dropped or rejected.
Show ==
  /\ ~owed
  /\ shown' \in shown + 1 .. newest
  /\ owed' = TRUE
  /\ UNCHANGED newest

Accept ==
  /\ owed
  /\ owed' = FALSE
  /\ UNCHANGED <<newest, shown>>

StreamNext == Arrive \/ Show \/ Accept

StreamSpec == StreamInit /\ [][StreamNext]_streamVars
=============================================================================
