---------------------------- MODULE BoardSession ----------------------------
(***************************************************************************)
(* What a Framegrabber session promises to those who watch it: it has the  *)
(* board with one applet, or has released it; every opening is a new       *)
(* connection, numbered one higher than the last; and each change is told, *)
(* in order, before the next one happens.                                  *)
(***************************************************************************)
EXTENDS Integers

CONSTANTS
  Applets,   \* applet files
  None       \* no applet: the board is released

VARIABLES
  applet,    \* the applet of the open connection, None when released
  number,    \* connections opened so far
  told       \* the ConnectionStatus last notified

svars == <<applet, number, told>>

SessionInit == applet = None /\ number = 0 /\ told = FALSE

\* A change is told before the next: a session opens only when its release was.
Connect ==
  /\ applet = None /\ ~told
  /\ applet' \in Applets /\ number' = number + 1
  /\ UNCHANGED told

Disconnect ==
  /\ applet # None /\ told
  /\ applet' = None
  /\ UNCHANGED <<number, told>>

Tell ==
  /\ told # (applet # None)
  /\ told' = (applet # None)
  /\ UNCHANGED <<applet, number>>

SessionNext == Connect \/ Disconnect \/ Tell

SessionSpec == SessionInit /\ [][SessionNext]_svars
=============================================================================
