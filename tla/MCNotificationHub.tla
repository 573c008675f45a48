--------------------------- MODULE MCNotificationHub ---------------------------
(***************************************************************************)
(* An instance of NotificationHub for TLC.                                 *)
(***************************************************************************)
EXTENDS NotificationHub

CONSTANTS m1, m2, m3, s1

MCMessages == {m1, m2, m3}
MCStreams == {s1}
\* 0 is refused; 1 replays less than the buffer holds, 2 all of it.
MCInitialLimits == {0, 1, 2}
===============================================================================
