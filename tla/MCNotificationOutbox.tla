------------------------ MODULE MCNotificationOutbox ------------------------
(* Instances of NotificationOutbox for TLC.                                *)
EXTENDS NotificationOutbox, TLC

CONSTANTS r1, loop, answer

ErrorRoute == {"import-errors"}
=============================================================================
