--------------------------- MODULE MCNotifications ---------------------------
(* Two workers, two users with a device, two broadcasts and the reminders    *)
(* of one turn.                                                              *)
EXTENDS Notifications
=============================================================================
