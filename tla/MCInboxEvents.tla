--------------------------- MODULE MCInboxEvents ---------------------------
(* One inbox, one subscriber and two streams, for TLC.                       *)
EXTENDS InboxEvents
=============================================================================
