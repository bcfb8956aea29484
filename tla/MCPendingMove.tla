---------------------------- MODULE MCPendingMove ----------------------------
(* Small instances of PendingMove: an inbox and an archive. *)
EXTENDS PendingMove

CONSTANTS inbox, archive
=============================================================================
