--------------------------- MODULE MCRoomRecovery ---------------------------
(***************************************************************************)
(* Small instances of RoomRecovery.                                        *)
(***************************************************************************)
EXTENDS RoomRecovery

=============================================================================
