---------------------------- MODULE MCRoomClaim ----------------------------
(***************************************************************************)
(* Commands without a bound on their number; three ticks, so that a note   *)
(* lapses after two unrenewed ones; two faults of any kind.                *)
(***************************************************************************)
EXTENDS RoomClaim
============================================================================
