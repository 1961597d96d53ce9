---------------------------- MODULE MCRoomCursor ----------------------------
(***************************************************************************)
(* A mailbox small enough to overflow, whose messages all differ, or not.  *)
(***************************************************************************)
EXTENDS RoomCursor

MCDistinct == [i \in 1 .. MaxPosts |-> [from |-> 1, text |-> i]]
MCBelow == -1
\* The second line's text has no UTF-8 form; its sender is the others', or another.
MCGarbled == [MCDistinct EXCEPT ![2].text = None]
MCStranger == [MCGarbled EXCEPT ![2].from = 2]
\* The fourth message repeats the second.
MCRepeated == [i \in 1 .. MaxPosts |-> [from |-> 1, text |-> IF i = 4 THEN 2 ELSE i]]
=============================================================================
