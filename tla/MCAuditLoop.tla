---------------------------- MODULE MCAuditLoop ----------------------------
(***************************************************************************)
(* The mailbox loop alone, as on a node without HTTP intake: an ordinary   *)
(* receipt j1, one that is too large for a message, j2, and one that is    *)
(* damaged in the ledger, j3.                                              *)
(***************************************************************************)
EXTENDS AuditCopies

CONSTANTS j1, j2, j3

MCJobOf == [c \in {} |-> j1]
=============================================================================
