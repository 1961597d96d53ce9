--------------------------- MODULE MCAuditCopies ---------------------------
(***************************************************************************)
(* The mailbox loop beside HTTP callers: j1 came through the mailbox, and  *)
(* the room holds an older receipt this key posted for it; j2 came over    *)
(* HTTP.                                                                   *)
(***************************************************************************)
EXTENDS AuditCopies

CONSTANTS j1, j2, c1

MCJobOf == [c \in {c1} |-> j2]
============================================================================
