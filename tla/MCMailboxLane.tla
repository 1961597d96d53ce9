---------------------------- MODULE MCMailboxLane ----------------------------
(***************************************************************************)
(* A mailbox with a line that is not signed, a job of r1, a malformed and  *)
(* a hostile line of r2, and r1's job_id from r2; an HTTP request of r1    *)
(* for its job besides.  One worker slot, one crash or one ledger call     *)
(* that raises.                                                            *)
(***************************************************************************)
EXTENDS MailboxLane

CONSTANTS anon, mail, bad, worse, other, http, node, r1, r2, j1, b1

MCLine == <<anon, mail, bad, worse, other>>
MCCall == {anon, mail, bad, worse, other, http}
MCProcOf == [c \in MCCall |-> node]
MCRequesterOf == [c \in MCCall |-> IF c \in {other, bad, worse} THEN r2 ELSE r1]
MCJobOf == [c \in MCCall |-> j1]
MCBodyOf == [c \in MCCall |-> b1]
============================================================================
