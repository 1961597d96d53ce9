----------------------------- MODULE MCHttpLane -----------------------------
(***************************************************************************)
(* One process and a limit of one job an hour.  r1 submits a job over      *)
(* HTTP, again under a fresh nonce, and another in the mailbox; r2 guesses *)
(* its job_id in a malformed request, and posts a malformed line.          *)
(***************************************************************************)
EXTENDS HttpLane

CONSTANTS one, fresh, mail, squat, line, node, r1, r2, j1, j2, b1

MCCall == {one, fresh, mail, squat, line}
MCProcOf == [c \in MCCall |-> node]
MCRequesterOf == [c \in MCCall |-> IF c \in {squat, line} THEN r2 ELSE r1]
MCJobOf == [c \in MCCall |-> IF c \in {line, mail} THEN j2 ELSE j1]
MCBodyOf == [c \in MCCall |-> b1]
MCNonceOf == [c \in MCCall |-> IF c = fresh THEN 2 ELSE 1]
=============================================================================
