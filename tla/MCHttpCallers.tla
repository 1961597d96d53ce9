---------------------------- MODULE MCHttpCallers ----------------------------
(***************************************************************************)
(* One process and a limit of one job an hour.  r1 submits j1 and j2 at    *)
(* once; r2 guesses j1, and sends a job that is malformed, over HTTP and   *)
(* in the mailbox.                                                         *)
(***************************************************************************)
EXTENDS HttpLane

CONSTANTS one, two, squat, bad, line, node, r1, r2, j1, j2, b1

MCCall == {one, two, squat, bad, line}
MCProcOf == [c \in MCCall |-> node]
MCRequesterOf == [c \in MCCall |-> IF c \in {one, two} THEN r1 ELSE r2]
MCJobOf == [c \in MCCall |-> IF c \in {one, squat} THEN j1 ELSE j2]
MCBodyOf == [c \in MCCall |-> b1]
MCNonceOf == [c \in MCCall |-> IF c \in {one, squat} THEN 1 ELSE 2]
=============================================================================
