----------------------------- MODULE MCFigures -----------------------------
(***************************************************************************)
(* Two processes on one ledger: the operator's self-test (cli), the        *)
(* service that reads the same line from the mailbox and publishes the     *)
(* figures (node), and a stranger who names the self-test's job_id over    *)
(* HTTP, and in a malformed mailbox line.                                  *)
(***************************************************************************)
EXTENDS Figures

CONSTANTS test, mail, squat, line, cli, node, own, r2, j1, b1

MCCall == {test, mail, squat, line}
MCProcOf == [c \in MCCall |-> IF c = test THEN cli ELSE node]
MCRequesterOf == [c \in MCCall |-> IF c \in {squat, line} THEN r2 ELSE own]
MCJobOf == [c \in MCCall |-> j1]
MCBodyOf == [c \in MCCall |-> b1]
============================================================================
