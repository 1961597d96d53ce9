---------------------------- MODULE MCJobRunner ----------------------------
(***************************************************************************)
(* One process: two submissions of job j1 by r1 (a mailbox line and an     *)
(* HTTP request), a stranger r2 naming the same id, and a second job of    *)
(* r1.  The limit of one job an hour is reached by the first.              *)
(***************************************************************************)
EXTENDS JobRunner

CONSTANTS mail, http, squat, other, node, r1, r2, j1, j2, b1, b2

MCCall == {mail, http, squat, other}
MCProc == {node}
MCProcOf == [c \in MCCall |-> node]
MCRequesterOf == [c \in MCCall |-> IF c = squat THEN r2 ELSE r1]
MCJobOf == [c \in MCCall |-> IF c = other THEN j2 ELSE j1]
MCBodyOf == [c \in MCCall |-> IF c = http THEN b2 ELSE b1]
============================================================================
