------------------------ MODULE MCLedgerMigration ------------------------
(***************************************************************************)
(* The service and a command open one file of any earlier shape, of one    *)
(* retired column and three added ones, with a published, an owed and an   *)
(* internal receipt in any combination; two of the faults.                 *)
(***************************************************************************)
EXTENDS LedgerMigration

CONSTANTS service, cli, r1, r2

MCRetired == <<"normalized_text">>
MCAdded == <<"audit_seq", "audit_state", "generation">>
==========================================================================
