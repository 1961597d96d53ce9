--------------------------- MODULE LedgerMigration ---------------------------
(***************************************************************************)
(* ledger/db.py: Ledger._migrate.  The service and the commands each bring *)
(* the one file to the current shape whenever they open it: the schema's   *)
(* script, then a column at a time, looked up and altered in statements of *)
(* their own, then a backfill and a scrub.  Each statement commits alone;  *)
(* a process may die between any two, lose a race for a column, or find    *)
(* the file locked, and is started again.                                  *)
(***************************************************************************)
EXTENDS Integers, Sequences

CONSTANTS Proc,      \* the processes that open the ledger
          Retired,   \* _RETIRED_COLUMNS, in their order
          Added,     \* _ADDED_COLUMNS, in their order
          Receipt,   \* receipts
          Internal,  \* the receipts of internal tests
          MaxFaults  \* bound on deaths and locked statements during a start

Statement == 1 .. Len(Retired) + Len(Added)

Column(i) == IF i <= Len(Retired) THEN Retired[i] ELSE Added[i - Len(Retired)]

MigrationAssumption ==
  /\ Retired \in Seq(STRING) /\ Added \in Seq(STRING)
  /\ \A i, k \in Statement : Column(i) = Column(k) => i = k
  /\ \E i \in DOMAIN Added : Added[i] = "audit_state"
  /\ Internal \subseteq Receipt
  /\ MaxFaults \in Nat

ASSUME MigrationAssumption

VARIABLES
  tables,   \* the file holds the ledger's tables
  columns,  \* which of the statements' columns are there
  residue,  \* the file holds bytes of a retired column
  marker,   \* PRAGMA user_version has reached _SCRUB_VERSION
  state,    \* [Receipt -> audit_state, or "absent" for no row]
  posted,   \* receipts whose audit_seq is not NULL
  at,       \* [Proc -> Place]
  next,     \* [Proc -> the statement that comes next]
  faults

file == <<tables, columns, residue, marker>>
rows == <<state, posted>>
process == <<at, next>>
vars == <<file, rows, process, faults>>

Place == {"off", "script", "look", "alter", "backfill", "scrub", "vacuum", "mark", "open"}
Columns == {Column(i) : i \in Statement}
Drops(i) == i <= Len(Retired)

\* Statement i has nothing left to do.
Done(i) == Drops(i) <=> Column(i) \notin columns

TypeOK ==
  /\ tables \in BOOLEAN
  /\ columns \subseteq Columns
  /\ residue \in BOOLEAN
  /\ marker \in BOOLEAN
  /\ state \in [Receipt -> {"absent", "owed", "published", "quarantined"}]
  /\ posted \subseteq Receipt
  /\ at \in [Proc -> Place]
  /\ next \in [Proc -> Statement \cup {Len(Retired) + Len(Added) + 1}]
  /\ faults \in 0 .. MaxFaults

\* No file, or one of any earlier build: the columns it had, a retired one's bytes
\* unless this or an earlier release scrubbed it, and what it knew of its receipts.
Init ==
  /\ tables \in BOOLEAN
  /\ columns \in IF tables THEN SUBSET Columns ELSE {{}}
  /\ residue \in IF tables THEN BOOLEAN ELSE {FALSE}
  /\ marker \in IF tables THEN BOOLEAN ELSE {FALSE}
  /\ (\E i \in Statement : Drops(i) /\ ~Done(i)) => residue
  /\ marker => ~residue /\ \A i \in Statement : Drops(i) => Done(i)
  /\ posted \in IF "audit_seq" \in columns THEN SUBSET (Receipt \ Internal) ELSE {{}}
  /\ state \in [Receipt -> IF tables THEN {"absent", "owed", "published"} ELSE {"absent"}]
  /\ \A r \in posted : state[r] # "absent"
  /\ "audit_state" \notin columns => \A r \in Receipt : state[r] # "published"
  /\ at = [p \in Proc |-> "off"]
  /\ next = [p \in Proc |-> 1]
  /\ faults = 0

----------------------------------------------------------------------------
Goto(p, place) == at' = [at EXCEPT ![p] = place]

\* sqlite3.OperationalError out of _migrate: the process does not start.
Fails(p) == Goto(p, "off") /\ UNCHANGED next

Open(p) ==
  /\ at[p] = "off"
  /\ Goto(p, "script")
  /\ next' = [next EXCEPT ![p] = 1]
  /\ UNCHANGED <<file, rows, faults>>

\* schema.sql: a missing table is created in the current shape, an old one left alone.
Script(p) ==
  /\ at[p] = "script"
  /\ tables' = TRUE
  /\ columns' = IF tables THEN columns ELSE {Column(i) : i \in {k \in Statement : ~Drops(k)}}
  /\ Goto(p, "look")
  /\ UNCHANGED <<residue, marker, rows, next, faults>>

GoOn(p) == Goto(p, "look") /\ next' = [next EXCEPT ![p] = @ + 1]

\* Slip: the columns are altered whatever table_info says.
NotLooked(i) == FALSE

\* What table_info says of the column when it is asked.
Settled(i) == Done(i)

\* Slip: a file that was scrubbed is taken to have the current shape.
LookUnlessMarked(p) ==
  /\ at[p] = "look" /\ next[p] \in Statement
  /\ \/ (Done(next[p]) \/ marker) /\ GoOn(p)
     \/ ~Done(next[p]) /\ ~marker /\ Goto(p, "alter") /\ UNCHANGED next
  /\ UNCHANGED <<file, rows, faults>>

\* _reconcile_columns, one column: is there anything to do?
Look(p) ==
  /\ at[p] = "look" /\ next[p] \in Statement
  /\ \/ Settled(next[p]) /\ GoOn(p)
     \/ ~Settled(next[p]) /\ Goto(p, "alter") /\ UNCHANGED next
  /\ UNCHANGED <<file, rows, faults>>

\* The ALTER: it raises if another process has made it since the look.
Alter(p) ==
  /\ at[p] = "alter"
  /\ \/ /\ Done(next[p])
        /\ Fails(p)
        /\ UNCHANGED <<columns, residue, state>>
     \/ /\ ~Done(next[p])
        /\ GoOn(p)
        /\ columns' = IF Drops(next[p]) THEN columns \ {Column(next[p])}
                                        ELSE columns \cup {Column(next[p])}
        /\ residue' \in IF Drops(next[p]) THEN {residue, TRUE} ELSE {residue}
        /\ state' = IF Column(next[p]) = "audit_state"
                    THEN [r \in Receipt |-> IF state[r] = "absent" THEN "absent" ELSE "owed"]
                    ELSE state
  /\ UNCHANGED <<tables, marker, posted, faults>>

Reconciled(p) ==
  /\ at[p] = "look" /\ next[p] \notin Statement
  /\ Goto(p, "backfill")
  /\ UNCHANGED <<file, rows, next, faults>>

\* Slip: once per file, like the scrub.
BackfillOnce(p) ==
  /\ at[p] = "backfill"
  /\ state' = [r \in Receipt |-> IF state[r] = "owed" /\ r \in posted \cup Internal /\ ~marker
                                 THEN "published" ELSE state[r]]
  /\ Goto(p, "scrub")
  /\ UNCHANGED <<file, posted, next, faults>>

\* _backfill_audit_state, at every start.
Backfill(p) ==
  /\ at[p] = "backfill"
  /\ state' = [r \in Receipt |-> IF state[r] = "owed" /\ r \in posted \cup Internal
                                 THEN "published" ELSE state[r]]
  /\ Goto(p, "scrub")
  /\ UNCHANGED <<file, posted, next, faults>>

\* _scrub_once, while user_version says it has not been done.
Scrub(p) ==
  /\ at[p] = "scrub"
  /\ Goto(p, IF marker THEN "open" ELSE "vacuum")
  /\ UNCHANGED <<file, rows, next, faults>>

\* Slip: best effort, so the marker is set either way.
VacuumMarked(p) ==
  /\ at[p] = "vacuum"
  /\ residue' \in {residue, FALSE}
  /\ Goto(p, "mark")
  /\ UNCHANGED <<tables, columns, marker, rows, next, faults>>

\* VACUUM rewrites the file, or fails and leaves it for the next start.
Vacuum(p) ==
  /\ at[p] = "vacuum"
  /\ \/ residue' = FALSE /\ Goto(p, "mark")
     \/ UNCHANGED residue /\ Goto(p, "open")
  /\ UNCHANGED <<tables, columns, marker, rows, next, faults>>

Mark(p) ==
  /\ at[p] = "mark"
  /\ marker' = TRUE
  /\ Goto(p, "open")
  /\ UNCHANGED <<tables, columns, residue, rows, next, faults>>

\* A process dies in a start, or meets a file that stays locked.
Die(p) ==
  /\ at[p] \notin {"off", "open"}
  /\ faults < MaxFaults
  /\ faults' = faults + 1
  /\ Fails(p)
  /\ UNCHANGED <<file, rows>>

\* Its work, beside a start of the other: a receipt is stored, and announced.
Store(p) ==
  /\ at[p] = "open"
  /\ \E r \in Receipt :
       /\ state[r] = "absent"
       /\ state' = [state EXCEPT ![r] = IF r \in Internal THEN "published" ELSE "owed"]
  /\ UNCHANGED <<file, posted, process, faults>>

\* receipts_awaiting_audit_copy, and audit_backlog's count of what is owed.
Queue == {r \in Receipt : state[r] = "owed" /\ r \notin posted \cup Internal}
Backlog == {r \in Receipt : state[r] = "owed" /\ r \notin Internal}

Announce(p) ==
  /\ at[p] = "open"
  /\ \E r \in Queue :
       \/ state' = [state EXCEPT ![r] = "published"] /\ posted' = posted \cup {r}
       \/ state' = [state EXCEPT ![r] = "quarantined"] /\ UNCHANGED posted
  /\ UNCHANGED <<file, process, faults>>

\* A command ends, or the service is stopped.
Stop(p) ==
  /\ at[p] = "open"
  /\ Fails(p)
  /\ UNCHANGED <<file, rows, faults>>

Migrate(p) ==
  \/ Open(p) \/ Script(p) \/ Look(p) \/ Alter(p) \/ Reconciled(p)
  \/ Backfill(p) \/ Scrub(p) \/ Vacuum(p) \/ Mark(p)

Next == \E p \in Proc :
          Migrate(p) \/ Die(p) \/ Store(p) \/ Announce(p) \/ Stop(p)

Spec == Init /\ [][Next]_vars

\* A start is not abandoned, and one that failed is tried again (Restart=on-failure).
FairSpec == Spec /\ \A p \in Proc : WF_vars(Migrate(p))

----------------------------------------------------------------------------
(* Properties. *)

Opened == \E p \in Proc : at[p] = "open"

\* Whoever runs on the ledger, every statement's column is as the code needs it, a
\* start of another process beside it or not: no INSERT fails for want of a column.
OpenedHasShape == Opened => tables /\ \A i \in Statement : Done(i)

\* What the backlog reports as owed some pass will publish: no receipt that was
\* published before the column existed is counted as outstanding for ever.
BacklogIsQueue == Opened => Backlog = Queue

\* user_version says that the file was rewritten since a retired column was in it.
MarkedIsScrubbed == marker => ~residue /\ \A i \in Statement : Drops(i) => Done(i)

\* Two processes that race for the columns, a failed VACUUM, or a death between two
\* statements keep no process out for ever.
OpensAtLast == \A p \in Proc : []<>(at[p] = "open")
==============================================================================
