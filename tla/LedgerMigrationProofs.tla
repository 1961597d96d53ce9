----------------------- MODULE LedgerMigrationProofs -----------------------
(***************************************************************************)
(* For any columns, receipts, number of processes and of faults: a start   *)
(* that went through leaves the current shape, a backlog without a receipt *)
(* that was published, and a marker only on a file that was rewritten.     *)
(* Progress is by columns: a statement that is done is never undone, since *)
(* no process alters a column that it finds settled.                       *)
(***************************************************************************)
EXTENDS LedgerMigration, TLAPS

Last == Len(Retired) + Len(Added)

Altering == {"look", "alter"}
Past == {"backfill", "scrub", "vacuum", "mark", "open"}
Filled == {"scrub", "vacuum", "mark", "open"}

MigrationTypes ==
  /\ at \in [Proc -> Place]
  /\ next \in [Proc -> 1 .. Last + 1]
  /\ state \in [Receipt -> {"absent", "owed", "published", "quarantined"}]
  /\ \A r \in posted : state[r] # "absent"
  /\ posted \subseteq Receipt

\* The statements before a process's next one are done, whoever did them.
Progress ==
  \A p \in Proc :
    /\ at[p] \in Altering \cup Past => tables
    /\ at[p] \in Altering => \A i \in Statement : i < next[p] => Done(i)
    /\ at[p] = "script" => next[p] = 1
    /\ at[p] = "alter" => next[p] \in Statement
    /\ at[p] \in Past => \A i \in Statement : Done(i)

\* No receipt that was published is owed once one process has filled the column.
Settles ==
  (\E p \in Proc : at[p] \in Filled) => \A r \in posted : state[r] # "owed"

Scrubbed == tables /\ ~residue /\ \A i \in Statement : Drops(i) => Done(i)

MarkedInTurn ==
  /\ marker => Scrubbed
  /\ \A p \in Proc : at[p] = "mark" => Scrubbed

MigrationInv == MigrationTypes /\ Progress /\ Settles /\ MarkedInTurn

----------------------------------------------------------------------------
LEMMA Statements ==
  /\ Last \in Nat
  /\ Statement = 1 .. Last
  /\ \A i, k \in Statement : Column(i) = Column(k) => i = k
BY MigrationAssumption DEF MigrationAssumption, Last, Statement

LEMMA StartsClean == Init => MigrationInv
<1> SUFFICES ASSUME Init PROVE MigrationInv
  OBVIOUS
<1>1. MigrationTypes
  BY Statements DEF Init, MigrationTypes, Place
<1>2. Progress /\ Settles
  BY DEF Init, Progress, Settles, Altering, Past, Filled
<1>3. MarkedInTurn
  BY DEF Init, MarkedInTurn, Scrubbed
<1> QED
  BY <1>1, <1>2, <1>3 DEF MigrationInv

\* An ALTER settles its own column and unsettles none.
LEMMA AlterSettles ==
  ASSUME NEW k \in Statement, ~Done(k),
         columns' = IF Drops(k) THEN columns \ {Column(k)} ELSE columns \cup {Column(k)}
  PROVE  \A i \in Statement : (Done(i) \/ i = k) => Done(i)'
BY Statements DEF Done, Drops

\* The script makes what is missing as it should be.
LEMMA ScriptSettles ==
  ASSUME columns' = {Column(i) : i \in {k \in Statement : ~Drops(k)}}
  PROVE  \A i \in Statement : Done(i)'
BY Statements DEF Done, Drops

LEMMA MigrationStep ==
  ASSUME MigrationInv, Next
  PROVE  MigrationInv'
<1> USE DEF MigrationInv
<1>0. PICK p \in Proc : Migrate(p) \/ Die(p) \/ Store(p) \/ Announce(p) \/ Stop(p)
  BY DEF Next
<1>1. CASE Open(p)
  <2>1. MigrationTypes'
    BY <1>1, Statements DEF Open, Goto, MigrationTypes, Place, rows
  <2>2. Progress' /\ Settles' /\ MarkedInTurn'
    BY <1>1 DEF Open, Goto, MigrationTypes, Progress, Settles, MarkedInTurn, Scrubbed, Done, Drops,
       Altering, Past, Filled, file, rows
  <2> QED BY <2>1, <2>2
<1>2. CASE Script(p)
  <2>1. MigrationTypes'
    BY <1>2 DEF Script, Goto, MigrationTypes, Place, rows
  <2>2. \A i \in Statement : Done(i) => Done(i)' \/ ~tables
    BY <1>2 DEF Script, Done
  <2>3. ~tables => \A i \in Statement : Done(i)'
    BY <1>2, ScriptSettles DEF Script
  <2>4. \A i \in Statement : Done(i) /\ tables => Done(i)'
    BY <2>2
  <2>5. Progress'
    <3>1. CASE tables
      BY <1>2, <2>4, <3>1, Statements DEF Script, Goto, MigrationTypes, Progress, Altering, Past
    <3>2. CASE ~tables
      BY <1>2, <2>3, <3>2 DEF Script, Goto, MigrationTypes, Progress, Altering, Past
    <3> QED BY <3>1, <3>2
  <2>6. Settles' /\ MarkedInTurn'
    BY <1>2, <2>4 DEF Script, Goto, MigrationTypes, Settles, MarkedInTurn, Scrubbed, Filled, rows
  <2> QED BY <2>1, <2>5, <2>6
<1>3. CASE Look(p)
  <2>1. MigrationTypes'
    BY <1>3, Statements DEF Look, Goto, GoOn, MigrationTypes, Place, rows
  <2>2. \A i \in Statement : Done(i) => Done(i)'
    BY <1>3 DEF Look, Done, file
  <2>3. Progress'
    BY <1>3, <2>2, Statements DEF Look, Settled, Goto, GoOn, MigrationTypes, Progress, Altering, Past, file
  <2>4. Settles' /\ MarkedInTurn'
    BY <1>3, <2>2 DEF Look, Goto, GoOn, MigrationTypes, Settles, MarkedInTurn, Scrubbed, Filled, file, rows
  <2> QED BY <2>1, <2>3, <2>4
<1>4. CASE Alter(p)
  <2>0. next[p] \in Statement
    BY <1>4 DEF Alter, Progress
  <2>1. CASE Done(next[p])
    <3>1. MigrationTypes'
      BY <1>4, <2>1 DEF Alter, Fails, Goto, MigrationTypes, Place
    <3>2. UNCHANGED <<tables, columns, residue, marker, state, posted, next>>
      BY <1>4, <2>1 DEF Alter, Fails
    <3>3. at' = [at EXCEPT ![p] = "off"]
      BY <1>4, <2>1 DEF Alter, Fails, Goto, GoOn
    <3>4. Progress'
      BY <3>2, <3>3 DEF MigrationTypes, Progress, Done, Drops, Altering, Past
    <3>5. Settles' /\ MarkedInTurn'
      BY <3>2, <3>3 DEF MigrationTypes, Settles, MarkedInTurn, Scrubbed, Done, Drops, Filled
    <3> QED BY <3>1, <3>4, <3>5
  <2>2. CASE ~Done(next[p])
    <3>0. /\ at' = [at EXCEPT ![p] = "look"]
          /\ next' = [next EXCEPT ![p] = @ + 1]
          /\ UNCHANGED <<tables, marker, posted>>
      BY <1>4, <2>2 DEF Alter, Goto, GoOn
    <3>1. MigrationTypes'
      <4>1. state' \in [Receipt -> {"absent", "owed", "published", "quarantined"}]
        BY <1>4, <2>2 DEF Alter, MigrationTypes
      <4>2. \A r \in Receipt : state[r] # "absent" => state'[r] # "absent"
        BY <1>4, <2>2 DEF Alter, MigrationTypes
      <4>3. next' \in [Proc -> 1 .. Last + 1]
        BY <2>0, <3>0, Statements DEF MigrationTypes
      <4> QED
        BY <3>0, <4>1, <4>2, <4>3 DEF MigrationTypes, Place
    <3>2. \A i \in Statement : (Done(i) \/ i = next[p]) => Done(i)'
      BY <1>4, <2>0, <2>2, AlterSettles DEF Alter
    <3>3. Progress'
      <4>1. ASSUME NEW q \in Proc, NEW i \in Statement, i < next'[q],
                   at'[q] \in Altering
            PROVE  Done(i)'
        <5>1. CASE q = p
          BY <1>4, <2>0, <3>0, <3>2, <4>1, <5>1, Statements DEF Alter, MigrationTypes, Progress, Altering
        <5>2. CASE q # p
          BY <3>0, <3>2, <4>1, <5>2 DEF MigrationTypes, Progress
        <5> QED BY <5>1, <5>2
      <4>2. \A q \in Proc : at[q] \notin Past
        BY <2>0, <2>2 DEF Progress
      <4> QED
        BY <1>4, <3>0, <4>1, <4>2 DEF Alter, MigrationTypes, Progress, Altering, Past
    <3>4. Settles'
      <4>1. \A q \in Proc : at[q] \notin Past
        BY <2>0, <2>2 DEF Progress
      <4>2. \A q \in Proc : at'[q] \notin Filled
        BY <1>4, <2>2, <4>1 DEF Alter, Goto, GoOn, MigrationTypes, Past, Filled
      <4> QED BY <4>2 DEF Settles
    <3>5. MarkedInTurn'
      <4>1. Scrubbed => Scrubbed'
        BY <1>4, <2>0, <2>2, <3>2 DEF Alter, Scrubbed
      <4> QED
        BY <1>4, <2>2, <4>1 DEF Alter, Goto, GoOn, MigrationTypes, MarkedInTurn
    <3> QED BY <3>1, <3>3, <3>4, <3>5
  <2> QED BY <2>1, <2>2
<1>5. CASE Reconciled(p)
  <2>1. MigrationTypes'
    BY <1>5 DEF Reconciled, Goto, MigrationTypes, Place, rows
  <2>2. \A i \in Statement : i < next[p]
    BY <1>5, Statements DEF Reconciled, MigrationTypes
  <2>3. \A i \in Statement : Done(i)' <=> Done(i)
    BY <1>5 DEF Reconciled, Done, file
  <2>4. Progress'
    BY <1>5, <2>2, <2>3 DEF Reconciled, Goto, MigrationTypes, Progress, Altering, Past, file
  <2>5. Settles' /\ MarkedInTurn'
    BY <1>5, <2>3 DEF Reconciled, Goto, MigrationTypes, Settles, MarkedInTurn, Scrubbed, Filled, file, rows
  <2> QED BY <2>1, <2>4, <2>5
<1>6. CASE Backfill(p)
  <2>1. MigrationTypes'
    BY <1>6 DEF Backfill, Goto, MigrationTypes, Place
  <2>2. Settles'
    BY <1>6 DEF Backfill, Settles, MigrationTypes
  <2>3. Progress' /\ MarkedInTurn'
    BY <1>6 DEF Backfill, Goto, MigrationTypes, Progress, MarkedInTurn, Scrubbed, Done, Drops,
       Altering, Past, file
  <2> QED BY <2>1, <2>2, <2>3
<1>7. CASE Scrub(p)
  BY <1>7 DEF Scrub, Goto, MigrationTypes, Place, Progress, Settles, MarkedInTurn, Scrubbed, Done,
     Drops, Altering, Past, Filled, file, rows
<1>8. CASE Vacuum(p)
  <2>1. MigrationTypes'
    BY <1>8 DEF Vacuum, Goto, MigrationTypes, Place, rows
  <2>2. Progress' /\ Settles'
    BY <1>8 DEF Vacuum, Goto, MigrationTypes, Progress, Settles, Done, Drops, Altering, Past, Filled, rows
  <2>3. MarkedInTurn'
    BY <1>8 DEF Vacuum, Goto, MigrationTypes, Progress, MarkedInTurn, Scrubbed, Done, Drops, Past
  <2> QED BY <2>1, <2>2, <2>3
<1>9. CASE Mark(p)
  BY <1>9 DEF Mark, Goto, MigrationTypes, Place, Progress, Settles, MarkedInTurn, Scrubbed, Done,
     Drops, Altering, Past, Filled, rows
<1>10. CASE Die(p) \/ Stop(p)
  BY <1>10 DEF Die, Stop, Fails, Goto, MigrationTypes, Place, Progress, Settles, MarkedInTurn,
     Scrubbed, Done, Drops, Altering, Past, Filled, file, rows
<1>11. CASE Store(p)
  BY <1>11 DEF Store, MigrationTypes, Progress, Settles, MarkedInTurn, Scrubbed, Done, Drops,
     file, process
<1>12. CASE Announce(p)
  <2>1. MigrationTypes' /\ Settles'
    BY <1>12 DEF Announce, Queue, MigrationTypes, Settles, process
  <2>2. Progress' /\ MarkedInTurn'
    BY <1>12 DEF Announce, Progress, MarkedInTurn, Scrubbed, Done, Drops, file, process
  <2> QED BY <2>1, <2>2
<1> QED
  BY <1>0, <1>1, <1>2, <1>3, <1>4, <1>5, <1>6, <1>7, <1>8, <1>9, <1>10, <1>11, <1>12 DEF Migrate

LEMMA MigrationStutters ==
  ASSUME MigrationInv, UNCHANGED vars
  PROVE  MigrationInv'
BY DEF MigrationInv, MigrationTypes, Progress, Settles, MarkedInTurn, Scrubbed, Done, Drops,
   vars, file, rows, process

LEMMA MigrationAlways == Spec => []MigrationInv
<1>1. MigrationInv /\ [Next]_vars => MigrationInv'
  BY MigrationStep, MigrationStutters
<1> QED
  BY StartsClean, <1>1, PTL DEF Spec

----------------------------------------------------------------------------
\* Any process that runs has the current shape under it, whatever the others migrate.
THEOREM ShapeAlways == Spec => []OpenedHasShape
<1>1. MigrationInv => OpenedHasShape
  BY DEF MigrationInv, Progress, Past, OpenedHasShape, Opened
<1> QED
  BY MigrationAlways, <1>1, PTL

\* And a backlog that counts exactly what a pass would publish.
THEOREM BacklogAlways == Spec => []BacklogIsQueue
<1>1. MigrationInv => BacklogIsQueue
  BY DEF MigrationInv, Settles, Filled, BacklogIsQueue, Opened, Backlog, Queue
<1> QED
  BY MigrationAlways, <1>1, PTL

\* The marker is only ever on a file that was rewritten after its columns were dropped.
THEOREM MarkerAlways == Spec => []MarkedIsScrubbed
<1>1. MigrationInv => MarkedIsScrubbed
  BY DEF MigrationInv, MarkedInTurn, Scrubbed, MarkedIsScrubbed
<1> QED
  BY MigrationAlways, <1>1, PTL
=============================================================================
