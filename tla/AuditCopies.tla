---------------------------- MODULE AuditCopies ----------------------------
(***************************************************************************)
(* The public copy of a receipt: publish_audit_copy, sync_owned_room and   *)
(* reconcile_audit_copies of service/node.py, and the audit columns of the *)
(* receipts table.  The mailbox loop handles jobs and reconciles, in turn; *)
(* every HTTP caller of a finished job publishes that job's copy itself.   *)
(* A POST may land without being confirmed, and the process may die.       *)
(*                                                                         *)
(* Only receipts of third-party jobs are modelled, and one lifetime of the *)
(* owned room; `owns` is what owns_result_room() answers (OwnershipLease). *)
(***************************************************************************)
EXTENDS Integers, Sequences, FiniteSets

CONSTANTS Job,         \* third-party jobs
          Caller,      \* HTTP submissions
          jobOf,       \* [Caller -> Job]
          Mail,        \* the jobs that came through the mailbox
          Loop,        \* the mailbox loop's task
          MaxAttempts, \* MAX_AUDIT_ATTEMPTS
          Limit,       \* reconcile_audit_copies' limit
          Oversized,   \* jobs whose receipt exceeds one message
          Corrupt,     \* jobs whose stored row is not a receipt any more
          Foreign,     \* jobs this key once posted another receipt for
          Faults,      \* what the upstream may do besides losing an answer
          MaxCrashes   \* bound on process deaths

Task == Caller \cup {Loop}

ASSUME AuditAssumption ==
  /\ jobOf \in [Caller -> Job]
  /\ Mail \subseteq Job
  /\ Loop \notin Caller
  /\ MaxAttempts \in Nat \ {0}
  /\ Limit \in Nat \ {0}
  /\ Oversized \subseteq Job /\ Corrupt \subseteq Job /\ Foreign \subseteq Job
  /\ IsFiniteSet(Job) /\ Job # {}
  \* "unreadable": a room read fails; "late": a POST given up on lands later
  /\ Faults \subseteq {"unreadable", "late"}
  /\ MaxCrashes \in Nat

VARIABLES
  \* the ledger
  audit,     \* [Job -> STRING]: audit_state, "none" before the receipt exists
  seqOf,     \* [Job -> Nat]: audit_seq, 0 for NULL
  attempts,  \* [Job -> Nat]: audit_attempts
  born,      \* [Job -> Nat]: order of created_at
  cursor,    \* the owned room's cursor
  \* the owned room: the receipts posted to it, in order
  room,      \* Seq(Copy)
  late,      \* jobs with a POST given up on that may still land
  \* the process
  owns,      \* owns_result_room()
  step,      \* [Task -> {"idle", "announce", "wire"}]: its publish_audit_copy
  target,    \* [Task -> Job]: the job it publishes
  landed,    \* [Task -> Nat]: where its POST landed, 0 for nowhere (yet)
  at,        \* where the loop is
  readTo,    \* the last message sync_owned_room read
  queue,     \* the rows reconcile_audit_copies fetched and has not tried
  crashes

ledger == <<audit, seqOf, attempts, born, cursor>>
upstream == <<room, late>>
publish == <<step, target, landed>>
loop == <<at, readTo, queue>>
vars == <<ledger, upstream, owns, publish, loop, crashes>>

Copy == [job : Job, genuine : BOOLEAN]
CopyOf(j) == [job |-> j, genuine |-> TRUE]

TypeOK ==
  /\ audit \in [Job -> {"none", "owed", "published", "quarantined"}]
  /\ seqOf \in [Job -> Nat]
  /\ attempts \in [Job -> Nat]
  /\ born \in [Job -> Nat]
  /\ room \in Seq(Copy)
  /\ cursor \in 0 .. Len(room)
  /\ late \subseteq Job
  /\ owns \in BOOLEAN
  /\ step \in [Task -> {"idle", "announce", "wire"}]
  /\ target \in [Task -> Job]
  /\ landed \in [Task -> 0 .. Len(room)]
  /\ at \in {"poll", "sync", "mark", "cursor", "fetch", "rows"}
  /\ readTo \in 0 .. Len(room)
  /\ queue \in Seq(Job)
  /\ crashes \in 0 .. MaxCrashes

Recorded == {j \in Job : audit[j] # "none"}

Init ==
  /\ audit = [j \in Job |-> "none"]
  /\ seqOf = [j \in Job |-> 0]
  /\ attempts = [j \in Job |-> 0]
  /\ born = [j \in Job |-> 0]
  /\ cursor = 0
  /\ \E old \in [1 .. Cardinality(Foreign) -> Foreign] :
       /\ \A i, k \in DOMAIN old : i # k => old[i] # old[k]
       /\ room = [i \in DOMAIN old |-> [job |-> old[i], genuine |-> FALSE]]
  /\ late = {}
  /\ owns \in BOOLEAN
  /\ step = [t \in Task |-> "idle"]
  /\ target = [t \in Task |-> CHOOSE j \in Job : TRUE]
  /\ landed = [t \in Task |-> 0]
  /\ at = "poll"
  /\ readTo = 0
  /\ queue = <<>>
  /\ crashes = 0
----------------------------------------------------------------------------
\* While it reconciles the loop awaits only the room's read and its own POST;
\* nothing else of the process runs between two of its other steps.
LoopFree == \/ at \in {"poll", "sync"}
            \/ at = "rows" /\ step[Loop] = "wire"

\* publish_audit_copy begins with job j for each task in T.
Announce(T, j) == /\ step' = [t \in Task |-> IF t \in T THEN "announce" ELSE step[t]]
                  /\ target' = [t \in Task |-> IF t \in T THEN j ELSE target[t]]

\* The receipt is stored, owed; everyone who waited for the job publishes it.
Finish(j) ==
  LET waiting == {c \in Caller : jobOf[c] = j} IN
  /\ LoopFree
  /\ audit[j] = "none"
  /\ j \in Mail => at = "poll" /\ step[Loop] = "idle"
  /\ audit' = [audit EXCEPT ![j] = "owed"]
  /\ born' = [born EXCEPT ![j] = Cardinality(Recorded)]
  /\ Announce(IF j \in Mail THEN waiting \cup {Loop} ELSE waiting, j)
  /\ UNCHANGED <<seqOf, attempts, cursor, upstream, owns, landed, loop, crashes>>

\* Slip: a failed attempt that is not the last puts the row back into the queue.
AttemptRequeues(j) ==
  /\ attempts' = [attempts EXCEPT ![j] = @ + 1]
  /\ audit' = [audit EXCEPT ![j] = IF attempts[j] + 1 >= MaxAttempts THEN "quarantined"
                                   ELSE "owed"]
  /\ UNCHANGED seqOf

\* note_audit_attempt, whatever the row's state is: the last attempt takes the row out of the queue.
NoteAttempt(j) ==
  /\ attempts' = [attempts EXCEPT ![j] = @ + 1]
  /\ audit' = IF attempts[j] + 1 >= MaxAttempts
              THEN [audit EXCEPT ![j] = "quarantined"]
              ELSE audit
  /\ UNCHANGED seqOf

\* Slip: only what was sent is counted.
UnsentUncounted(j) == UNCHANGED <<audit, seqOf, attempts>>

\* A receipt that cannot be sent at all is an attempt like any other.
Unsendable(j) == NoteAttempt(j)

\* The guard, asked by publish_audit_copy and at the sink, and then the POST.
Send(t) ==
  LET j == target[t] IN
  /\ LoopFree \/ t = Loop
  /\ step[t] = "announce"
  /\ \/ /\ ~owns
        /\ step' = [step EXCEPT ![t] = "idle"]
        /\ UNCHANGED <<audit, seqOf, attempts>>
     \/ /\ owns /\ j \in Oversized
        /\ step' = [step EXCEPT ![t] = "idle"]
        /\ Unsendable(j)
     \/ /\ owns /\ j \notin Oversized
        /\ step' = [step EXCEPT ![t] = "wire"]
        /\ UNCHANGED <<audit, seqOf, attempts>>
  /\ UNCHANGED <<born, cursor, upstream, owns, target, landed, loop, crashes>>

\* The upstream stores the message.
Land(t) ==
  /\ step[t] = "wire"
  /\ landed[t] = 0
  /\ room' = Append(room, CopyOf(target[t]))
  /\ landed' = [landed EXCEPT ![t] = Len(room) + 1]
  /\ UNCHANGED <<ledger, late, owns, step, target, loop, crashes>>

\* A POST nobody waits for any more may still land.
Abandoned(T) ==
  IF "late" \in Faults
  THEN late \cup {target[t] : t \in {u \in T : step[u] = "wire" /\ landed[u] = 0}}
  ELSE late

LandLate(j) ==
  /\ j \in late
  /\ late' = late \ {j}
  /\ room' = Append(room, CopyOf(j))
  /\ UNCHANGED <<ledger, owns, publish, loop, crashes>>

\* say_signed returns: read back and matched (set_audit_seq), or unconfirmed.
Confirm(t) ==
  LET j == target[t] IN
  /\ LoopFree
  /\ step[t] = "wire"
  /\ \/ /\ landed[t] # 0
        /\ audit' = [audit EXCEPT ![j] = "published"]
        /\ seqOf' = [seqOf EXCEPT ![j] = landed[t]]
        /\ UNCHANGED <<attempts, late>>
     \/ /\ NoteAttempt(j)
        /\ late' = Abandoned({t})
  /\ step' = [step EXCEPT ![t] = "idle"]
  /\ landed' = [landed EXCEPT ![t] = 0]
  /\ UNCHANGED <<born, cursor, room, owns, target, loop, crashes>>

\* The HTTP client hangs up and its handler is cancelled where it waits.
Hangup(c) ==
  /\ LoopFree
  /\ step[c] # "idle"
  /\ late' = Abandoned({c})
  /\ step' = [step EXCEPT ![c] = "idle"]
  /\ landed' = [landed EXCEPT ![c] = 0]
  /\ UNCHANGED <<ledger, room, owns, target, loop, crashes>>

----------------------------------------------------------------------------
\* reconcile_audit_copies, after the messages of this cycle.
Reconcile ==
  /\ at = "poll"
  /\ step[Loop] = "idle"
  /\ at' = IF owns THEN "sync" ELSE "fetch"
  /\ UNCHANGED <<ledger, upstream, owns, publish, readTo, queue, crashes>>

\* sync_owned_room reads the whole backlog; a failed read is not an error.
ReadRoom ==
  /\ at = "sync"
  /\ \/ /\ at' = "mark"
        /\ readTo' = Len(room)
     \/ /\ "unreadable" \in Faults
        /\ at' = "fetch"
        /\ UNCHANGED readTo
  /\ UNCHANGED <<ledger, upstream, owns, publish, queue, crashes>>

\* The batch's last message that names j stands for all of them.
LastSight(j, i) == /\ i \in cursor + 1 .. readTo
                   /\ room[i].job = j
                   /\ \A k \in i + 1 .. readTo : room[k].job # j

\* Slips: matched on the job_id alone; the room is read but not believed.
SightByName(j, i) == LastSight(j, i)
SightNever(j, i) == FALSE

\* mark_published matches the receipt_hash of the stored row.
Sight(j, i) == LastSight(j, i) /\ room[i].genuine

Seen == {j \in Recorded : /\ audit[j] # "published"
                          /\ \E i \in cursor + 1 .. readTo : Sight(j, i)}

MarkPublished ==
  /\ at = "mark"
  /\ audit' = [j \in Job |-> IF j \in Seen THEN "published" ELSE audit[j]]
  /\ seqOf' = [j \in Job |-> IF j \in Seen
                             THEN CHOOSE i \in cursor + 1 .. readTo : Sight(j, i)
                             ELSE seqOf[j]]
  /\ at' = "cursor"
  /\ UNCHANGED <<attempts, born, cursor, upstream, owns, publish, readTo, queue,
                 crashes>>

\* Slips: the room's head, not the last message read; one past it.
RoomHead == Len(room)
NextExpected == readTo + 1

\* The cursor moves to the last message read.
LastRead == IF readTo > cursor THEN readTo ELSE cursor

SetCursor ==
  /\ at = "cursor"
  /\ cursor' = LastRead
  /\ at' = "fetch"
  /\ UNCHANGED <<audit, seqOf, attempts, born, upstream, owns, publish, readTo,
                 queue, crashes>>

\* receipts_awaiting_audit_copy: fewest attempts first, then oldest.
Awaiting == {j \in Job : audit[j] = "owed" /\ seqOf[j] = 0}

Before(i, j) == \/ attempts[i] < attempts[j]
                \/ attempts[i] = attempts[j] /\ born[i] < born[j]

IsBatch(q) == /\ \A i, k \in DOMAIN q : i < k => Before(q[i], q[k])
              /\ \A i \in DOMAIN q : \A j \in Awaiting :
                   Before(j, q[i]) => \E k \in DOMAIN q : q[k] = j

FetchRows ==
  /\ at = "fetch"
  /\ \E n \in 0 .. Limit :
       /\ n = Limit \/ n = Cardinality(Awaiting)
       /\ n <= Cardinality(Awaiting)
       /\ \E q \in [1 .. n -> Awaiting] : IsBatch(q) /\ queue' = q
  /\ at' = "rows"
  /\ UNCHANGED <<ledger, upstream, owns, publish, readTo, crashes>>

\* One row at a time; its publication awaits, the other rows do not change.
NextRow ==
  /\ at = "rows"
  /\ step[Loop] = "idle"
  /\ \/ /\ queue = <<>>
        /\ at' = "poll"
        /\ UNCHANGED <<queue, audit, step, target>>
     \/ /\ queue # <<>> /\ Head(queue) \in Corrupt
        /\ audit' = [audit EXCEPT ![Head(queue)] = "quarantined"]
        /\ queue' = Tail(queue)
        /\ UNCHANGED <<at, step, target>>
     \/ /\ queue # <<>> /\ Head(queue) \notin Corrupt
        /\ Announce({Loop}, Head(queue))
        /\ queue' = Tail(queue)
        /\ UNCHANGED <<at, audit>>
  /\ UNCHANGED <<seqOf, attempts, born, cursor, upstream, owns, landed, readTo,
                 crashes>>

\* Ownership is confirmed, or stops being so, whatever the loop is doing.
Observe ==
  /\ LoopFree
  /\ owns' = ~owns
  /\ UNCHANGED <<ledger, upstream, publish, loop, crashes>>

\* The process dies and starts again: the ledger and the room stay.
Crash ==
  /\ crashes < MaxCrashes
  /\ crashes' = crashes + 1
  /\ late' = Abandoned(Task)
  /\ step' = [t \in Task |-> "idle"]
  /\ landed' = [t \in Task |-> 0]
  /\ at' = "poll"
  /\ readTo' = 0
  /\ queue' = <<>>
  /\ UNCHANGED <<ledger, room, owns, target>>

LoopStep == Reconcile \/ ReadRoom \/ MarkPublished \/ SetCursor \/ FetchRows \/ NextRow

Next == \/ \E j \in Job : Finish(j) \/ LandLate(j)
        \/ \E t \in Task : Send(t) \/ Land(t) \/ Confirm(t)
        \/ \E c \in Caller : Hangup(c)
        \/ LoopStep \/ Observe \/ Crash

Spec == Init /\ [][Next]_vars

\* The loop runs for ever and every request ends, answered or not.
Fairness == /\ WF_vars(LoopStep)
            /\ \A t \in Task : WF_vars(Send(t)) /\ WF_vars(Confirm(t))

FairSpec == Spec /\ Fairness
----------------------------------------------------------------------------
\* "Publicly auditable" is never taken on faith: the receipt of a published row
\* is in the room, at the row's audit_seq, and it is that receipt.
PublishedIsInRoom ==
  \A j \in Job : audit[j] = "published" =>
    seqOf[j] \in 1 .. Len(room) /\ room[seqOf[j]] = CopyOf(j)

\* A copy that landed while its row still says owed is ahead of the cursor: the
\* next sync will recognise it, whatever crashed or raced in between.
OwedCopyIsAhead ==
  \A i \in 1 .. cursor : room[i].genuine => audit[room[i].job] # "owed"

\* The room is consulted before anything is written to it again: while one loop
\* publishes, no receipt is posted twice, not even by a crash before the record.
CopiedOnce ==
  \A i, k \in DOMAIN room :
    room[i].genuine /\ room[k] = room[i] => i = k

\* A late failure may take "published" back from a row another task published, and never
\* what it stood for: who has an audit_seq has its copy there, and is not queued again.
SeqIsEvidence ==
  \A j \in Job : seqOf[j] # 0 =>
    /\ seqOf[j] \in 1 .. Len(room) /\ room[seqOf[j]] = CopyOf(j)
    /\ audit[j] \in {"published", "quarantined"}

\* A receipt found publicly auditable stays so.
PublishedStays ==
  [][\A j \in Job : audit[j] = "published" => audit'[j] = "published"]_vars

\* db.py: a row that is published "must never be announced a second time".
NeverAnnouncedAgain ==
  [][\A t \in Task : step[t] = "announce" /\ step'[t] = "wire"
        => audit[target[t]] # "published"]_vars

\* No receipt is owed for ever: with ownership kept, each one is published or
\* taken out of the queue, and none waits behind one that cannot be.
EveryCopySettles ==
  <>[]owns => \A j \in Job : audit[j] = "owed" ~> audit[j] # "owed"
============================================================================
