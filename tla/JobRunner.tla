----------------------------- MODULE JobRunner -----------------------------
(***************************************************************************)
(* jobs/runner.py and the part of ledger/db.py it writes: one submission   *)
(* (a Call) runs JobRunner.handle in one process; every process shares the *)
(* SQLite ledger.  Inside a process the event loop runs one attempt at a   *)
(* time between two awaits, so the calls of one process interleave only    *)
(* where the code awaits; the calls of two processes (the service and      *)
(* `selftest`) interleave between any two ledger transactions.  A process  *)
(* may die between any two steps.                                          *)
(*                                                                         *)
(* The model lies within one hour: no row leaves the rate-limit window.    *)
(***************************************************************************)
EXTENDS Naturals, FiniteSets

CONSTANTS Call,           \* submissions: a mailbox line, an HTTP request, a self-test
          Proc,           \* processes that share the ledger
          Requester,      \* did:keys
          Job,            \* job identifiers
          Body,           \* job contents, by canonical hash
          procOf,         \* [Call -> Proc]
          requesterOf,    \* [Call -> Requester]
          jobOf,          \* [Call -> Job]
          bodyOf,         \* [Call -> Body]
          SelfTest,       \* the calls that are `selftest` runs of the operator
          Http,           \* the calls that came over HTTP
          Malformed,      \* the calls parse_and_validate refuses
          MaxConcurrent,  \* settings.max_concurrent_jobs
          JobsPerHour,    \* settings.requester_jobs_per_hour
          MaxCrashes,     \* bound on process deaths
          NoOne           \* no row, no receipt, no attempt

\* A row of the jobs table, and of the receipts table with its signed content.
Row == [owner : Requester, internal : BOOLEAN, body : Body,
        status : {"validated", "claimed", "completed", "failed"}]
Receipt == [id : Nat, requester : Requester, internal : BOOLEAN, body : Body]

ASSUME RunnerAssumption ==
  /\ procOf \in [Call -> Proc]
  /\ requesterOf \in [Call -> Requester]
  /\ jobOf \in [Call -> Job]
  /\ bodyOf \in [Call -> Body]
  /\ SelfTest \subseteq Call
  /\ Http \subseteq Call
  /\ SelfTest \cap Http = {}
  /\ Malformed \subseteq Call
  /\ MaxConcurrent \in Nat \ {0}
  /\ JobsPerHour \in Nat
  /\ MaxCrashes \in Nat
  /\ NoOne \notin Call
  /\ NoOne \notin Requester
  /\ NoOne \notin Row
  /\ NoOne \notin Receipt

VARIABLES
  \* the ledger, which survives a crash
  jobs,        \* [Job -> Row \cup {NoOne}]
  results,     \* [Job -> Nat \cup {NoOne}]: which attempt's result is stored
  receipts,    \* [Job -> Receipt \cup {NoOne}]
  expected,    \* declared <<requester, job>> pairs (deployment_state)
  rejections,  \* [Requester -> Nat]
  \* a process's memory, which does not
  inFlight,    \* [Proc -> [Job -> Call \cup {NoOne}]]: JobRunner._in_flight
  pc,          \* [Call -> Phase]: the attempt a call created
  declared,    \* [Call -> BOOLEAN]: the attempt's `declared`
  internal,    \* [Call -> BOOLEAN]: the attempt's `internal_test`
  ended,       \* [Call -> STRING]: how the attempt's task ended
  built,       \* [Call -> Nat]: serial of the result and receipt it built
  \* the callers
  state,       \* [Call -> STRING]
  joined,      \* [Call -> Call \cup {NoOne}]: the attempt a caller awaits
  shown,       \* [Call -> Receipt \cup {NoOne}]: the receipt it was handed
  \* history
  minted,      \* receipts built so far
  executions,  \* [Job -> Nat]: times the job's task was started
  crashes      \* process deaths so far

ledger == <<jobs, results, receipts, expected, rejections>>
attempt == <<pc, declared, internal, ended, built>>
caller == <<state, joined, shown>>
history == <<minted, executions, crashes>>
vars == <<ledger, inFlight, attempt, caller, history>>

Phase == {"off", "start", "owner", "rate", "insert", "claim", "queued",
          "running", "settle", "receipt", "done"}
Refusal == {"job_id_taken", "rate_limited"}
Ending == {"none", "answered", "duplicate"} \cup Refusal
CallState == {"unsent", "declared", "posted", "waiting", "gone", "malformed"} \cup Ending

TypeOK ==
  /\ jobs \in [Job -> Row \cup {NoOne}]
  /\ results \in [Job -> Nat \cup {NoOne}]
  /\ receipts \in [Job -> Receipt \cup {NoOne}]
  /\ expected \subseteq Requester \X Job
  /\ rejections \in [Requester -> Nat]
  /\ inFlight \in [Proc -> [Job -> Call \cup {NoOne}]]
  /\ pc \in [Call -> Phase]
  /\ declared \in [Call -> BOOLEAN]
  /\ internal \in [Call -> BOOLEAN]
  /\ ended \in [Call -> Ending]
  /\ built \in [Call -> Nat]
  /\ state \in [Call -> CallState]
  /\ joined \in [Call -> Call \cup {NoOne}]
  /\ shown \in [Call -> Receipt \cup {NoOne}]
  /\ minted \in Nat
  /\ executions \in [Job -> Nat]
  /\ crashes \in 0 .. MaxCrashes

Init ==
  /\ jobs = [j \in Job |-> NoOne]
  /\ results = [j \in Job |-> NoOne]
  /\ receipts = [j \in Job |-> NoOne]
  /\ expected = {}
  /\ rejections = [r \in Requester |-> 0]
  /\ inFlight = [p \in Proc |-> [j \in Job |-> NoOne]]
  /\ pc = [c \in Call |-> "off"]
  /\ declared = [c \in Call |-> FALSE]
  /\ internal = [c \in Call |-> FALSE]
  /\ ended = [c \in Call |-> "none"]
  /\ built = [c \in Call |-> 0]
  /\ state = [c \in Call |-> "unsent"]
  /\ joined = [c \in Call |-> NoOne]
  /\ shown = [c \in Call |-> NoOne]
  /\ minted = 0
  /\ executions = [j \in Job |-> 0]
  /\ crashes = 0

----------------------------------------------------------------------------
\* Between two awaits of an attempt nothing else of its process runs.
Synchronous == {"owner", "rate", "insert", "claim", "receipt"}

\* Slip: an await appears between two ledger calls of an attempt.
LoopNeverHeld(p) == TRUE

LoopFree(p) == \A b \in Call : procOf[b] = p => pc[b] \notin Synchronous

Pair(c) == <<requesterOf[c], jobOf[c]>>
OwnTest == {Pair(s) : s \in SelfTest}

\* The self-test's line is in the mailbox.
Posted(s) == state[s] \notin {"unsent", "declared"}

\* Slip: the line is posted first and declared when the write is confirmed.
MayPostFirst(s) == state[s] \in {"unsent", "declared"}

\* A self-test is declared before its job is posted.
MayPost(s) == state[s] = "declared"

\* The throwaway key of a self-test has signed nothing before its line is posted.
Arrived(c) == \/ /\ c \in SelfTest
                 /\ state[c] = "posted"
              \/ /\ c \notin SelfTest
                 /\ state[c] = "unsent"
                 /\ \A s \in SelfTest : Pair(s) = Pair(c) => Posted(s)

\* The attempt a new submission of j meets in p.
Entry(p, j) == inFlight[p][j]

\* Slip: the table is keyed on the job_id alone.
MayJoinAnyone(c, running) == TRUE

\* Only the requester whose attempt is running may wait for it.
MayJoin(c, running) == requesterOf[running] = requesterOf[c]

\* Slips: "already seen" taken for "already answered"; no duplicate check.
AnsweredIfSeen(j) == jobs[j] # NoOne
AnsweredNever(j) == FALSE

\* "Already answered" is a receipt, not a row.
Answered(j) == receipts[j] # NoOne

\* Where a job continues whose row its requester already owns, without a receipt.
ResumeAt == "insert"

Used(r) == Cardinality({j \in Job : jobs[j] # NoOne /\ jobs[j].owner = r})
             + rejections[r]
OverLimit(r) == Used(r) >= JobsPerHour

Running(p) == {b \in Call : procOf[b] = p /\ pc[b] = "running"}
SlotFree(p) == Cardinality(Running(p)) < MaxConcurrent

\* An attempt ends: its task completes and its callers can be woken.
End(a, how) == /\ pc' = [pc EXCEPT ![a] = "done"]
               /\ ended' = [ended EXCEPT ![a] = how]
----------------------------------------------------------------------------
\* cmd_selftest: the pair is declared, then the line is posted.
Declare(s) ==
  /\ s \in SelfTest
  /\ state[s] = "unsent"
  /\ state' = [state EXCEPT ![s] = "declared"]
  /\ expected' = expected \cup {Pair(s)}
  /\ UNCHANGED <<jobs, results, receipts, rejections, inFlight, attempt,
                 joined, shown, history>>

Post(s) ==
  /\ s \in SelfTest
  /\ MayPost(s)
  /\ state' = [state EXCEPT ![s] = "posted"]
  /\ UNCHANGED <<ledger, inFlight, attempt, joined, shown, history>>

\* handle, refused by parse_and_validate: no row, but the refusal is recorded, and counted.
Refuse(c) ==
  /\ c \in Malformed
  /\ LoopFree(procOf[c])
  /\ Arrived(c)
  /\ state' = [state EXCEPT ![c] = "malformed"]
  /\ rejections' = [rejections EXCEPT ![requesterOf[c]] = @ + 1]
  /\ UNCHANGED <<jobs, results, receipts, expected, inFlight, attempt, joined, shown,
                 history>>

\* handle: refused, joined to the running attempt, or the creator of a new one.
Submit(c) ==
  LET p == procOf[c]
      running == Entry(p, jobOf[c])
  IN /\ c \notin Malformed
     /\ LoopFree(p)
     /\ Arrived(c)
     /\ \/ /\ running # NoOne
           /\ ~MayJoin(c, running)
           /\ state' = [state EXCEPT ![c] = "job_id_taken"]
           /\ rejections' = [rejections EXCEPT ![requesterOf[c]] = @ + 1]
           /\ UNCHANGED <<inFlight, pc, joined>>
        \/ /\ running # NoOne
           /\ MayJoin(c, running)
           /\ state' = [state EXCEPT ![c] = "waiting"]
           /\ joined' = [joined EXCEPT ![c] = running]
           /\ UNCHANGED <<rejections, inFlight, pc>>
        \/ /\ running = NoOne
           /\ state' = [state EXCEPT ![c] = "waiting"]
           /\ joined' = [joined EXCEPT ![c] = c]
           /\ pc' = [pc EXCEPT ![c] = "start"]
           /\ inFlight' = [inFlight EXCEPT ![p][jobOf[c]] = c]
           /\ UNCHANGED rejections
     /\ UNCHANGED <<jobs, results, receipts, expected, declared, internal,
                    ended, built, shown, history>>

\* _run reads the declaration first: it is spent by the insert of the row.
ReadDeclaration(a) ==
  /\ pc[a] = "start"
  /\ LoopFree(procOf[a])
  /\ declared' = [declared EXCEPT ![a] = Pair(a) \in expected]
  /\ internal' = [internal EXCEPT ![a] = a \in SelfTest \/ Pair(a) \in expected]
  /\ pc' = [pc EXCEPT ![a] = "owner"]
  /\ UNCHANGED <<ledger, inFlight, ended, built, caller, history>>

\* _run then reads the row: refused, already answered, resumed or new.
ReadOwner(a) ==
  LET j == jobOf[a]
      mine == jobs[j] # NoOne /\ jobs[j].owner = requesterOf[a]
  IN /\ pc[a] = "owner"
     /\ internal' = [internal EXCEPT ![a] = IF mine THEN jobs[j].internal ELSE @]
     /\ \/ /\ jobs[j] # NoOne /\ ~mine
           /\ End(a, "job_id_taken")
        \/ /\ mine /\ Answered(j)
           /\ End(a, "duplicate")
        \/ /\ mine /\ ~Answered(j)
           /\ pc' = [pc EXCEPT ![a] = ResumeAt]
           /\ UNCHANGED ended
        \/ /\ jobs[j] = NoOne
           /\ pc' = [pc EXCEPT ![a] = "rate"]
           /\ UNCHANGED ended
     /\ UNCHANGED <<ledger, inFlight, declared, built, caller, history>>

CheckRateLimit(a) ==
  /\ pc[a] = "rate"
  /\ \/ /\ OverLimit(requesterOf[a])
        /\ End(a, "rate_limited")
     \/ /\ ~OverLimit(requesterOf[a])
        /\ pc' = [pc EXCEPT ![a] = "insert"]
        /\ UNCHANGED ended
  /\ UNCHANGED <<ledger, inFlight, declared, internal, built, caller, history>>

\* insert_job: the row and the spending of the declaration are one transaction;
\* a row that is already there sends the attempt back to who owns it.
InsertJob(a) ==
  LET j == jobOf[a] IN
  /\ pc[a] = "insert"
  /\ \/ /\ jobs[j] = NoOne
        /\ jobs' = [jobs EXCEPT ![j] = [owner |-> requesterOf[a],
                                        internal |-> internal[a],
                                        body |-> bodyOf[a],
                                        status |-> "validated"]]
        /\ expected' = IF declared[a] THEN expected \ {Pair(a)} ELSE expected
        /\ pc' = [pc EXCEPT ![a] = "claim"]
        /\ UNCHANGED ended
     \/ /\ jobs[j] # NoOne
        /\ jobs[j].owner # requesterOf[a]
        /\ End(a, "job_id_taken")
        /\ UNCHANGED <<jobs, expected>>
     \/ /\ jobs[j] # NoOne
        /\ jobs[j].owner = requesterOf[a]
        /\ Answered(j)
        /\ End(a, "duplicate")
        /\ UNCHANGED <<jobs, expected>>
     \/ /\ jobs[j] # NoOne
        /\ jobs[j].owner = requesterOf[a]
        /\ ~Answered(j)
        /\ pc' = [pc EXCEPT ![a] = "claim"]
        /\ UNCHANGED <<jobs, expected, ended>>
  /\ UNCHANGED <<results, receipts, rejections, inFlight, declared, internal,
                 built, caller, history>>

\* A row with its status replaced.
WithStatus(row, status) == [owner |-> row.owner, internal |-> row.internal,
                            body |-> row.body, status |-> status]

\* update_job: unconditional, whatever the row's status is by now.
Claim(a) ==
  /\ pc[a] = "claim"
  /\ jobs' = [jobs EXCEPT ![jobOf[a]] = WithStatus(@, "claimed")]
  /\ pc' = [pc EXCEPT ![a] = "queued"]
  /\ UNCHANGED <<results, receipts, expected, rejections, inFlight, declared,
                 internal, ended, built, caller, history>>

\* The semaphore, then the worker thread.
StartTask(a) ==
  /\ pc[a] = "queued"
  /\ SlotFree(procOf[a])
  /\ pc' = [pc EXCEPT ![a] = "running"]
  /\ executions' = [executions EXCEPT ![jobOf[a]] = @ + 1]
  /\ UNCHANGED <<ledger, inFlight, declared, internal, ended, built, caller,
                 minted, crashes>>

\* The task returns, raises or times out: each way leaves the slot.
EndTask(a) ==
  /\ pc[a] = "running"
  /\ pc' = [pc EXCEPT ![a] = "settle"]
  /\ UNCHANGED <<ledger, inFlight, declared, internal, ended, built, caller,
                 history>>

\* The result is signed and stored: a row of its own, before the receipt's.
RecordResult(a) ==
  /\ pc[a] = "settle"
  /\ LoopFree(procOf[a])
  /\ minted' = minted + 1
  /\ built' = [built EXCEPT ![a] = minted + 1]
  /\ results' = [results EXCEPT ![jobOf[a]] = minted + 1]
  /\ pc' = [pc EXCEPT ![a] = "receipt"]
  /\ UNCHANGED <<jobs, receipts, expected, rejections, inFlight, declared,
                 internal, ended, caller, executions, crashes>>

\* What build_receipt makes of an attempt.
ReceiptOf(a) == [id |-> built[a], requester |-> requesterOf[a],
                 internal |-> internal[a], body |-> bodyOf[a]]

\* Slip: the receipt without the completion.
UnfinishedStatus(row, status) == row

\* Finishing the job and storing its receipt are one transaction.
FinishedStatus(row, status) == WithStatus(row, status)

RecordReceipt(a) ==
  LET j == jobOf[a] IN
  /\ pc[a] = "receipt"
  /\ \E status \in {"completed", "failed"} :
       jobs' = [jobs EXCEPT ![j] = FinishedStatus(@, status)]
  /\ receipts' = [receipts EXCEPT ![j] = ReceiptOf(a)]
  /\ End(a, "answered")
  /\ UNCHANGED <<results, expected, rejections, inFlight, declared, internal,
                 built, caller, history>>

\* _retire: the attempt leaves the in-flight table.
Retire(a) ==
  LET p == procOf[a] IN
  /\ pc[a] = "done"
  /\ LoopFree(p)
  /\ inFlight[p][jobOf[a]] = a
  /\ inFlight' = [inFlight EXCEPT ![p][jobOf[a]] = NoOne]
  /\ UNCHANGED <<ledger, attempt, caller, history>>

\* A waiting caller is woken with what the attempt ended in.  A refusal is
\* recorded, and counted; over HTTP a duplicate is answered from the ledger.
Wake(c) ==
  LET a == joined[c] IN
  /\ state[c] = "waiting"
  /\ pc[a] = "done"
  /\ LoopFree(procOf[c])
  /\ state' = [state EXCEPT ![c] = ended[a]]
  /\ rejections' = IF ended[a] \in Refusal
                   THEN [rejections EXCEPT ![requesterOf[c]] = @ + 1]
                   ELSE rejections
  /\ shown' = [shown EXCEPT ![c] =
                 IF ended[a] = "answered" THEN ReceiptOf(a)
                 ELSE IF ended[a] = "duplicate" /\ c \in Http
                      THEN receipts[jobOf[c]]
                      ELSE @]
  /\ UNCHANGED <<jobs, results, receipts, expected, inFlight, attempt, joined,
                 history>>

\* An HTTP client hangs up.  The wait is shielded: the attempt goes on.
Shielded(c) == pc

Disconnect(c) ==
  /\ c \in Http
  /\ state[c] = "waiting"
  /\ state' = [state EXCEPT ![c] = "gone"]
  /\ pc' = Shielded(c)
  /\ UNCHANGED <<ledger, inFlight, declared, internal, ended, built, joined,
                 shown, history>>

\* A process dies: the ledger stays, its memory goes.  A mailbox line is read
\* again (the cursor has not passed it), an HTTP client may ask again; the
\* operator's self-test is over.
AfterCrash(c) == IF state[c] \notin {"waiting", "posted"} THEN state[c]
                 ELSE IF c \in SelfTest THEN "gone"
                 ELSE "unsent"

Crash(p) ==
  LET mine == {c \in Call : procOf[c] = p} IN
  /\ crashes < MaxCrashes
  /\ crashes' = crashes + 1
  /\ inFlight' = [inFlight EXCEPT ![p] = [j \in Job |-> NoOne]]
  /\ pc' = [c \in Call |-> IF c \in mine THEN "off" ELSE pc[c]]
  /\ declared' = [c \in Call |-> IF c \in mine THEN FALSE ELSE declared[c]]
  /\ internal' = [c \in Call |-> IF c \in mine THEN FALSE ELSE internal[c]]
  /\ ended' = [c \in Call |-> IF c \in mine THEN "none" ELSE ended[c]]
  /\ built' = [c \in Call |-> IF c \in mine THEN 0 ELSE built[c]]
  /\ state' = [c \in Call |-> IF c \in mine THEN AfterCrash(c) ELSE state[c]]
  /\ joined' = [c \in Call |-> IF c \in mine THEN NoOne ELSE joined[c]]
  /\ UNCHANGED <<ledger, shown, minted, executions>>

----------------------------------------------------------------------------
Attempt(a) == \/ ReadDeclaration(a) \/ ReadOwner(a) \/ CheckRateLimit(a)
              \/ InsertJob(a) \/ Claim(a) \/ StartTask(a) \/ EndTask(a)
              \/ RecordResult(a) \/ RecordReceipt(a) \/ Retire(a)

Next == \/ \E c \in Call : \/ Declare(c) \/ Post(c) \/ Refuse(c) \/ Submit(c)
                           \/ Attempt(c) \/ Wake(c) \/ Disconnect(c)
        \/ \E p \in Proc : Crash(p)

Spec == Init /\ [][Next]_vars

\* The calls that are lines of the mailbox.
Mailbox == Call \ (SelfTest \cup Http)
----------------------------------------------------------------------------
\* Safety.

\* The receipt a caller is handed is its requester's: a stranger who guesses a
\* job_id, in flight or answered, learns nothing (handle's check of _in_flight
\* and _run's check of the row cover different callers).
OnlyItsRequester ==
  \A c \in Call : shown[c] # NoOne => shown[c].requester = requesterOf[c]

\* A job the operator declared as the node's own test is never recorded as
\* third-party use: not by the service's loop, not after a crash of either
\* process, not by the loser of a race for the row.
OwnTestsStayInternal ==
  \A s \in SelfTest :
    LET j == jobOf[s] IN
    /\ jobs[j] # NoOne /\ jobs[j].owner = requesterOf[s] => jobs[j].internal
    /\ receipts[j] # NoOne /\ receipts[j].requester = requesterOf[s]
         => receipts[j].internal

\* A job is finished exactly when it has a receipt (record_receipt's one
\* transaction, and nothing that writes the status afterwards).
FinishedIffReceipt ==
  \A j \in Job :
    receipts[j] # NoOne <=>
      jobs[j] # NoOne /\ jobs[j].status \in {"completed", "failed"}

\* The receipt and the stored result come from the same attempt, so that the
\* result's signature in both rows is one signature.
ReceiptMatchesResult ==
  \A j \in Job : receipts[j] # NoOne => results[j] = receipts[j].id

\* What a caller was handed is what the ledger holds, for ever after.
ShownIsOnRecord ==
  \A c \in Call : shown[c] # NoOne => receipts[jobOf[c]] = shown[c]

\* Checking the limit and inserting the row are two ledger calls: no requester
\* gets more jobs out of an hour than the limit all the same.
WithinRateLimit ==
  \A r \in Requester :
    Cardinality({j \in Job : jobs[j] # NoOne /\ jobs[j].owner = r}) <= JobsPerHour

\* runner.py: "the same `job_id` is never executed twice, whatever it says".
NeverExecutedTwice == \A j \in Job : executions[j] <= 1

\* The pipeline keeps the contract of JobContract.
Contract == INSTANCE JobContract WITH
              owner <- [j \in Job |-> IF jobs[j] = NoOne THEN NoOne
                                      ELSE jobs[j].owner],
              answer <- receipts

ContractSpec == Contract!Spec
============================================================================
