-------------------------- MODULE JobRunnerProofs --------------------------
(***************************************************************************)
(* What holds of JobRunner for any calls, any number of processes sharing  *)
(* the ledger, any limits and any number of crashes.                       *)
(***************************************************************************)
EXTENDS JobRunner, FiniteSetTheorems, TLAPS

----------------------------------------------------------------------------
(* The inductive invariant. *)

Owns(r, j) == jobs[j] # NoOne /\ jobs[j].owner = r

\* From the insert to the receipt the row of an attempt is its requester's.
Holding == {"claim", "queued", "running", "settle", "receipt"}
RowHeld == \A a \in Call : pc[a] \in Holding => Owns(requesterOf[a], jobOf[a])

\* A receipt names the owner of its row.
ReceiptOwned == \A j \in Job : receipts[j] # NoOne => Owns(receipts[j].requester, j)

\* An attempt that ended as a duplicate found its own requester's receipt.
DuplicateOwned ==
  \A a \in Call : ended[a] = "duplicate" =>
    Owns(requesterOf[a], jobOf[a]) /\ receipts[jobOf[a]] # NoOne

\* The in-flight table files an attempt under its job.
InFlightJob ==
  \A p \in Proc, j \in Job : inFlight[p][j] # NoOne => jobOf[inFlight[p][j]] = j

\* A waiting caller awaits an attempt of its own requester, at its own job.
JoinedSame ==
  \A c \in Call : joined[c] # NoOne =>
    /\ jobOf[joined[c]] = jobOf[c]
    /\ requesterOf[joined[c]] = requesterOf[c]
WaitingJoined == \A c \in Call : state[c] = "waiting" => joined[c] # NoOne

Shape == TypeOK /\ RowHeld /\ WaitingJoined

Ownership == /\ ReceiptOwned
             /\ DuplicateOwned
             /\ InFlightJob
             /\ JoinedSame
             /\ OnlyItsRequester
----------------------------------------------------------------------------
(***************************************************************************)
(* Type correctness.  RowHeld is needed with it: update_job and            *)
(* record_receipt rewrite a row they do not read first.                    *)
(***************************************************************************)
LEMMA ShapeInit == Init => Shape
BY RunnerAssumption DEF Init, Shape, TypeOK, RowHeld, WaitingJoined, Holding,
                        Phase, Ending, CallState, Refusal

LEMMA WithStatusType ==
  ASSUME NEW row \in Row,
         NEW s \in {"validated", "claimed", "completed", "failed"}
  PROVE  WithStatus(row, s) \in Row /\ WithStatus(row, s).owner = row.owner
         /\ WithStatus(row, s).internal = row.internal
BY DEF WithStatus, Row

LEMMA SubmitType ==
  ASSUME TypeOK, NEW c \in Call, Submit(c)
  PROVE  TypeOK'
<1> DEFINE p == procOf[c]
           j == jobOf[c]
           r == requesterOf[c]
<1>1. p \in Proc /\ j \in Job /\ r \in Requester
  BY RunnerAssumption
<1>2. PICK running \in Call \cup {NoOne} : running = Entry(p, j)
  BY <1>1 DEF TypeOK, Entry
<1>3. \/ /\ state' = [state EXCEPT ![c] = "job_id_taken"]
         /\ rejections' = [rejections EXCEPT ![r] = @ + 1]
         /\ UNCHANGED <<inFlight, pc, joined>>
      \/ /\ state' = [state EXCEPT ![c] = "waiting"]
         /\ joined' = [joined EXCEPT ![c] = running]
         /\ UNCHANGED <<rejections, inFlight, pc>>
      \/ /\ state' = [state EXCEPT ![c] = "waiting"]
         /\ joined' = [joined EXCEPT ![c] = c]
         /\ pc' = [pc EXCEPT ![c] = "start"]
         /\ inFlight' = [inFlight EXCEPT ![p][j] = c]
         /\ UNCHANGED rejections
  BY <1>2, Zenon DEF Submit
<1>4. state' \in [Call -> CallState]
  BY <1>3 DEF TypeOK, CallState, Ending, Refusal
<1>5. rejections' \in [Requester -> Nat]
  <2>1. rejections \in [Requester -> Nat]
    BY DEF TypeOK
  <2>2. \/ rejections' = [rejections EXCEPT ![r] = @ + 1]
        \/ rejections' = rejections
    BY <1>3
  <2> HIDE DEF r
  <2> QED
    BY <1>1, <2>1, <2>2
<1>6. joined' \in [Call -> Call \cup {NoOne}]
  <2>1. joined \in [Call -> Call \cup {NoOne}]
    BY DEF TypeOK
  <2>2. \/ joined' = joined
        \/ joined' = [joined EXCEPT ![c] = running]
        \/ joined' = [joined EXCEPT ![c] = c]
    BY <1>3, Zenon
  <2> QED
    BY <2>1, <2>2
<1>7. pc' \in [Call -> Phase]
  <2>1. pc \in [Call -> Phase]
    BY DEF TypeOK
  <2>2. pc' = pc \/ pc' = [pc EXCEPT ![c] = "start"]
    BY <1>3
  <2> QED
    BY <2>1, <2>2 DEF Phase
<1>8. inFlight' \in [Proc -> [Job -> Call \cup {NoOne}]]
  <2>1. inFlight \in [Proc -> [Job -> Call \cup {NoOne}]]
    BY DEF TypeOK
  <2>2. inFlight' = inFlight \/ inFlight' = [inFlight EXCEPT ![p][j] = c]
    BY <1>3
  <2> HIDE DEF p, j
  <2> QED
    BY <1>1, <2>1, <2>2
<1>9. UNCHANGED <<jobs, results, receipts, expected, declared, internal,
                  ended, built, shown, minted, executions, crashes>>
  BY DEF Submit, history
<1> QED
  BY <1>4, <1>5, <1>6, <1>7, <1>8, <1>9 DEF TypeOK

LEMMA TypeStep == Shape /\ [Next]_vars => TypeOK'
<1> SUFFICES ASSUME Shape, [Next]_vars PROVE TypeOK'
  OBVIOUS
<1> USE RunnerAssumption DEF Shape, TypeOK, ledger, attempt, caller, history
<1>0. ASSUME NEW c \in Call, Refuse(c) PROVE TypeOK'
  BY <1>0 DEF Refuse, CallState
<1>1. ASSUME NEW c \in Call, Declare(c) PROVE TypeOK'
  BY <1>1 DEF Declare, Pair, CallState
<1>2. ASSUME NEW c \in Call, Post(c) PROVE TypeOK'
  BY <1>2 DEF Post, CallState
<1>3. ASSUME NEW c \in Call, Submit(c) PROVE TypeOK'
  BY <1>3, SubmitType
<1>4. ASSUME NEW a \in Call, ReadDeclaration(a) PROVE TypeOK'
  BY <1>4 DEF ReadDeclaration, Phase
<1>5. ASSUME NEW a \in Call, ReadOwner(a) PROVE TypeOK'
  <2>1. UNCHANGED <<jobs, results, receipts, expected, rejections, inFlight,
                    declared, built, state, joined, shown, minted,
                    executions, crashes>>
    BY <1>5 DEF ReadOwner
  <2>2. internal' \in [Call -> BOOLEAN]
    BY <1>5 DEF ReadOwner, Row
  <2>3. pc' \in [Call -> Phase] /\ ended' \in [Call -> Ending]
    BY <1>5 DEF ReadOwner, End, ResumeAt, Phase, Ending, Refusal
  <2> QED
    BY <2>1, <2>2, <2>3
<1>6. ASSUME NEW a \in Call, CheckRateLimit(a) PROVE TypeOK'
  BY <1>6 DEF CheckRateLimit, End, Phase, Ending, Refusal
<1>7. ASSUME NEW a \in Call, InsertJob(a) PROVE TypeOK'
  <2>1. UNCHANGED <<results, receipts, rejections, inFlight, declared,
                    internal, built, state, joined, shown, minted,
                    executions, crashes>>
    BY <1>7 DEF InsertJob
  <2>2. jobs' \in [Job -> Row \cup {NoOne}]
    <3> DEFINE row == [owner |-> requesterOf[a], internal |-> internal[a],
                       body |-> bodyOf[a], status |-> "validated"]
    <3>1. row \in Row /\ jobs \in [Job -> Row \cup {NoOne}]
      BY <1>7 DEF Row
    <3>2. UNCHANGED jobs \/ jobs' = [jobs EXCEPT ![jobOf[a]] = row]
      BY <1>7 DEF InsertJob
    <3> QED
      BY <3>1, <3>2
  <2>3. expected' \subseteq Requester \X Job
    BY <1>7 DEF InsertJob
  <2>4. pc' \in [Call -> Phase] /\ ended' \in [Call -> Ending]
    BY <1>7 DEF InsertJob, End, Phase, Ending, Refusal
  <2> QED
    BY <2>1, <2>2, <2>3, <2>4
<1>8. ASSUME NEW a \in Call, Claim(a) PROVE TypeOK'
  <2>1. jobs[jobOf[a]] \in Row
    BY <1>8 DEF Claim, RowHeld, Holding, Owns
  <2>2. jobs' \in [Job -> Row \cup {NoOne}]
    BY <1>8, <2>1, WithStatusType DEF Claim
  <2> QED
    BY <1>8, <2>2 DEF Claim, Phase
<1>9. ASSUME NEW a \in Call, StartTask(a) PROVE TypeOK'
  BY <1>9 DEF StartTask, Phase
<1>10. ASSUME NEW a \in Call, EndTask(a) PROVE TypeOK'
  BY <1>10 DEF EndTask, Phase
<1>11. ASSUME NEW a \in Call, RecordResult(a) PROVE TypeOK'
  BY <1>11 DEF RecordResult, Phase
<1>12. ASSUME NEW a \in Call, RecordReceipt(a) PROVE TypeOK'
  <2>1. jobs[jobOf[a]] \in Row
    BY <1>12 DEF RecordReceipt, RowHeld, Holding, Owns
  <2>2. jobs' \in [Job -> Row \cup {NoOne}]
    BY <1>12, <2>1, WithStatusType DEF RecordReceipt, FinishedStatus
  <2>3. ReceiptOf(a) \in Receipt
    BY DEF ReceiptOf, Receipt
  <2>4. receipts' \in [Job -> Receipt \cup {NoOne}]
    BY <1>12, <2>3 DEF RecordReceipt
  <2>5. pc' \in [Call -> Phase] /\ ended' \in [Call -> Ending]
    BY <1>12 DEF RecordReceipt, End, Phase, Ending
  <2> QED
    BY <1>12, <2>2, <2>4, <2>5 DEF RecordReceipt
<1>13. ASSUME NEW a \in Call, Retire(a) PROVE TypeOK'
  BY <1>13 DEF Retire
<1>14. ASSUME NEW c \in Call, Wake(c) PROVE TypeOK'
  <2>1. joined[c] \in Call
    BY <1>14 DEF Wake, WaitingJoined
  <2>2. state' \in [Call -> CallState]
    BY <1>14, <2>1 DEF Wake, CallState
  <2>3. rejections' \in [Requester -> Nat]
    BY <1>14 DEF Wake
  <2>4. ReceiptOf(joined[c]) \in Receipt
    BY <2>1 DEF ReceiptOf, Receipt
  <2>5. shown' \in [Call -> Receipt \cup {NoOne}]
    BY <1>14, <2>4 DEF Wake
  <2> QED
    BY <1>14, <2>2, <2>3, <2>5 DEF Wake
<1>15. ASSUME NEW c \in Call, Disconnect(c) PROVE TypeOK'
  BY <1>15 DEF Disconnect, Shielded, CallState
<1>16. ASSUME NEW p \in Proc, Crash(p) PROVE TypeOK'
  <2>1. UNCHANGED <<jobs, results, receipts, expected, rejections, shown,
                    minted, executions>>
    BY <1>16 DEF Crash
  <2>2. inFlight' \in [Proc -> [Job -> Call \cup {NoOne}]]
    BY <1>16 DEF Crash
  <2>3. state' \in [Call -> CallState]
    BY <1>16 DEF Crash, AfterCrash, CallState
  <2>4. pc' \in [Call -> Phase] /\ ended' \in [Call -> Ending]
    BY <1>16 DEF Crash, Phase, Ending
  <2>5. declared' \in [Call -> BOOLEAN] /\ internal' \in [Call -> BOOLEAN]
    BY <1>16 DEF Crash
  <2>6. /\ built' \in [Call -> Nat]
        /\ joined' \in [Call -> Call \cup {NoOne}]
        /\ crashes' \in 0 .. MaxCrashes
    BY <1>16 DEF Crash
  <2> QED
    BY <2>1, <2>2, <2>3, <2>4, <2>5, <2>6
<1>17. CASE UNCHANGED vars
  BY <1>17 DEF vars
<1> QED
  BY <1>0, <1>1, <1>2, <1>3, <1>4, <1>5, <1>6, <1>7, <1>8, <1>9, <1>10, <1>11,
     <1>12, <1>13, <1>14, <1>15, <1>16, <1>17 DEF Next, Attempt

(***************************************************************************)
(* No operation takes a row or a receipt away, or gives a row to another   *)
(* owner.                                                                  *)
(***************************************************************************)
LEMMA RowsStay ==
  ASSUME Shape, [Next]_vars, NEW r \in Requester, NEW j \in Job, Owns(r, j)
  PROVE  Owns(r, j)' /\ jobs'[j].internal = jobs[j].internal
<1>1. ASSUME UNCHANGED jobs PROVE Owns(r, j)' /\ jobs'[j].internal = jobs[j].internal
  BY <1>1 DEF Owns
<1>2. ASSUME NEW a \in Call, InsertJob(a)
      PROVE  Owns(r, j)' /\ jobs'[j].internal = jobs[j].internal
  <2>1. jobs' = jobs \/ (jobs[jobOf[a]] = NoOne /\ \A i \in Job :
          i # jobOf[a] => jobs'[i] = jobs[i])
    BY <1>2 DEF InsertJob, Shape, TypeOK
  <2> QED
    BY <2>1 DEF Owns
<1>3. ASSUME NEW a \in Call, Claim(a) \/ RecordReceipt(a)
      PROVE  Owns(r, j)' /\ jobs'[j].internal = jobs[j].internal
  <2>1. PICK s \in {"claimed", "completed", "failed"} :
          jobs' = [jobs EXCEPT ![jobOf[a]] = WithStatus(@, s)]
    BY <1>3 DEF Claim, RecordReceipt, FinishedStatus
  <2>2. jobs \in [Job -> Row \cup {NoOne}] /\ jobs[j] \in Row
    BY DEF Shape, TypeOK, Owns
  <2>3. /\ WithStatus(jobs[j], s) \in Row
        /\ WithStatus(jobs[j], s).owner = jobs[j].owner
        /\ WithStatus(jobs[j], s).internal = jobs[j].internal
    BY <2>2, WithStatusType
  <2>4. jobs'[j] = jobs[j] \/ jobs'[j] = WithStatus(jobs[j], s)
    BY <2>1, <2>2
  <2> QED
    BY <2>2, <2>3, <2>4, RunnerAssumption DEF Owns
<1> QED
  BY <1>1, <1>2, <1>3 DEF Next, Attempt, vars, ledger, Declare, Post, Refuse, Submit,
     ReadDeclaration, ReadOwner, CheckRateLimit, StartTask, EndTask,
     RecordResult, Retire, Wake, Disconnect, Crash

LEMMA ReceiptsStay ==
  ASSUME Shape, [Next]_vars, NEW j \in Job, receipts[j] # NoOne
  PROVE  receipts'[j] # NoOne
<1>1. ASSUME NEW a \in Call, RecordReceipt(a) PROVE receipts'[j] # NoOne
  <2>1. ReceiptOf(a) # NoOne
    BY RunnerAssumption DEF ReceiptOf, Receipt, Shape, TypeOK
  <2> QED
    BY <1>1, <2>1 DEF RecordReceipt, Shape, TypeOK
<1> QED
  BY <1>1 DEF Next, Attempt, vars, ledger, Declare, Post, Refuse, Submit,
     ReadDeclaration, ReadOwner, CheckRateLimit, InsertJob, Claim, StartTask,
     EndTask, RecordResult, Retire, Wake, Disconnect, Crash

LEMMA RowHeldStep == Shape /\ [Next]_vars => RowHeld'
<1> SUFFICES ASSUME Shape, [Next]_vars, NEW b \in Call, pc'[b] \in Holding
             PROVE  Owns(requesterOf[b], jobOf[b])'
  BY DEF RowHeld
<1> DEFINE r == requesterOf[b]
           j == jobOf[b]
<1>1. r \in Requester /\ j \in Job /\ pc \in [Call -> Phase]
  BY RunnerAssumption DEF Shape, TypeOK
<1>2. CASE pc[b] \in Holding
  BY <1>1, <1>2, RowsStay DEF Shape, RowHeld
<1>3. ASSUME NEW a \in Call, InsertJob(a), pc[b] \notin Holding
      PROVE  Owns(r, j)'
  <2>1. a = b
    BY <1>1, <1>3 DEF InsertJob, End, Holding
  <2>2. \/ /\ jobs[j] = NoOne
           /\ jobs' = [jobs EXCEPT ![j] = [owner |-> r,
                          internal |-> internal[a], body |-> bodyOf[a],
                          status |-> "validated"]]
        \/ /\ jobs[j] # NoOne
           /\ jobs[j].owner = r
           /\ UNCHANGED jobs
    BY <1>1, <1>3, <2>1 DEF InsertJob, End, Holding
  <2>3. [owner |-> r, internal |-> internal[a], body |-> bodyOf[a],
         status |-> "validated"] # NoOne
    BY <1>1, RunnerAssumption DEF Row, Shape, TypeOK
  <2>4. jobs \in [Job -> Row \cup {NoOne}]
    BY DEF Shape, TypeOK
  <2> QED
    BY <1>1, <2>2, <2>3, <2>4 DEF Owns
<1>4. ASSUME pc[b] \notin Holding, ~ \E a \in Call : InsertJob(a)
      PROVE  FALSE
  <2> USE <1>1, <1>4 DEF Holding
  <2>1. ASSUME NEW a \in Call, ReadDeclaration(a) \/ ReadOwner(a)
                                 \/ CheckRateLimit(a) PROVE FALSE
    BY <2>1 DEF ReadDeclaration, ReadOwner, CheckRateLimit, End, ResumeAt
  <2>2. ASSUME NEW a \in Call, Claim(a) \/ StartTask(a) \/ EndTask(a)
                                 \/ RecordResult(a) PROVE FALSE
    BY <2>2 DEF Claim, StartTask, EndTask, RecordResult
  <2>3. ASSUME NEW a \in Call, RecordReceipt(a) \/ Retire(a) PROVE FALSE
    BY <2>3 DEF RecordReceipt, Retire, End, attempt
  <2>4. ASSUME NEW c \in Call, Submit(c) PROVE FALSE
    BY <2>4 DEF Submit
  <2>5. ASSUME NEW c \in Call, Declare(c) \/ Post(c) \/ Refuse(c) \/ Wake(c) \/ Disconnect(c)
        PROVE FALSE
    BY <2>5 DEF Declare, Post, Refuse, Wake, Disconnect, Shielded, attempt
  <2>6. ASSUME NEW p \in Proc, Crash(p) PROVE FALSE
    BY <2>6 DEF Crash
  <2>7. CASE UNCHANGED vars
    BY <2>7 DEF vars, attempt
  <2> QED
    BY <2>1, <2>2, <2>3, <2>4, <2>5, <2>6, <2>7 DEF Next, Attempt
<1> QED
  BY <1>2, <1>3, <1>4

LEMMA WaitingJoinedStep == Shape /\ [Next]_vars => WaitingJoined'
<1> SUFFICES ASSUME Shape, [Next]_vars, NEW c \in Call, state'[c] = "waiting"
             PROVE  joined'[c] # NoOne
  BY DEF WaitingJoined
<1> USE DEF Shape, WaitingJoined
<1>1. /\ state \in [Call -> CallState]
      /\ joined \in [Call -> Call \cup {NoOne}]
      /\ NoOne \notin Call
  BY RunnerAssumption DEF TypeOK
<1>2. ASSUME NEW d \in Call, Submit(d) PROVE joined'[c] # NoOne
  <2>1. \/ state' = [state EXCEPT ![d] = "job_id_taken"] /\ joined' = joined
        \/ \E e : /\ state' = [state EXCEPT ![d] = "waiting"]
                  /\ e # NoOne
                  /\ joined' = [joined EXCEPT ![d] = e]
    BY <1>1, <1>2, Zenon DEF Submit
  <2> QED
    BY <1>1, <2>1
<1>3. ASSUME NEW d \in Call, Wake(d) PROVE joined'[c] # NoOne
  <2>1. c # d => state[c] = "waiting"
    BY <1>1, <1>3 DEF Wake
  <2> QED
    BY <1>1, <1>3, <2>1 DEF Wake
<1>4. ASSUME NEW p \in Proc, Crash(p) PROVE joined'[c] # NoOne
  BY <1>1, <1>4 DEF Crash, AfterCrash
<1> QED
  BY <1>1, <1>2, <1>3, <1>4 DEF Next, Attempt, vars, caller, Declare, Post, Refuse,
     ReadDeclaration, ReadOwner, CheckRateLimit, InsertJob, Claim, StartTask,
     EndTask, RecordResult, RecordReceipt, Retire, Disconnect

LEMMA ShapeStep == Shape /\ [Next]_vars => Shape'
BY TypeStep, RowHeldStep, WaitingJoinedStep DEF Shape

\* Every reachable state has the declared shape.
THEOREM TypeCorrect == Spec => []TypeOK
<1>1. Spec => []Shape
  BY ShapeInit, ShapeStep, PTL DEF Spec
<1>2. Shape => TypeOK
  BY DEF Shape
<1> QED
  BY <1>1, <1>2, PTL
----------------------------------------------------------------------------
(***************************************************************************)
(* Requester isolation.                                                    *)
(***************************************************************************)
LEMMA OwnershipInit == Init => Ownership
BY RunnerAssumption DEF Init, Ownership, ReceiptOwned, DuplicateOwned,
   InFlightJob, JoinedSame, OnlyItsRequester

\* What an attempt signs is a receipt in its own requester's name.
LEMMA ReceiptOfType ==
  ASSUME TypeOK, NEW a \in Call
  PROVE  /\ ReceiptOf(a) \in Receipt
         /\ ReceiptOf(a) # NoOne
         /\ ReceiptOf(a).requester = requesterOf[a]
         /\ ReceiptOf(a).internal = internal[a]
BY RunnerAssumption DEF ReceiptOf, Receipt, TypeOK

LEMMA ReceiptOwnedStep == Shape /\ Ownership /\ [Next]_vars => ReceiptOwned'
<1> SUFFICES ASSUME Shape, Ownership, [Next]_vars,
                    NEW j \in Job, receipts'[j] # NoOne
             PROVE  Owns(receipts[j].requester, j)'
  BY DEF ReceiptOwned
<1>1. CASE receipts'[j] = receipts[j]
  <2>1. Owns(receipts[j].requester, j)
    BY <1>1 DEF Ownership, ReceiptOwned
  <2>2. receipts[j].requester \in Requester
    BY <1>1 DEF Shape, TypeOK, Receipt
  <2> QED
    BY <1>1, <2>1, <2>2, RowsStay DEF Owns
<1>2. ASSUME NEW a \in Call, RecordReceipt(a), jobOf[a] = j
      PROVE  Owns(receipts[j].requester, j)'
  <2>1. receipts'[j] = ReceiptOf(a)
    BY <1>2 DEF RecordReceipt, Shape, TypeOK
  <2>2. Owns(requesterOf[a], j)
    BY <1>2 DEF RecordReceipt, Shape, RowHeld, Holding
  <2>3. requesterOf[a] \in Requester
    BY RunnerAssumption
  <2> QED
    BY <2>1, <2>2, <2>3, RowsStay, ReceiptOfType DEF Owns, Shape
<1>3. ASSUME NEW a \in Call, RecordReceipt(a), jobOf[a] # j
      PROVE  receipts'[j] = receipts[j]
  BY <1>3 DEF RecordReceipt, Shape, TypeOK
<1>4. receipts' = receipts \/ \E a \in Call : RecordReceipt(a)
  BY DEF Next, Attempt, vars, ledger, Declare, Post, Refuse, Submit, ReadDeclaration,
     ReadOwner, CheckRateLimit, InsertJob, Claim, StartTask, EndTask,
     RecordResult, Retire, Wake, Disconnect, Crash
<1> QED
  BY <1>1, <1>2, <1>3, <1>4

LEMMA DuplicateOwnedStep == Shape /\ Ownership /\ [Next]_vars => DuplicateOwned'
<1> SUFFICES ASSUME Shape, Ownership, [Next]_vars,
                    NEW b \in Call, ended'[b] = "duplicate"
             PROVE  Owns(requesterOf[b], jobOf[b])' /\ receipts'[jobOf[b]] # NoOne
  BY DEF DuplicateOwned
<1>1. requesterOf[b] \in Requester /\ jobOf[b] \in Job /\ ended \in [Call -> Ending]
  BY RunnerAssumption DEF Shape, TypeOK
<1>2. SUFFICES Owns(requesterOf[b], jobOf[b]) /\ receipts[jobOf[b]] # NoOne
  BY <1>1, <1>2, RowsStay, ReceiptsStay
<1>3. CASE ended[b] = "duplicate"
  BY <1>3 DEF Ownership, DuplicateOwned
<1>4. ASSUME NEW a \in Call, ReadOwner(a), ended[b] # "duplicate"
      PROVE  Owns(requesterOf[b], jobOf[b]) /\ receipts[jobOf[b]] # NoOne
  <2>1. a = b
    BY <1>1, <1>4 DEF ReadOwner, End
  <2> QED
    BY <1>1, <1>4, <2>1 DEF ReadOwner, End, Answered, Owns
<1>5. ASSUME NEW a \in Call, InsertJob(a), ended[b] # "duplicate"
      PROVE  Owns(requesterOf[b], jobOf[b]) /\ receipts[jobOf[b]] # NoOne
  <2>1. a = b
    BY <1>1, <1>5 DEF InsertJob, End
  <2> QED
    BY <1>1, <1>5, <2>1 DEF InsertJob, End, Answered, Owns
<1>6. ASSUME ended[b] # "duplicate",
             ~ \E a \in Call : ReadOwner(a) \/ InsertJob(a)
      PROVE  FALSE
  <2> USE <1>1, <1>6
  <2>1. ASSUME NEW a \in Call, ReadDeclaration(a) \/ CheckRateLimit(a) \/ Claim(a)
                                 \/ StartTask(a) \/ EndTask(a) PROVE FALSE
    BY <2>1 DEF ReadDeclaration, CheckRateLimit, Claim, StartTask, EndTask, End
  <2>2. ASSUME NEW a \in Call, RecordResult(a) \/ RecordReceipt(a) \/ Retire(a)
        PROVE FALSE
    BY <2>2 DEF RecordResult, RecordReceipt, Retire, End, attempt
  <2>3. ASSUME NEW c \in Call, Declare(c) \/ Post(c) \/ Refuse(c) \/ Submit(c) \/ Wake(c)
                                 \/ Disconnect(c) PROVE FALSE
    BY <2>3 DEF Declare, Post, Refuse, Submit, Wake, Disconnect, attempt
  <2>4. ASSUME NEW p \in Proc, Crash(p) PROVE FALSE
    BY <2>4 DEF Crash
  <2>5. CASE UNCHANGED vars
    BY <2>5 DEF vars, attempt
  <2> QED
    BY <2>1, <2>2, <2>3, <2>4, <2>5 DEF Next, Attempt
<1> QED
  BY <1>3, <1>4, <1>5, <1>6

LEMMA InFlightJobStep == Shape /\ Ownership /\ [Next]_vars => InFlightJob'
<1> SUFFICES ASSUME Shape, Ownership, [Next]_vars, NEW p \in Proc, NEW j \in Job,
                    inFlight'[p][j] # NoOne
             PROVE  jobOf[inFlight'[p][j]] = j
  BY DEF InFlightJob
<1>1. inFlight \in [Proc -> [Job -> Call \cup {NoOne}]]
  BY DEF Shape, TypeOK
<1>2. CASE inFlight'[p][j] = inFlight[p][j]
  BY <1>2 DEF Ownership, InFlightJob
<1>3. ASSUME NEW c \in Call, Submit(c), inFlight'[p][j] # inFlight[p][j]
      PROVE  jobOf[inFlight'[p][j]] = j
  <2>1. inFlight' = [inFlight EXCEPT ![procOf[c]][jobOf[c]] = c]
    BY <1>3 DEF Submit
  <2> QED
    BY <1>1, <1>3, <2>1, RunnerAssumption
<1>4. ASSUME NEW a \in Call, Retire(a) PROVE inFlight'[p][j] = inFlight[p][j]
  BY <1>1, <1>4 DEF Retire
<1>5. ASSUME NEW q \in Proc, Crash(q) PROVE inFlight'[p][j] = inFlight[p][j]
  BY <1>1, <1>5 DEF Crash
<1> QED
  BY <1>2, <1>3, <1>4, <1>5 DEF Next, Attempt, vars, Declare, Post, Refuse,
     ReadDeclaration, ReadOwner, CheckRateLimit, InsertJob, Claim, StartTask,
     EndTask, RecordResult, RecordReceipt, Wake, Disconnect

LEMMA JoinedSameStep == Shape /\ Ownership /\ [Next]_vars => JoinedSame'
<1> SUFFICES ASSUME Shape, Ownership, [Next]_vars, NEW c \in Call,
                    joined'[c] # NoOne
             PROVE  /\ jobOf[joined'[c]] = jobOf[c]
                    /\ requesterOf[joined'[c]] = requesterOf[c]
  BY DEF JoinedSame
<1>1. joined \in [Call -> Call \cup {NoOne}]
  BY DEF Shape, TypeOK
<1>2. CASE joined'[c] = joined[c]
  BY <1>2 DEF Ownership, JoinedSame
<1>3. ASSUME NEW d \in Call, Submit(d), joined'[c] # joined[c]
      PROVE  /\ jobOf[joined'[c]] = jobOf[c]
             /\ requesterOf[joined'[c]] = requesterOf[c]
  <2> DEFINE running == inFlight[procOf[d]][jobOf[d]]
  <2>1. \/ joined' = [joined EXCEPT ![d] = d]
        \/ /\ running # NoOne
           /\ requesterOf[running] = requesterOf[d]
           /\ joined' = [joined EXCEPT ![d] = running]
    BY <1>3 DEF Submit, Entry, MayJoin
  <2>2. d = c
    BY <1>1, <1>3, <2>1
  <2>3. running # NoOne => jobOf[running] = jobOf[d]
    BY RunnerAssumption DEF Ownership, InFlightJob
  <2>4. joined'[c] = d \/ joined'[c] = running
    BY <1>1, <2>1, <2>2
  <2> HIDE DEF running
  <2> QED
    BY <1>1, <2>1, <2>2, <2>3, <2>4
<1>4. ASSUME NEW p \in Proc, Crash(p) PROVE joined'[c] = joined[c]
  BY <1>1, <1>4 DEF Crash
<1> QED
  BY <1>2, <1>3, <1>4 DEF Next, Attempt, vars, caller, Declare, Post, Refuse,
     ReadDeclaration, ReadOwner, CheckRateLimit, InsertJob, Claim, StartTask,
     EndTask, RecordResult, RecordReceipt, Retire, Wake, Disconnect

LEMMA OnlyItsRequesterStep ==
  Shape /\ Ownership /\ [Next]_vars => OnlyItsRequester'
<1> SUFFICES ASSUME Shape, Ownership, [Next]_vars, NEW c \in Call,
                    shown'[c] # NoOne
             PROVE  shown'[c].requester = requesterOf[c]
  BY DEF OnlyItsRequester
<1>1. shown \in [Call -> Receipt \cup {NoOne}]
  BY DEF Shape, TypeOK
<1>2. CASE shown'[c] = shown[c]
  BY <1>2 DEF Ownership, OnlyItsRequester
<1>3. ASSUME NEW d \in Call, Wake(d), shown'[c] # shown[c]
      PROVE  shown'[c].requester = requesterOf[c]
  <2>1. d = c
    BY <1>1, <1>3 DEF Wake
  <2>2. PICK a \in Call : /\ a = joined[c]
                          /\ jobOf[a] = jobOf[c]
                          /\ requesterOf[a] = requesterOf[c]
    BY <1>3, <2>1 DEF Wake, Shape, TypeOK, WaitingJoined, Ownership, JoinedSame
  <2>3. \/ shown'[c] = ReceiptOf(a)
        \/ ended[a] = "duplicate" /\ shown'[c] = receipts[jobOf[c]]
    BY <1>1, <1>3, <2>1, <2>2 DEF Wake
  <2>4. CASE shown'[c] = ReceiptOf(a)
    BY <2>2, <2>4, ReceiptOfType DEF Shape
  <2>5. CASE ended[a] = "duplicate" /\ shown'[c] = receipts[jobOf[c]]
    BY <2>2, <2>5, RunnerAssumption
       DEF Ownership, DuplicateOwned, ReceiptOwned, Owns
  <2> QED
    BY <2>3, <2>4, <2>5
<1> QED
  BY <1>2, <1>3 DEF Next, Attempt, vars, caller, Declare, Post, Refuse, Submit,
     ReadDeclaration, ReadOwner, CheckRateLimit, InsertJob, Claim, StartTask,
     EndTask, RecordResult, RecordReceipt, Retire, Disconnect, Crash

\* However many processes share the ledger and however they crash, a receipt is
\* handed only to callers that speak for the requester it names.
THEOREM RequesterIsolation == Spec => []OnlyItsRequester
<1>1. Init => Shape /\ Ownership
  BY ShapeInit, OwnershipInit
<1>2. Shape /\ Ownership /\ [Next]_vars => (Shape /\ Ownership)'
  BY ShapeStep, ReceiptOwnedStep, DuplicateOwnedStep, InFlightJobStep,
     JoinedSameStep, OnlyItsRequesterStep DEF Ownership
<1>3. Shape /\ Ownership => OnlyItsRequester
  BY DEF Ownership
<1> QED
  BY <1>1, <1>2, <1>3, PTL DEF Spec
----------------------------------------------------------------------------
(***************************************************************************)
(* The classification of the node's own tests.                             *)
(***************************************************************************)

\* A declaration stands until the row it classifies exists.
Known(c) == Pair(c) \in expected \/ Owns(requesterOf[c], jobOf[c])

DeclaredKnown == \A s \in SelfTest : state[s] # "unsent" => Known(s)

\* An attempt at a self-test's job starts after the declaration.
AttemptKnown ==
  \A a \in Call : pc[a] # "off" /\ Pair(a) \in OwnTest => Known(a)

\* The declaration is read before the row: whichever of the two an attempt
\* finds, it is internal by the time it can insert.
Classified == {"rate", "insert"} \cup Holding
AttemptInternal ==
  \A a \in Call : Pair(a) \in OwnTest =>
    /\ pc[a] = "owner" => internal[a] \/ Owns(requesterOf[a], jobOf[a])
    /\ pc[a] \in Classified => internal[a]

OwnRows ==
  \A j \in Job : jobs[j] # NoOne /\ <<jobs[j].owner, j>> \in OwnTest
                   => jobs[j].internal
OwnReceipts ==
  \A j \in Job : receipts[j] # NoOne /\ <<receipts[j].requester, j>> \in OwnTest
                   => receipts[j].internal

Classification == /\ DeclaredKnown
                  /\ AttemptKnown
                  /\ AttemptInternal
                  /\ OwnRows
                  /\ OwnReceipts

LEMMA ClassificationInit == Init => Classification
BY RunnerAssumption DEF Init, Classification, DeclaredKnown, AttemptKnown,
   AttemptInternal, OwnRows, OwnReceipts, Classified, Holding

LEMMA KnownStays ==
  ASSUME Shape, [Next]_vars, NEW c \in Call, Known(c)
  PROVE  Known(c)'
<1>1. requesterOf[c] \in Requester /\ jobOf[c] \in Job
  BY RunnerAssumption
<1>2. CASE Owns(requesterOf[c], jobOf[c])
  BY <1>1, <1>2, RowsStay DEF Known
<1>3. ASSUME NEW a \in Call, InsertJob(a), Pair(c) \in expected PROVE Known(c)'
  <2>1. CASE expected' = expected
    BY <1>3, <2>1 DEF Known, Pair
  <2>2. CASE Pair(c) # Pair(a)
    BY <1>3, <2>2 DEF InsertJob, Known, Pair
  <2>3. CASE Pair(c) = Pair(a) /\ expected' # expected
    <3>1. requesterOf[c] = requesterOf[a] /\ jobOf[c] = jobOf[a]
      BY <2>3 DEF Pair
    <3>2. /\ jobs' = [jobs EXCEPT ![jobOf[a]] =
                        [owner |-> requesterOf[a], internal |-> internal[a],
                         body |-> bodyOf[a], status |-> "validated"]]
          /\ [owner |-> requesterOf[a], internal |-> internal[a],
              body |-> bodyOf[a], status |-> "validated"] # NoOne
      BY <1>3, <2>3, RunnerAssumption DEF InsertJob, Shape, TypeOK, Row
    <3> QED
      BY <1>1, <3>1, <3>2 DEF Known, Owns, Shape, TypeOK
  <2> QED
    BY <2>1, <2>2, <2>3
<1>4. ASSUME NEW s \in Call, Declare(s), Pair(c) \in expected PROVE Known(c)'
  BY <1>4 DEF Declare, Known, Pair
<1>5. ASSUME UNCHANGED expected, Pair(c) \in expected PROVE Known(c)'
  BY <1>5 DEF Known, Pair
<1> QED
  BY <1>2, <1>3, <1>4, <1>5 DEF Known, Next, Attempt, vars, ledger, Post, Refuse, Submit,
     ReadDeclaration, ReadOwner, CheckRateLimit, Claim, StartTask, EndTask,
     RecordResult, RecordReceipt, Retire, Wake, Disconnect, Crash

LEMMA DeclaredKnownStep ==
  Shape /\ Classification /\ [Next]_vars => DeclaredKnown'
<1> SUFFICES ASSUME Shape, Classification, [Next]_vars,
                    NEW s \in SelfTest, state'[s] # "unsent"
             PROVE  Known(s)'
  BY DEF DeclaredKnown
<1>1. s \in Call /\ state \in [Call -> CallState]
  BY RunnerAssumption DEF Shape, TypeOK
<1>2. CASE state[s] # "unsent"
  BY <1>1, <1>2, KnownStays DEF Classification, DeclaredKnown
<1>3. ASSUME NEW c \in Call, Declare(c), state[s] = "unsent" PROVE Known(s)'
  <2>1. c = s
    BY <1>1, <1>3 DEF Declare
  <2> QED
    BY <1>3, <2>1 DEF Declare, Known, Pair
<1>4. ASSUME state[s] = "unsent", ~ \E c \in Call : Declare(c) PROVE FALSE
  <2> USE <1>1, <1>4
  <2>1. ASSUME NEW c \in Call, Post(c) \/ Refuse(c) \/ Submit(c) PROVE FALSE
    BY <2>1 DEF Post, MayPost, Refuse, Submit, Arrived
  <2>2. ASSUME NEW c \in Call, Wake(c) \/ Disconnect(c) PROVE FALSE
    BY <2>2 DEF Wake, Disconnect
  <2>3. ASSUME NEW p \in Proc, Crash(p) PROVE FALSE
    BY <2>3 DEF Crash, AfterCrash
  <2>4. ASSUME UNCHANGED caller PROVE FALSE
    BY <2>4 DEF caller
  <2> QED
    BY <2>1, <2>2, <2>3, <2>4 DEF Next, Attempt, vars, ReadDeclaration, ReadOwner,
       CheckRateLimit, InsertJob, Claim, StartTask, EndTask, RecordResult,
       RecordReceipt, Retire
<1> QED
  BY <1>2, <1>3, <1>4

LEMMA AttemptKnownStep ==
  Shape /\ Classification /\ [Next]_vars => AttemptKnown'
<1> SUFFICES ASSUME Shape, Classification, [Next]_vars,
                    NEW a \in Call, pc'[a] # "off", Pair(a) \in OwnTest
             PROVE  Known(a)'
  BY DEF AttemptKnown, Pair, OwnTest
<1>1. pc \in [Call -> Phase]
  BY DEF Shape, TypeOK
<1>2. CASE pc[a] # "off"
  BY <1>2, KnownStays DEF Classification, AttemptKnown
<1>3. ASSUME NEW c \in Call, Submit(c), pc[a] = "off" PROVE Known(a)'
  <2>1. c = a
    BY <1>1, <1>3 DEF Submit
  <2>2. PICK s \in SelfTest : Pair(s) = Pair(a) /\ state[s] # "unsent"
    <3>1. PICK t \in SelfTest : Pair(t) = Pair(a)
      BY DEF OwnTest
    <3> QED
      BY <1>3, <2>1, <3>1 DEF Submit, Arrived, Posted
  <2>3. Known(s)
    BY <2>2 DEF Classification, DeclaredKnown
  <2>4. Known(a)
    BY <2>2, <2>3 DEF Known, Pair
  <2> QED
    BY <2>4, KnownStays
<1>4. ASSUME pc[a] = "off", ~ \E c \in Call : Submit(c) PROVE FALSE
  <2> USE <1>1, <1>4
  <2>1. ASSUME NEW b \in Call, ReadDeclaration(b) \/ ReadOwner(b)
                                 \/ CheckRateLimit(b) PROVE FALSE
    BY <2>1 DEF ReadDeclaration, ReadOwner, CheckRateLimit, End, ResumeAt
  <2>2. ASSUME NEW b \in Call, InsertJob(b) PROVE FALSE
    BY <2>2 DEF InsertJob, End
  <2>3. ASSUME NEW b \in Call, Claim(b) \/ StartTask(b) \/ EndTask(b)
                                 \/ RecordResult(b) PROVE FALSE
    BY <2>3 DEF Claim, StartTask, EndTask, RecordResult
  <2>4. ASSUME NEW b \in Call, RecordReceipt(b) \/ Retire(b) PROVE FALSE
    BY <2>4 DEF RecordReceipt, Retire, End, attempt
  <2>5. ASSUME NEW c \in Call, Declare(c) \/ Post(c) \/ Refuse(c) \/ Wake(c) \/ Disconnect(c)
        PROVE FALSE
    BY <2>5 DEF Declare, Post, Refuse, Wake, Disconnect, Shielded, attempt
  <2>6. ASSUME NEW p \in Proc, Crash(p) PROVE FALSE
    BY <2>6 DEF Crash
  <2>7. CASE UNCHANGED vars
    BY <2>7 DEF vars, attempt
  <2> QED
    BY <2>1, <2>2, <2>3, <2>4, <2>5, <2>6, <2>7 DEF Next, Attempt
<1> QED
  BY <1>2, <1>3, <1>4

LEMMA OwnRowsStep == Shape /\ Classification /\ [Next]_vars => OwnRows'
<1> SUFFICES ASSUME Shape, Classification, [Next]_vars, NEW j \in Job,
                    jobs'[j] # NoOne, <<jobs'[j].owner, j>> \in OwnTest
             PROVE  jobs'[j].internal
  BY DEF OwnRows, OwnTest, Pair
<1>1. jobs \in [Job -> Row \cup {NoOne}]
  BY DEF Shape, TypeOK
<1>2. CASE jobs[j] # NoOne
  <2>1. jobs[j].owner \in Requester
    BY <1>1, <1>2 DEF Row
  <2>2. jobs'[j].owner = jobs[j].owner /\ jobs'[j].internal = jobs[j].internal
    BY <1>2, <2>1, RowsStay DEF Owns
  <2> QED
    BY <1>2, <2>2 DEF Classification, OwnRows
<1>3. ASSUME NEW a \in Call, InsertJob(a), jobs[j] = NoOne
      PROVE  jobs'[j].internal
  <2>1. /\ j = jobOf[a]
        /\ jobs'[j] = [owner |-> requesterOf[a], internal |-> internal[a],
                       body |-> bodyOf[a], status |-> "validated"]
    BY <1>1, <1>3 DEF InsertJob
  <2>2. Pair(a) \in OwnTest /\ pc[a] = "insert"
    BY <1>3, <2>1 DEF Pair, InsertJob
  <2> QED
    BY <2>1, <2>2 DEF Classification, AttemptInternal, Classified
<1>4. ASSUME NEW a \in Call, Claim(a) \/ RecordReceipt(a), jobs[j] = NoOne
      PROVE  FALSE
  <2>1. j # jobOf[a]
    BY <1>4 DEF Claim, RecordReceipt, Shape, RowHeld, Holding, Owns
  <2> QED
    BY <1>1, <1>4, <2>1 DEF Claim, RecordReceipt
<1>5. ASSUME UNCHANGED jobs, jobs[j] = NoOne PROVE FALSE
  BY <1>5
<1> QED
  BY <1>2, <1>3, <1>4, <1>5 DEF Next, Attempt, vars, ledger, Declare, Post, Refuse, Submit,
     ReadDeclaration, ReadOwner, CheckRateLimit, StartTask, EndTask,
     RecordResult, Retire, Wake, Disconnect, Crash

LEMMA OwnReceiptsStep == Shape /\ Classification /\ [Next]_vars => OwnReceipts'
<1> SUFFICES ASSUME Shape, Classification, [Next]_vars, NEW j \in Job,
                    receipts'[j] # NoOne,
                    <<receipts'[j].requester, j>> \in OwnTest
             PROVE  receipts'[j].internal
  BY DEF OwnReceipts, OwnTest, Pair
<1>1. receipts \in [Job -> Receipt \cup {NoOne}]
  BY DEF Shape, TypeOK
<1>2. CASE receipts'[j] = receipts[j]
  BY <1>2 DEF Classification, OwnReceipts
<1>3. ASSUME NEW a \in Call, RecordReceipt(a), receipts'[j] # receipts[j]
      PROVE  receipts'[j].internal
  <2>1. j = jobOf[a] /\ receipts'[j] = ReceiptOf(a) /\ pc[a] = "receipt"
    BY <1>1, <1>3 DEF RecordReceipt
  <2>2. Pair(a) \in OwnTest
    BY <2>1, ReceiptOfType DEF Pair, Shape
  <2> QED
    BY <2>1, <2>2, ReceiptOfType
       DEF Classification, AttemptInternal, Classified, Holding, Shape
<1> QED
  BY <1>2, <1>3 DEF Next, Attempt, vars, ledger, Declare, Post, Refuse, Submit,
     ReadDeclaration, ReadOwner, CheckRateLimit, InsertJob, Claim, StartTask,
     EndTask, RecordResult, Retire, Wake, Disconnect, Crash

LEMMA AttemptInternalStep ==
  Shape /\ Classification /\ [Next]_vars => AttemptInternal'
<1> SUFFICES ASSUME Shape, Classification, [Next]_vars,
                    NEW a \in Call, Pair(a) \in OwnTest
             PROVE  /\ pc'[a] = "owner" =>
                         internal'[a] \/ Owns(requesterOf[a], jobOf[a])'
                    /\ pc'[a] \in Classified => internal'[a]
  BY DEF AttemptInternal, OwnTest, Pair
<1> DEFINE r == requesterOf[a]
           j == jobOf[a]
           Goal == /\ pc'[a] = "owner" => internal'[a] \/ Owns(r, j)'
                   /\ pc'[a] \in Classified => internal'[a]
<1>1. /\ r \in Requester /\ j \in Job
      /\ pc \in [Call -> Phase]
      /\ internal \in [Call -> BOOLEAN]
  BY RunnerAssumption DEF Shape, TypeOK
<1>2. /\ pc[a] = "owner" => internal[a] \/ Owns(r, j)
      /\ pc[a] \in Classified => internal[a]
  BY DEF Classification, AttemptInternal
<1>3. Owns(r, j) => Owns(r, j)'
  BY <1>1, RowsStay
<1>4. CASE pc'[a] = pc[a] /\ internal'[a] = internal[a]
  BY <1>2, <1>3, <1>4
<1>5. CASE pc'[a] \notin {"owner"} \cup Classified
  BY <1>5
<1>6. CASE ReadDeclaration(a)
  <2>1. Known(a)
    BY <1>6 DEF ReadDeclaration, Classification, AttemptKnown
  <2>2. internal'[a] \/ Owns(r, j)
    BY <1>1, <1>6, <2>1 DEF ReadDeclaration, Known
  <2>3. pc'[a] = "owner"
    BY <1>1, <1>6 DEF ReadDeclaration
  <2> QED
    BY <1>3, <2>2, <2>3 DEF Classified, Holding
<1>7. CASE ReadOwner(a)
  <2>1. CASE Owns(r, j)
    <3>1. internal'[a] = jobs[j].internal
      BY <1>1, <1>7, <2>1 DEF ReadOwner, Owns
    <3>2. jobs[j].internal
      BY <1>1, <2>1 DEF Classification, OwnRows, Owns, Pair
    <3> QED
      BY <3>1, <3>2
  <2>2. CASE ~Owns(r, j)
    <3>1. internal'[a] = internal[a] /\ internal[a]
      BY <1>1, <1>2, <1>7, <2>2 DEF ReadOwner, Owns
    <3> QED
      BY <3>1
  <2> QED
    BY <2>1, <2>2
<1>8. CASE CheckRateLimit(a) \/ InsertJob(a) \/ Claim(a) \/ StartTask(a)
             \/ EndTask(a) \/ RecordResult(a) \/ RecordReceipt(a)
  <2>1. internal' = internal /\ pc[a] \in Classified /\ pc'[a] # "owner"
    BY <1>1, <1>8 DEF CheckRateLimit, InsertJob, Claim, StartTask, EndTask,
       RecordResult, RecordReceipt, End, Classified, Holding
  <2> QED
    BY <1>2, <2>1
<1>9. ASSUME NEW b \in Call, Attempt(b), b # a
      PROVE  pc'[a] = pc[a] /\ internal'[a] = internal[a]
  <2> USE <1>1, <1>9
  <2>1. CASE ReadDeclaration(b) \/ ReadOwner(b)
    BY <2>1 DEF ReadDeclaration, ReadOwner, End
  <2>2. CASE CheckRateLimit(b) \/ InsertJob(b)
    BY <2>2 DEF CheckRateLimit, InsertJob, End
  <2>3. CASE Claim(b) \/ StartTask(b) \/ EndTask(b) \/ RecordResult(b)
               \/ RecordReceipt(b)
    BY <2>3 DEF Claim, StartTask, EndTask, RecordResult, RecordReceipt, End
  <2>4. CASE Retire(b)
    BY <2>4 DEF Retire, attempt
  <2> QED
    BY <2>1, <2>2, <2>3, <2>4 DEF Attempt
<1>10. CASE Retire(a)
  BY <1>4, <1>10 DEF Retire, attempt
<1>11. ASSUME NEW c \in Call, Declare(c) \/ Post(c) \/ Refuse(c) \/ Wake(c) \/ Disconnect(c)
       PROVE  Goal
  BY <1>4, <1>11 DEF Declare, Post, Refuse, Wake, Disconnect, Shielded, attempt
<1>12. ASSUME NEW c \in Call, Submit(c) PROVE Goal
  <2>1. /\ internal' = internal
        /\ pc' = pc \/ pc' = [pc EXCEPT ![c] = "start"]
    BY <1>12 DEF Submit
  <2>2. pc'[a] = pc[a] \/ pc'[a] = "start"
    BY <1>1, <2>1
  <2> QED
    BY <1>4, <1>5, <2>1, <2>2 DEF Classified, Holding
<1>13. ASSUME NEW p \in Proc, Crash(p) PROVE Goal
  <2>1. \/ pc'[a] = "off"
        \/ pc'[a] = pc[a] /\ internal'[a] = internal[a]
    BY <1>13 DEF Crash
  <2> QED
    BY <1>4, <1>5, <2>1 DEF Classified, Holding
<1>14. CASE UNCHANGED vars
  BY <1>4, <1>14 DEF vars, attempt
<1> QED
  BY <1>4, <1>6, <1>7, <1>8, <1>9, <1>10, <1>11, <1>12, <1>13, <1>14
     DEF Next, Attempt

\* Whatever the interleaving of the self-test with the service, and whichever of
\* them dies where, a declared job is on record as the node's own.
THEOREM SelfTestsNeverThirdParty == Spec => []OwnTestsStayInternal
<1>1. Init => Shape /\ Classification
  BY ShapeInit, ClassificationInit
<1>2. Shape /\ Classification /\ [Next]_vars => (Shape /\ Classification)'
  BY ShapeStep, DeclaredKnownStep, AttemptKnownStep, AttemptInternalStep,
     OwnRowsStep, OwnReceiptsStep DEF Classification
<1>3. Shape /\ Classification => OwnTestsStayInternal
  BY RunnerAssumption
     DEF Classification, OwnRows, OwnReceipts, OwnTestsStayInternal, OwnTest, Pair
<1> QED
  BY <1>1, <1>2, <1>3, PTL DEF Spec
----------------------------------------------------------------------------
(***************************************************************************)
(* The contract, where the calls of a job all go to one process.  (With    *)
(* two processes at one job it fails: run selftest_finished.)              *)
(***************************************************************************)
JobInOneProcess == \A c, d \in Call : jobOf[c] = jobOf[d] => procOf[c] = procOf[d]

Busy(a) == pc[a] \notin {"off", "done"}

\* A working attempt is the one its process files under its job ...
Exclusive == \A a \in Call : Busy(a) => inFlight[procOf[a]][jobOf[a]] = a

\* ... a call has none unless it waits or has hung up, and who waits while his own
\* attempt works waits for that one.
FreshCall == \A c \in Call : state[c] \notin {"waiting", "gone"} => ~Busy(c)
OwnAwaited == \A c \in Call : state[c] = "waiting" /\ Busy(c) => joined[c] = c

\* From the insert to the receipt the job has no receipt, and between the two
\* rows the stored result is the attempt's own.
Unanswered == \A a \in Call : pc[a] \in Holding => receipts[jobOf[a]] = NoOne
ResultStored == \A a \in Call : pc[a] = "receipt" => results[jobOf[a]] = built[a]

\* What an answered attempt signed is what is on record.
AnsweredKept ==
  \A a \in Call : pc[a] = "done" /\ ended[a] = "answered" => receipts[jobOf[a]] = ReceiptOf(a)

Turns == /\ Exclusive
         /\ FreshCall
         /\ OwnAwaited
         /\ Unanswered
         /\ ResultStored
         /\ AnsweredKept

Record == FinishedIffReceipt /\ ReceiptMatchesResult /\ ShownIsOnRecord

LEMMA TurnsInit == Init => Turns /\ Record
BY RunnerAssumption DEF Init, Turns, Record, Exclusive, Busy, FreshCall, OwnAwaited,
   Unanswered, ResultStored, AnsweredKept, Holding, FinishedIffReceipt,
   ReceiptMatchesResult, ShownIsOnRecord

\* Two working attempts at one job are one attempt.
LEMMA OneAtATime ==
  ASSUME JobInOneProcess, Exclusive, NEW a \in Call, NEW b \in Call,
         Busy(a), Busy(b), jobOf[a] = jobOf[b]
  PROVE  a = b
BY DEF JobInOneProcess, Exclusive

\* What moves the attempt of a call: its submission, its own step, a crash.
LEMMA PcMoves ==
  ASSUME Shape, [Next]_vars, NEW b \in Call, pc'[b] # pc[b]
  PROVE  \/ Submit(b) /\ pc'[b] = "start"
         \/ Attempt(b) /\ Busy(b) /\ pc'[b] # "off"
         \/ pc'[b] = "off" /\ \E p \in Proc : Crash(p)
<1>1. pc \in [Call -> Phase]
  BY DEF Shape, TypeOK
<1>2. ASSUME NEW a \in Call, Attempt(a)
      PROVE  a = b /\ Busy(b) /\ pc'[b] # "off"
  <2> USE <1>1, <1>2 DEF Busy
  <2>1. CASE ReadDeclaration(a)
    BY <2>1 DEF ReadDeclaration
  <2>2. CASE ReadOwner(a)
    BY <2>2 DEF ReadOwner, End, ResumeAt
  <2>3. CASE CheckRateLimit(a)
    BY <2>3 DEF CheckRateLimit, End
  <2>4. CASE InsertJob(a)
    BY <2>4 DEF InsertJob, End
  <2>5. CASE Claim(a) \/ StartTask(a) \/ EndTask(a) \/ RecordResult(a)
    BY <2>5 DEF Claim, StartTask, EndTask, RecordResult
  <2>6. CASE RecordReceipt(a)
    BY <2>6 DEF RecordReceipt, End
  <2>7. CASE Retire(a)
    BY <2>7 DEF Retire, attempt
  <2> QED
    BY <2>1, <2>2, <2>3, <2>4, <2>5, <2>6, <2>7 DEF Attempt
<1>3. ASSUME NEW c \in Call, Submit(c) PROVE Submit(b) /\ pc'[b] = "start"
  <2>1. pc' = pc \/ pc' = [pc EXCEPT ![c] = "start"]
    BY <1>3 DEF Submit
  <2>2. c = b /\ pc'[b] = "start"
    BY <1>1, <2>1
  <2> QED
    BY <1>3, <2>2
<1>4. ASSUME NEW p \in Proc, Crash(p) PROVE pc'[b] = "off"
  BY <1>4 DEF Crash
<1>5. ASSUME NEW c \in Call, Declare(c) \/ Post(c) \/ Refuse(c) \/ Wake(c) \/ Disconnect(c)
      PROVE  FALSE
  BY <1>5 DEF Declare, Post, Refuse, Wake, Disconnect, Shielded, attempt
<1> QED
  BY <1>2, <1>3, <1>4, <1>5 DEF Next, vars, attempt

LEMMA ExclusiveStep ==
  ASSUME JobInOneProcess, Shape, Turns, [Next]_vars
  PROVE  Exclusive'
<1> SUFFICES ASSUME NEW b \in Call, pc'[b] \notin {"off", "done"}
             PROVE  inFlight'[procOf[b]][jobOf[b]] = b
  BY DEF Exclusive, Busy
<1> DEFINE p == procOf[b]
           j == jobOf[b]
<1>1. /\ p \in Proc /\ j \in Job
      /\ inFlight \in [Proc -> [Job -> Call \cup {NoOne}]]
  BY RunnerAssumption DEF Shape, TypeOK
<1>2. CASE Submit(b) /\ pc'[b] = "start" /\ pc'[b] # pc[b]
  <2>1. inFlight' = [inFlight EXCEPT ![p][j] = b]
    BY <1>2 DEF Submit
  <2> QED
    BY <1>1, <2>1
<1>3. CASE Busy(b)
  <2>1. inFlight[p][j] = b
    BY <1>3 DEF Turns, Exclusive
  <2>2. ASSUME NEW c \in Call, Submit(c) PROVE inFlight'[p][j] = b
    <3>1. \/ inFlight' = inFlight
          \/ /\ inFlight[procOf[c]][jobOf[c]] = NoOne
             /\ inFlight' = [inFlight EXCEPT ![procOf[c]][jobOf[c]] = c]
      BY <2>2 DEF Submit, Entry
    <3>2. procOf[c] \in Proc /\ jobOf[c] \in Job
      BY RunnerAssumption
    <3> HIDE DEF p, j
    <3> QED
      BY <1>1, <2>1, <3>1, <3>2, RunnerAssumption
  <2>3. ASSUME NEW a \in Call, Retire(a) PROVE inFlight'[p][j] = b
    <3>1. pc[a] = "done" /\ inFlight[procOf[a]][jobOf[a]] = a
      BY <2>3 DEF Retire
    <3>2. a # b
      BY <1>3, <3>1 DEF Busy
    <3>3. inFlight' = [inFlight EXCEPT ![procOf[a]][jobOf[a]] = NoOne]
      BY <2>3 DEF Retire
    <3>4. procOf[a] \in Proc /\ jobOf[a] \in Job
      BY RunnerAssumption
    <3> HIDE DEF p, j
    <3> QED
      BY <1>1, <2>1, <3>1, <3>2, <3>3, <3>4
  <2>4. ASSUME NEW q \in Proc, Crash(q) PROVE inFlight'[p][j] = b
    <3>1. q # p
      BY <2>4 DEF Crash
    <3> HIDE DEF p, j
    <3> QED
      BY <1>1, <2>1, <2>4, <3>1 DEF Crash
  <2>5. ASSUME UNCHANGED inFlight PROVE inFlight'[p][j] = b
    BY <2>1, <2>5
  <2> QED
    BY <2>2, <2>3, <2>4, <2>5 DEF Next, Attempt, vars, Declare, Post, Refuse,
       ReadDeclaration, ReadOwner, CheckRateLimit, InsertJob, Claim, StartTask,
       EndTask, RecordResult, RecordReceipt, Wake, Disconnect
<1> QED
  BY <1>2, <1>3, PcMoves DEF Busy

\* An attempt that works was at work, or is of a call just taken in.
LEMMA BusyBefore ==
  ASSUME Shape, [Next]_vars, NEW b \in Call, Busy(b)'
  PROVE  Busy(b) \/ Submit(b)
BY PcMoves DEF Busy

\* A call is taken in when it has no attempt at work.
LEMMA TakenInIdle ==
  ASSUME Turns, NEW c \in Call, Submit(c) \/ Refuse(c)
  PROVE  ~Busy(c)
BY DEF Turns, FreshCall, Submit, Refuse, Arrived

\* What handle does to the call it takes in.
LEMMA SubmitEffect ==
  ASSUME Shape, NEW c \in Call, Submit(c)
  PROVE  \/ /\ state' = [state EXCEPT ![c] = "job_id_taken"]
            /\ UNCHANGED <<joined, pc, inFlight>>
         \/ /\ state' = [state EXCEPT ![c] = "waiting"]
            /\ inFlight[procOf[c]][jobOf[c]] \in Call
            /\ joined' = [joined EXCEPT ![c] = inFlight[procOf[c]][jobOf[c]]]
            /\ UNCHANGED <<pc, inFlight>>
         \/ /\ state' = [state EXCEPT ![c] = "waiting"]
            /\ joined' = [joined EXCEPT ![c] = c]
            /\ pc' = [pc EXCEPT ![c] = "start"]
            /\ inFlight[procOf[c]][jobOf[c]] = NoOne
<1>1. inFlight[procOf[c]][jobOf[c]] \in Call \cup {NoOne}
  BY RunnerAssumption DEF Shape, TypeOK
<1> QED
  BY <1>1 DEF Submit, Entry

LEMMA FreshCallStep == ASSUME Shape, Turns, [Next]_vars PROVE FreshCall'
<1> SUFFICES ASSUME NEW b \in Call, state'[b] \notin {"waiting", "gone"}, Busy(b)' PROVE FALSE
  BY DEF FreshCall
<1>1. state \in [Call -> CallState]
  BY DEF Shape, TypeOK
<1>2. state[b] \in {"waiting", "gone"} \/ Submit(b)
  BY BusyBefore DEF Turns, FreshCall
<1>3. ASSUME NEW c \in Call, Submit(c) PROVE FALSE
  BY <1>1, <1>2, <1>3, BusyBefore, SubmitEffect, TakenInIdle DEF Busy
<1>4. ASSUME NEW c \in Call, Wake(c) PROVE FALSE
  <2>1. c = b /\ state[b] = "waiting" /\ pc[joined[b]] = "done" /\ pc' = pc
    BY <1>1, <1>2, <1>3, <1>4 DEF Wake, attempt
  <2>2. Busy(b)
    BY <2>1 DEF Busy
  <2> QED
    BY <2>1, <2>2 DEF Turns, OwnAwaited, Busy
<1>5. ASSUME NEW c \in Call, Declare(c) \/ Post(c) \/ Refuse(c) \/ Disconnect(c)
      PROVE  FALSE
  BY <1>1, <1>2, <1>3, <1>5 DEF Declare, Post, MayPost, Refuse, Arrived, Disconnect
<1>6. ASSUME NEW p \in Proc, Crash(p) PROVE FALSE
  <2>1. procOf[b] # p
    BY <1>6 DEF Crash, Busy
  <2> QED
    BY <1>2, <1>3, <1>6, <2>1 DEF Crash
<1>7. ASSUME UNCHANGED state PROVE FALSE
  BY <1>2, <1>3, <1>7
<1> QED
  BY <1>3, <1>4, <1>5, <1>6, <1>7 DEF Next, Attempt, vars, caller, ReadDeclaration,
     ReadOwner, CheckRateLimit, InsertJob, Claim, StartTask, EndTask, RecordResult,
     RecordReceipt, Retire

LEMMA OwnAwaitedStep == ASSUME Shape, Turns, [Next]_vars PROVE OwnAwaited'
<1> SUFFICES ASSUME NEW b \in Call, state'[b] = "waiting", Busy(b)' PROVE joined'[b] = b
  BY DEF OwnAwaited
<1>1. state \in [Call -> CallState] /\ joined \in [Call -> Call \cup {NoOne}]
  BY DEF Shape, TypeOK
<1>2. CASE Submit(b)
  BY <1>1, <1>2, SubmitEffect, TakenInIdle DEF Busy
<1>3. CASE ~Submit(b)
  <2>1. Busy(b)
    BY <1>3, BusyBefore
  <2>2. ASSUME state[b] = "waiting", joined'[b] = joined[b] PROVE joined'[b] = b
    BY <2>1, <2>2 DEF Turns, OwnAwaited
  <2>3. ASSUME NEW c \in Call, Submit(c) PROVE joined'[b] = b
    BY <1>1, <1>3, <2>2, <2>3, SubmitEffect
  <2>4. ASSUME NEW c \in Call, Wake(c) PROVE joined'[b] = b
    <3>1. b # c
      <4>1. ended[joined[c]] # "waiting"
        BY <2>4 DEF Wake, Shape, TypeOK, WaitingJoined, Ending, Refusal
      <4> QED
        BY <1>1, <2>4, <4>1 DEF Wake
    <3> QED
      BY <1>1, <2>2, <2>4, <3>1 DEF Wake
  <2>5. ASSUME NEW c \in Call, Declare(c) \/ Post(c) \/ Refuse(c) \/ Disconnect(c)
        PROVE  joined'[b] = b
    BY <1>1, <2>2, <2>5 DEF Declare, Post, Refuse, Disconnect
  <2>6. ASSUME NEW p \in Proc, Crash(p) PROVE joined'[b] = b
    <3>1. procOf[b] # p
      BY <2>6 DEF Crash, Busy
    <3> QED
      BY <2>2, <2>6, <3>1 DEF Crash
  <2>7. ASSUME UNCHANGED <<state, joined>> PROVE joined'[b] = b
    BY <2>2, <2>7
  <2> QED
    BY <2>3, <2>4, <2>5, <2>6, <2>7 DEF Next, Attempt, vars, caller, ReadDeclaration,
       ReadOwner, CheckRateLimit, InsertJob, Claim, StartTask, EndTask, RecordResult,
       RecordReceipt, Retire
<1> QED
  BY <1>2, <1>3

LEMMA ReceiptsWritten ==
  ASSUME [Next]_vars
  PROVE  \/ UNCHANGED receipts
         \/ \E a \in Call : /\ RecordReceipt(a)
                            /\ receipts' = [receipts EXCEPT ![jobOf[a]] = ReceiptOf(a)]
BY DEF Next, Attempt, vars, ledger, Declare, Post, Refuse, Submit, ReadDeclaration,
   ReadOwner, CheckRateLimit, InsertJob, Claim, StartTask, EndTask, RecordResult,
   RecordReceipt, Retire, Wake, Disconnect, Crash

\* A receipt on record is not replaced.
LEMMA ReceiptKept ==
  ASSUME Shape, Turns, [Next]_vars, NEW j \in Job, receipts[j] # NoOne
  PROVE  receipts'[j] = receipts[j]
<1>1. receipts \in [Job -> Receipt \cup {NoOne}]
  BY DEF Shape, TypeOK
<1>2. ASSUME NEW a \in Call, RecordReceipt(a) PROVE jobOf[a] # j
  BY <1>2 DEF RecordReceipt, Turns, Unanswered, Holding
<1> QED
  BY <1>1, <1>2, ReceiptsWritten

LEMMA EntersHolding ==
  ASSUME Shape, [Next]_vars, NEW b \in Call,
         pc'[b] \in Holding, pc[b] \notin Holding
  PROVE  InsertJob(b) /\ pc'[b] = "claim"
<1> USE DEF Holding
<1>1. pc \in [Call -> Phase]
  BY DEF Shape, TypeOK
<1>2. Attempt(b)
  BY PcMoves
<1>3. ~(Claim(b) \/ StartTask(b) \/ EndTask(b) \/ RecordResult(b) \/ RecordReceipt(b))
  BY DEF Claim, StartTask, EndTask, RecordResult, RecordReceipt
<1>4. ~(ReadDeclaration(b) \/ CheckRateLimit(b) \/ Retire(b))
  BY <1>1 DEF ReadDeclaration, CheckRateLimit, Retire, End, attempt
<1>5. ~ReadOwner(b)
  BY <1>1 DEF ReadOwner, End, ResumeAt
<1>6. InsertJob(b)
  BY <1>2, <1>3, <1>4, <1>5 DEF Attempt
<1> QED
  BY <1>1, <1>6 DEF InsertJob, End

LEMMA UnansweredStep ==
  ASSUME JobInOneProcess, Shape, Ownership, Turns, [Next]_vars
  PROVE  Unanswered'
<1> SUFFICES ASSUME NEW b \in Call, pc'[b] \in Holding
             PROVE  receipts'[jobOf[b]] = NoOne
  BY DEF Unanswered
<1>1. /\ jobOf[b] \in Job
      /\ receipts \in [Job -> Receipt \cup {NoOne}]
      /\ pc \in [Call -> Phase]
  BY RunnerAssumption DEF Shape, TypeOK
<1>2. CASE pc[b] \in Holding
  <2>1. receipts[jobOf[b]] = NoOne
    BY <1>2 DEF Turns, Unanswered
  <2>2. ASSUME NEW a \in Call, RecordReceipt(a) PROVE jobOf[a] # jobOf[b]
    <3>1. a # b
      BY <1>1, <2>2 DEF RecordReceipt, End, Holding
    <3>2. Busy(a) /\ Busy(b)
      BY <1>2, <2>2 DEF RecordReceipt, Busy, Holding
    <3> QED
      BY <3>1, <3>2, OneAtATime DEF Turns
  <2> QED
    BY <1>1, <2>1, <2>2, ReceiptsWritten
<1>3. CASE pc[b] \notin Holding
  <2>1. InsertJob(b) /\ pc'[b] = "claim"
    BY <1>3, EntersHolding
  <2>2. jobs[jobOf[b]] = NoOne => receipts[jobOf[b]] = NoOne
    BY <1>1 DEF Ownership, ReceiptOwned, Owns
  <2>3. receipts' = receipts
    BY <2>1 DEF InsertJob
  <2> QED
    BY <1>1, <2>1, <2>2, <2>3 DEF InsertJob, End, Answered
<1> QED
  BY <1>2, <1>3

\* A record of the attempt of b changes with a step of b, or with a crash.
LEMMA AttemptOwn ==
  ASSUME [Next]_vars, Shape, NEW b \in Call,
         built'[b] # built[b] \/ internal'[b] # internal[b]
  PROVE  \/ Busy(b)
         \/ pc'[b] = "off" /\ ended'[b] = "none"
<1>1. /\ built \in [Call -> Nat]
      /\ internal \in [Call -> BOOLEAN]
  BY DEF Shape, TypeOK
<1>2. ASSUME NEW a \in Call, ReadDeclaration(a) \/ ReadOwner(a) \/ RecordResult(a)
      PROVE  Busy(b)
  <2>1. a = b
    BY <1>1, <1>2 DEF ReadDeclaration, ReadOwner, RecordResult
  <2> QED
    BY <1>2, <2>1 DEF ReadDeclaration, ReadOwner, RecordResult, Busy
<1>3. ASSUME NEW p \in Proc, Crash(p) PROVE pc'[b] = "off" /\ ended'[b] = "none"
  BY <1>3 DEF Crash
<1>4. ~UNCHANGED <<built, internal>>
  OBVIOUS
<1> QED
  BY <1>2, <1>3, <1>4 DEF Next, Attempt, vars, attempt, Declare, Post, Refuse, Submit,
     CheckRateLimit, InsertJob, Claim, StartTask, EndTask, RecordReceipt, Retire,
     Wake, Disconnect

LEMMA ResultsWritten ==
  ASSUME [Next]_vars
  PROVE  \/ UNCHANGED results
         \/ \E a \in Call : /\ RecordResult(a)
                            /\ results' = [results EXCEPT ![jobOf[a]] = minted + 1]
BY DEF Next, Attempt, vars, ledger, Declare, Post, Refuse, Submit, ReadDeclaration,
   ReadOwner, CheckRateLimit, InsertJob, Claim, StartTask, EndTask, RecordResult,
   RecordReceipt, Retire, Wake, Disconnect, Crash

LEMMA ResultStoredStep ==
  ASSUME JobInOneProcess, Shape, Turns, [Next]_vars
  PROVE  ResultStored'
<1> SUFFICES ASSUME NEW b \in Call, pc'[b] = "receipt"
             PROVE  results'[jobOf[b]] = built'[b]
  BY DEF ResultStored
<1>1. /\ jobOf[b] \in Job
      /\ results \in [Job -> Nat \cup {NoOne}]
      /\ built \in [Call -> Nat]
      /\ pc \in [Call -> Phase]
  BY RunnerAssumption DEF Shape, TypeOK
<1>2. CASE RecordResult(b)
  BY <1>1, <1>2 DEF RecordResult
<1>3. CASE pc[b] = "receipt" /\ ~RecordResult(b)
  <2>1. results[jobOf[b]] = built[b]
    BY <1>3 DEF Turns, ResultStored
  <2>2. ASSUME NEW a \in Call, RecordResult(a) PROVE jobOf[a] # jobOf[b]
    <3>1. Busy(a) /\ Busy(b) /\ pc[a] # pc[b]
      BY <1>3, <2>2 DEF RecordResult, Busy
    <3> QED
      BY <3>1, OneAtATime DEF Turns
  <2>3. results'[jobOf[b]] = results[jobOf[b]]
    BY <1>1, <2>2, ResultsWritten
  <2>4. ASSUME NEW a \in Call, RecordResult(a) PROVE built'[b] = built[b]
    BY <1>1, <1>3, <2>4 DEF RecordResult
  <2>5. ASSUME NEW p \in Proc, Crash(p) PROVE built'[b] = built[b]
    BY <1>1, <2>5 DEF Crash
  <2>6. built'[b] = built[b]
    BY <2>4, <2>5 DEF Next, Attempt, vars, attempt, Declare, Post, Refuse, Submit,
       ReadDeclaration, ReadOwner, CheckRateLimit, InsertJob, Claim, StartTask,
       EndTask, RecordReceipt, Retire, Wake, Disconnect
  <2> QED
    BY <2>1, <2>3, <2>6
<1>4. CASE pc[b] # "receipt" /\ ~RecordResult(b)
  <2>1. Attempt(b)
    BY <1>4, PcMoves
  <2>2. ~(ReadDeclaration(b) \/ ReadOwner(b) \/ CheckRateLimit(b) \/ InsertJob(b))
    BY <1>1 DEF ReadDeclaration, ReadOwner, CheckRateLimit, InsertJob, End, ResumeAt
  <2>3. ~(Claim(b) \/ StartTask(b) \/ EndTask(b))
    BY <1>1 DEF Claim, StartTask, EndTask
  <2>4. ~(RecordReceipt(b) \/ Retire(b))
    BY <1>1, <1>4 DEF RecordReceipt, Retire, End, attempt
  <2> QED
    BY <1>4, <2>1, <2>2, <2>3, <2>4 DEF Attempt
<1> QED
  BY <1>2, <1>3, <1>4

\* How an attempt ended is written when it ends, and forgotten in a crash.
LEMMA EndWritten ==
  ASSUME Shape, [Next]_vars, NEW b \in Call, pc'[b] = "done", pc[b] # "done" \/ ended'[b] # ended[b]
  PROVE  /\ Busy(b)
         /\ ended'[b] = "answered" => RecordReceipt(b)
         /\ ended'[b] # "none"
<1>1. pc \in [Call -> Phase] /\ ended \in [Call -> Ending]
  BY DEF Shape, TypeOK
<1>2. ASSUME NEW a \in Call, ReadOwner(a)
      PROVE  a = b /\ pc[a] = "owner" /\ ended'[b] \in {"job_id_taken", "duplicate"}
  BY <1>1, <1>2 DEF ReadOwner, End, ResumeAt
<1>3. ASSUME NEW a \in Call, CheckRateLimit(a)
      PROVE  a = b /\ pc[a] = "rate" /\ ended'[b] = "rate_limited"
  BY <1>1, <1>3 DEF CheckRateLimit, End
<1>4. ASSUME NEW a \in Call, InsertJob(a)
      PROVE  a = b /\ pc[a] = "insert" /\ ended'[b] \in {"job_id_taken", "duplicate"}
  BY <1>1, <1>4 DEF InsertJob, End
<1>5. ASSUME NEW a \in Call, RecordReceipt(a)
      PROVE  a = b /\ pc[a] = "receipt" /\ ended'[b] = "answered"
  BY <1>1, <1>5 DEF RecordReceipt, End
<1>6. CASE pc'[b] # pc[b]
  <2>1. Attempt(b) /\ Busy(b)
    BY <1>6, PcMoves
  <2>2. ~(ReadDeclaration(b) \/ Claim(b) \/ StartTask(b) \/ EndTask(b) \/ RecordResult(b)
            \/ Retire(b))
    BY <1>1, <1>6 DEF ReadDeclaration, Claim, StartTask, EndTask, RecordResult, Retire, attempt
  <2> QED
    BY <1>2, <1>3, <1>4, <1>5, <2>1, <2>2 DEF Attempt
<1>7. CASE pc'[b] = pc[b] /\ ended'[b] # ended[b]
  <2>1. \E a \in Call : ReadOwner(a) \/ CheckRateLimit(a) \/ InsertJob(a) \/ RecordReceipt(a)
    <3>1. ASSUME NEW p \in Proc, Crash(p) PROVE FALSE
      BY <1>7, <3>1 DEF Crash
    <3>2. ~UNCHANGED ended
      BY <1>7
    <3> QED
      BY <3>1, <3>2 DEF Next, Attempt, vars, attempt, Declare, Post, Refuse, Submit,
         ReadDeclaration, Claim, StartTask, EndTask, RecordResult, Retire, Wake, Disconnect
  <2> QED
    BY <1>2, <1>3, <1>4, <1>5, <1>7, <2>1
<1> QED
  BY <1>6, <1>7

LEMMA AnsweredKeptStep ==
  ASSUME Shape, Turns, [Next]_vars
  PROVE  AnsweredKept'
<1> SUFFICES ASSUME NEW b \in Call, pc'[b] = "done", ended'[b] = "answered"
             PROVE  receipts'[jobOf[b]] = ReceiptOf(b)'
  BY DEF AnsweredKept
<1>1. /\ jobOf[b] \in Job
      /\ receipts \in [Job -> Receipt \cup {NoOne}]
  BY RunnerAssumption DEF Shape, TypeOK
<1>2. CASE pc[b] = "done" /\ ended[b] = "answered"
  <2>1. receipts[jobOf[b]] = ReceiptOf(b)
    BY <1>2 DEF Turns, AnsweredKept
  <2>2. receipts'[jobOf[b]] = receipts[jobOf[b]]
    BY <1>1, <2>1, ReceiptKept, ReceiptOfType DEF Shape
  <2>3. built'[b] = built[b] /\ internal'[b] = internal[b]
    BY <1>2, AttemptOwn DEF Busy
  <2> QED
    BY <2>1, <2>2, <2>3 DEF ReceiptOf
<1>3. CASE ~(pc[b] = "done" /\ ended[b] = "answered")
  <2>1. RecordReceipt(b)
    BY <1>3, EndWritten
  <2> QED
    BY <1>1, <2>1 DEF RecordReceipt, ReceiptOf
<1> QED
  BY <1>2, <1>3

LEMMA TurnsStep ==
  ASSUME JobInOneProcess, Shape, Ownership, Turns, [Next]_vars
  PROVE  Turns'
BY ExclusiveStep, FreshCallStep, OwnAwaitedStep, UnansweredStep, ResultStoredStep,
   AnsweredKeptStep DEF Turns
----------------------------------------------------------------------------
LEMMA FinishedStep ==
  ASSUME Shape, Ownership, Turns, FinishedIffReceipt, [Next]_vars
  PROVE  FinishedIffReceipt'
<1> DEFINE Finished(row) == row # NoOne /\ row.status \in {"completed", "failed"}
<1>1. /\ jobs \in [Job -> Row \cup {NoOne}]
      /\ receipts \in [Job -> Receipt \cup {NoOne}]
  BY DEF Shape, TypeOK
<1> SUFFICES ASSUME NEW j \in Job PROVE receipts'[j] # NoOne <=> Finished(jobs'[j])
  BY DEF FinishedIffReceipt
<1>2. receipts[j] # NoOne <=> Finished(jobs[j])
  BY DEF FinishedIffReceipt
<1>3. ASSUME NEW a \in Call, InsertJob(a)
      PROVE  receipts'[j] # NoOne <=> Finished(jobs'[j])
  <2>1. receipts' = receipts
    BY <1>3 DEF InsertJob
  <2>2. CASE jobs'[j] = jobs[j]
    BY <1>2, <2>1, <2>2
  <2>3. CASE jobs'[j] # jobs[j]
    <3>1. /\ jobs[j] = NoOne
          /\ jobs'[j] = [owner |-> requesterOf[a], internal |-> internal[a],
                         body |-> bodyOf[a], status |-> "validated"]
      BY <1>1, <1>3, <2>3 DEF InsertJob
    <3>2. receipts[j] = NoOne
      BY <1>2, <3>1
    <3> QED
      BY <2>1, <3>1, <3>2
  <2> QED
    BY <2>2, <2>3
<1>4. ASSUME NEW a \in Call, Claim(a)
      PROVE  receipts'[j] # NoOne <=> Finished(jobs'[j])
  <2>1. receipts' = receipts /\ receipts[jobOf[a]] = NoOne
    BY <1>4 DEF Claim, Turns, Unanswered, Holding
  <2>2. jobs'[j] = IF j = jobOf[a] THEN WithStatus(jobs[j], "claimed") ELSE jobs[j]
    BY <1>1, <1>4 DEF Claim
  <2> QED
    BY <1>2, <2>1, <2>2 DEF WithStatus
<1>5. ASSUME NEW a \in Call, RecordReceipt(a)
      PROVE  receipts'[j] # NoOne <=> Finished(jobs'[j])
  <2>1. ReceiptOf(a) # NoOne
    BY ReceiptOfType DEF Shape
  <2>2. PICK s \in {"completed", "failed"} :
          jobs' = [jobs EXCEPT ![jobOf[a]] = WithStatus(@, s)]
    BY <1>5 DEF RecordReceipt, FinishedStatus
  <2>3. receipts' = [receipts EXCEPT ![jobOf[a]] = ReceiptOf(a)]
    BY <1>5 DEF RecordReceipt
  <2>4. CASE j # jobOf[a]
    BY <1>1, <1>2, <2>2, <2>3, <2>4
  <2>5. CASE j = jobOf[a]
    <3>1. jobs[j] \in Row
      BY <1>1, <1>5, <2>5 DEF RecordReceipt, Shape, RowHeld, Holding, Owns
    <3>2. jobs'[j] = WithStatus(jobs[j], s) /\ receipts'[j] = ReceiptOf(a)
      BY <1>1, <2>2, <2>3, <2>5
    <3>3. jobs'[j] # NoOne
      BY <3>1, <3>2, WithStatusType, RunnerAssumption
    <3> QED
      BY <2>1, <3>2, <3>3 DEF WithStatus
  <2> QED
    BY <2>4, <2>5
<1>6. ASSUME UNCHANGED <<jobs, receipts>>
      PROVE  receipts'[j] # NoOne <=> Finished(jobs'[j])
  BY <1>2, <1>6
<1> QED
  BY <1>3, <1>4, <1>5, <1>6 DEF Next, Attempt, vars, ledger, Declare, Post, Refuse,
     Submit, ReadDeclaration, ReadOwner, CheckRateLimit, StartTask, EndTask,
     RecordResult, Retire, Wake, Disconnect, Crash

LEMMA ReceiptMatchesStep ==
  ASSUME Shape, Turns, ReceiptMatchesResult, [Next]_vars
  PROVE  ReceiptMatchesResult'
<1> SUFFICES ASSUME NEW j \in Job, receipts'[j] # NoOne
             PROVE  results'[j] = receipts'[j].id
  BY DEF ReceiptMatchesResult
<1>1. /\ results \in [Job -> Nat \cup {NoOne}]
      /\ receipts \in [Job -> Receipt \cup {NoOne}]
  BY DEF Shape, TypeOK
<1>2. ASSUME NEW a \in Call, RecordReceipt(a), jobOf[a] = j
      PROVE  results'[j] = receipts'[j].id
  <2>1. receipts'[j] = ReceiptOf(a) /\ results' = results
    BY <1>1, <1>2 DEF RecordReceipt
  <2>2. results[j] = built[a]
    BY <1>2 DEF RecordReceipt, Turns, ResultStored
  <2> QED
    BY <2>1, <2>2 DEF ReceiptOf
<1>3. CASE receipts'[j] = receipts[j]
  <2>1. results[j] = receipts[j].id
    BY <1>3 DEF ReceiptMatchesResult
  <2>2. ASSUME NEW a \in Call, RecordResult(a) PROVE jobOf[a] # j
    BY <1>3, <2>2 DEF RecordResult, Turns, Unanswered, Holding
  <2>3. results'[j] = results[j]
    BY <1>1, <2>2, ResultsWritten
  <2> QED
    BY <1>3, <2>1, <2>3
<1> QED
  BY <1>1, <1>2, <1>3, ReceiptsWritten

\* What a woken caller is handed is the receipt on record.
LEMMA HandedOver ==
  ASSUME Shape, Ownership, Turns, NEW c \in Call, Wake(c)
  PROVE  \/ UNCHANGED shown
         \/ /\ Owns(requesterOf[c], jobOf[c])
            /\ receipts[jobOf[c]] # NoOne
            /\ shown' = [shown EXCEPT ![c] = receipts[jobOf[c]]]
<1>1. /\ shown \in [Call -> Receipt \cup {NoOne}]
      /\ requesterOf[c] \in Requester /\ jobOf[c] \in Job
  BY RunnerAssumption DEF Shape, TypeOK
<1>2. PICK a \in Call : /\ a = joined[c]
                        /\ jobOf[a] = jobOf[c]
                        /\ requesterOf[a] = requesterOf[c]
  BY DEF Wake, Shape, TypeOK, WaitingJoined, Ownership, JoinedSame
<1>3. shown' = [shown EXCEPT ![c] =
                  IF ended[a] = "answered" THEN ReceiptOf(a)
                  ELSE IF ended[a] = "duplicate" /\ c \in Http
                       THEN receipts[jobOf[c]]
                       ELSE @]
  BY <1>2 DEF Wake
<1>4. CASE ended[a] = "answered"
  <2>1. receipts[jobOf[c]] = ReceiptOf(a)
    BY <1>2, <1>4 DEF Wake, Turns, AnsweredKept
  <2>2. ReceiptOf(a) # NoOne /\ ReceiptOf(a).requester = requesterOf[c]
    BY <1>2, ReceiptOfType DEF Shape
  <2>3. Owns(requesterOf[c], jobOf[c])
    BY <1>1, <2>1, <2>2 DEF Ownership, ReceiptOwned
  <2> QED
    BY <1>3, <1>4, <2>1, <2>2, <2>3
<1>5. CASE ended[a] = "duplicate" /\ c \in Http
  <2>1. Owns(requesterOf[c], jobOf[c]) /\ receipts[jobOf[c]] # NoOne
    BY <1>2, <1>5 DEF Ownership, DuplicateOwned
  <2> QED
    BY <1>3, <1>5, <2>1
<1>6. CASE ended[a] # "answered" /\ ~(ended[a] = "duplicate" /\ c \in Http)
  BY <1>1, <1>3, <1>6
<1> QED
  BY <1>4, <1>5, <1>6

LEMMA ShownWritten ==
  ASSUME [Next]_vars PROVE UNCHANGED shown \/ \E c \in Call : Wake(c)
BY DEF Next, Attempt, vars, caller, Declare, Post, Refuse, Submit, ReadDeclaration,
   ReadOwner, CheckRateLimit, InsertJob, Claim, StartTask, EndTask, RecordResult,
   RecordReceipt, Retire, Disconnect, Crash

LEMMA ShownStep ==
  ASSUME Shape, Ownership, Turns, ShownIsOnRecord, [Next]_vars
  PROVE  ShownIsOnRecord'
<1> SUFFICES ASSUME NEW b \in Call, shown'[b] # NoOne
             PROVE  receipts'[jobOf[b]] = shown'[b]
  BY DEF ShownIsOnRecord
<1>1. /\ jobOf[b] \in Job
      /\ shown \in [Call -> Receipt \cup {NoOne}]
  BY RunnerAssumption DEF Shape, TypeOK
<1>2. shown'[b] = receipts[jobOf[b]]
  <2>1. CASE shown'[b] = shown[b]
    BY <2>1 DEF ShownIsOnRecord
  <2>2. CASE shown'[b] # shown[b]
    BY <1>1, <2>2, ShownWritten, HandedOver
  <2> QED
    BY <2>1, <2>2
<1> QED
  BY <1>1, <1>2, ReceiptKept
----------------------------------------------------------------------------
Keeps == Shape /\ Ownership /\ Classification /\ Turns /\ Record

LEMMA KeepsInit == Init => Keeps
BY ShapeInit, OwnershipInit, ClassificationInit, TurnsInit DEF Keeps

LEMMA KeepsStep == ASSUME JobInOneProcess, Keeps, [Next]_vars PROVE Keeps'
<1> USE DEF Keeps, Record
<1>1. Shape' /\ Ownership'
  BY ShapeStep, ReceiptOwnedStep, DuplicateOwnedStep, InFlightJobStep,
     JoinedSameStep, OnlyItsRequesterStep DEF Ownership
<1>2. Classification'
  BY DeclaredKnownStep, AttemptKnownStep, AttemptInternalStep, OwnRowsStep,
     OwnReceiptsStep DEF Classification
<1>3. Turns'
  BY TurnsStep
<1>4. FinishedIffReceipt' /\ ReceiptMatchesResult' /\ ShownIsOnRecord'
  BY FinishedStep, ReceiptMatchesStep, ShownStep
<1> QED
  BY <1>1, <1>2, <1>3, <1>4

LEMMA KeepsAlways == ASSUME JobInOneProcess PROVE Spec => []Keeps
BY KeepsInit, KeepsStep, PTL DEF Spec

\* Marking the job finished and holding its receipt are one fact, through any
\* number of crashes.
THEOREM FinishedIsAnswered == ASSUME JobInOneProcess PROVE Spec => []FinishedIffReceipt
<1>1. Keeps => FinishedIffReceipt
  BY DEF Keeps, Record
<1> QED
  BY <1>1, KeepsAlways, PTL

\* The two rows of a finished job carry one attempt's signature.
THEOREM OneSignature == ASSUME JobInOneProcess PROVE Spec => []ReceiptMatchesResult
<1>1. Keeps => ReceiptMatchesResult
  BY DEF Keeps, Record
<1> QED
  BY <1>1, KeepsAlways, PTL

\* A receipt that was handed out stays on record as it was handed out.
THEOREM HandedOutIsOnRecord == ASSUME JobInOneProcess PROVE Spec => []ShownIsOnRecord
<1>1. Keeps => ShownIsOnRecord
  BY DEF Keeps, Record
<1> QED
  BY <1>1, KeepsAlways, PTL

----------------------------------------------------------------------------
(***************************************************************************)
(* Every step of the pipeline is a step of the contract, or none.          *)
(***************************************************************************)
ownerView == [j \in Job |-> IF jobs[j] = NoOne THEN NoOne ELSE jobs[j].owner]

LEMMA GrantStep ==
  ASSUME Shape, NEW a \in Call, InsertJob(a)
  PROVE  Contract!Grant(a) \/ UNCHANGED <<ownerView, receipts, shown>>
<1>1. UNCHANGED <<receipts, shown>>
  BY DEF InsertJob, caller
<1>2. CASE jobs' = jobs
  BY <1>1, <1>2 DEF ownerView
<1>3. CASE jobs' # jobs
  <2> DEFINE row == [owner |-> requesterOf[a], internal |-> internal[a],
                     body |-> bodyOf[a], status |-> "validated"]
  <2>1. jobs[jobOf[a]] = NoOne /\ jobs' = [jobs EXCEPT ![jobOf[a]] = row]
    BY <1>3 DEF InsertJob
  <2>2. row \in Row /\ row # NoOne /\ jobOf[a] \in Job
    BY RunnerAssumption DEF Row, Shape, TypeOK
  <2>3. jobs \in [Job -> Row \cup {NoOne}]
    BY DEF Shape, TypeOK
  <2>4. ownerView[jobOf[a]] = NoOne
    BY <2>1, <2>2 DEF ownerView
  <2>5. \A i \in Job : ownerView'[i] = IF i = jobOf[a] THEN requesterOf[a]
                                       ELSE ownerView[i]
    BY <2>1, <2>2, <2>3 DEF ownerView
  <2>6. ownerView' = [ownerView EXCEPT ![jobOf[a]] = requesterOf[a]]
    BY <2>2, <2>5 DEF ownerView
  <2> QED
    BY <1>1, <2>4, <2>6 DEF Contract!Grant, ownerView
<1> QED
  BY <1>2, <1>3

LEMMA AnswerStep ==
  ASSUME Shape, Turns, Classification, NEW a \in Call, RecordReceipt(a)
  PROVE  Contract!Answer(jobOf[a])
<1> DEFINE j == jobOf[a]
<1>1. /\ j \in Job /\ requesterOf[a] \in Requester
      /\ jobs \in [Job -> Row \cup {NoOne}]
      /\ receipts \in [Job -> Receipt \cup {NoOne}]
  BY RunnerAssumption DEF Shape, TypeOK
<1>2. pc[a] = "receipt" /\ receipts[j] = NoOne
  BY DEF RecordReceipt, Turns, Unanswered, Holding
<1>3. jobs[j] \in Row /\ jobs[j].owner = requesterOf[a]
  BY <1>1, <1>2 DEF Shape, RowHeld, Holding, Owns
<1>4. receipts' = [receipts EXCEPT ![j] = ReceiptOf(a)] /\ shown' = shown
  BY DEF RecordReceipt, caller
<1>5. receipts'[j] = ReceiptOf(a)
  BY <1>1, <1>4
<1>6. ownerView' = ownerView
  <2>1. PICK s \in {"completed", "failed"} :
          jobs' = [jobs EXCEPT ![j] = WithStatus(@, s)]
    BY DEF RecordReceipt, FinishedStatus
  <2>2. /\ WithStatus(jobs[j], s) # NoOne
        /\ WithStatus(jobs[j], s).owner = jobs[j].owner
    BY <1>3, WithStatusType, RunnerAssumption
  <2>3. \A i \in Job : ownerView'[i] = ownerView[i]
    BY <1>1, <1>3, <2>1, <2>2, RunnerAssumption DEF ownerView
  <2> QED
    BY <2>3 DEF ownerView
<1>7. ownerView[j] = requesterOf[a] /\ ownerView[j] # NoOne
  <2>1. jobs[j] # NoOne
    BY <1>3, RunnerAssumption
  <2>2. requesterOf[a] # NoOne
    BY <1>1, RunnerAssumption
  <2> QED
    BY <1>1, <1>3, <2>1, <2>2 DEF ownerView
<1>8. <<ownerView[j], j>> \in OwnTest => ReceiptOf(a).internal
  <2>1. ASSUME Pair(a) \in OwnTest PROVE internal[a]
    BY <1>2, <2>1 DEF Classification, AttemptInternal, Classified, Holding
  <2> QED
    BY <1>7, <2>1, ReceiptOfType DEF Pair, Shape
<1>9. /\ ReceiptOf(a) \in Receipt
      /\ ReceiptOf(a).requester = requesterOf[a]
  BY ReceiptOfType DEF Shape
<1>10. receipts' = [receipts EXCEPT ![j] = receipts'[j]]
  BY <1>4, <1>5
<1> QED
  BY <1>2, <1>4, <1>5, <1>6, <1>7, <1>8, <1>9, <1>10
     DEF Contract!Answer, Contract!Receipt, Receipt, ownerView

LEMMA ShowStep ==
  ASSUME Shape, Ownership, Turns, Record, NEW c \in Call, Wake(c)
  PROVE  Contract!Show(c) \/ UNCHANGED <<ownerView, receipts, shown>>
<1>1. UNCHANGED <<jobs, receipts>>
  BY DEF Wake
<1>2. ownerView' = ownerView
  BY <1>1 DEF ownerView
<1>3. /\ shown \in [Call -> Receipt \cup {NoOne}]
      /\ requesterOf[c] \in Requester /\ jobOf[c] \in Job
  BY RunnerAssumption DEF Shape, TypeOK
<1>4. CASE UNCHANGED shown
  BY <1>1, <1>2, <1>4
<1>5. CASE /\ Owns(requesterOf[c], jobOf[c])
           /\ receipts[jobOf[c]] # NoOne
           /\ shown' = [shown EXCEPT ![c] = receipts[jobOf[c]]]
  <2>1. ownerView[jobOf[c]] = requesterOf[c]
    BY <1>3, <1>5 DEF ownerView, Owns
  <2>2. CASE shown[c] = NoOne
    BY <1>1, <1>2, <1>5, <2>1, <2>2 DEF Contract!Show, ownerView
  <2>3. CASE shown[c] # NoOne
    <3>1. shown[c] = receipts[jobOf[c]]
      BY <2>3 DEF Record, ShownIsOnRecord
    <3>2. shown' = shown
      BY <1>3, <1>5, <3>1
    <3> QED
      BY <1>1, <1>2, <3>2
  <2> QED
    BY <2>2, <2>3
<1> QED
  BY <1>4, <1>5, HandedOver

\* A claim keeps the owner of the row; everything else leaves the three alone.
LEMMA QuietStep ==
  ASSUME Shape, [Next]_vars,
         ~ \E a \in Call : InsertJob(a) \/ RecordReceipt(a) \/ Wake(a)
  PROVE  UNCHANGED <<ownerView, receipts, shown>>
<1>1. ASSUME NEW a \in Call, Claim(a) PROVE UNCHANGED <<ownerView, receipts, shown>>
  <2>1. /\ jobs' = [jobs EXCEPT ![jobOf[a]] = WithStatus(@, "claimed")]
        /\ UNCHANGED <<receipts, shown>>
    BY <1>1 DEF Claim, caller
  <2>2. jobs \in [Job -> Row \cup {NoOne}] /\ jobs[jobOf[a]] \in Row
    BY <1>1, RunnerAssumption DEF Claim, Shape, TypeOK, RowHeld, Holding, Owns
  <2>3. /\ WithStatus(jobs[jobOf[a]], "claimed") # NoOne
        /\ WithStatus(jobs[jobOf[a]], "claimed").owner = jobs[jobOf[a]].owner
    BY <2>2, WithStatusType, RunnerAssumption
  <2>4. \A i \in Job : ownerView'[i] = ownerView[i]
    BY <2>1, <2>2, <2>3, RunnerAssumption DEF ownerView
  <2> QED
    BY <2>1, <2>4 DEF ownerView
<1>2. ASSUME UNCHANGED <<jobs, receipts, shown>>
      PROVE  UNCHANGED <<ownerView, receipts, shown>>
  BY <1>2 DEF ownerView
<1> QED
  BY <1>1, <1>2 DEF Next, Attempt, vars, ledger, caller, Declare, Post, Refuse, Submit,
     ReadDeclaration, ReadOwner, CheckRateLimit, StartTask, EndTask, RecordResult,
     Retire, Disconnect, Crash

LEMMA ContractStep ==
  ASSUME Keeps, [Next]_vars PROVE [Contract!Next]_(Contract!vars)
<1> SUFFICES Contract!Next \/ UNCHANGED <<ownerView, receipts, shown>>
  BY DEF Contract!vars, ownerView
<1> USE DEF Keeps
<1>1. ASSUME NEW a \in Call, InsertJob(a)
      PROVE  Contract!Next \/ UNCHANGED <<ownerView, receipts, shown>>
  BY <1>1, GrantStep DEF Contract!Next
<1>2. ASSUME NEW a \in Call, RecordReceipt(a) PROVE Contract!Next
  BY <1>2, AnswerStep, RunnerAssumption DEF Contract!Next
<1>3. ASSUME NEW c \in Call, Wake(c)
      PROVE  Contract!Next \/ UNCHANGED <<ownerView, receipts, shown>>
  BY <1>3, ShowStep DEF Contract!Next
<1> QED
  BY <1>1, <1>2, <1>3, QuietStep

\* Crashes, retries, joins and hang-ups included, the pipeline does nothing to
\* identifiers, answers and callers that the contract does not allow.
THEOREM ImplementsContract == ASSUME JobInOneProcess PROVE Spec => ContractSpec
<1>1. Init => Contract!Init
  BY DEF Init, Contract!Init
<1> QED
  BY <1>1, ContractStep, KeepsAlways, PTL DEF Spec, ContractSpec, Contract!Spec
----------------------------------------------------------------------------
(***************************************************************************)
(* The hourly limit, where a requester's calls all go to one process.      *)
(* Between the check and the insert there is no await: whoever is at       *)
(* either has the process to himself, and the count he read still holds.   *)
(***************************************************************************)
RequesterInOneProcess ==
  \A c, d \in Call : requesterOf[c] = requesterOf[d] => procOf[c] = procOf[d]

RowsOf(r) == {j \in Job : jobs[j] # NoOne /\ jobs[j].owner = r}

OneTurn ==
  \A a, b \in Call :
    procOf[a] = procOf[b] /\ pc[a] \in Synchronous /\ pc[b] \in Synchronous => a = b

RoomLeft ==
  \A a \in Call : pc[a] = "insert" /\ jobs[jobOf[a]] = NoOne => ~OverLimit(requesterOf[a])

WithinLimit == OneTurn /\ RoomLeft /\ WithinRateLimit

LEMMA LimitInit == Init => WithinLimit
<1> SUFFICES ASSUME Init PROVE WithinLimit
  OBVIOUS
<1>1. OneTurn /\ RoomLeft
  BY DEF Init, OneTurn, RoomLeft, Synchronous
<1>2. ASSUME NEW r \in Requester PROVE Cardinality(RowsOf(r)) <= JobsPerHour
  <2>1. RowsOf(r) = {}
    BY <1>2 DEF Init, RowsOf
  <2>2. Cardinality(RowsOf(r)) = 0
    BY <2>1, FS_EmptySet
  <2> QED
    BY <2>2, RunnerAssumption
<1> QED
  BY <1>1, <1>2 DEF WithinLimit, WithinRateLimit, RowsOf

\* A turn is taken only when nobody of the process has one.
LEMMA TakesTurn ==
  ASSUME Shape, [Next]_vars, NEW a \in Call,
         pc'[a] \in Synchronous, pc[a] \notin Synchronous
  PROVE  /\ LoopFree(procOf[a])
         /\ \A b \in Call : b # a => pc'[b] = pc[b]
<1> USE DEF Synchronous
<1>1. pc \in [Call -> Phase]
  BY DEF Shape, TypeOK
<1>2. Attempt(a)
  BY PcMoves
<1>3. ~(ReadOwner(a) \/ CheckRateLimit(a) \/ InsertJob(a) \/ Claim(a) \/ RecordReceipt(a))
  BY DEF ReadOwner, CheckRateLimit, InsertJob, Claim, RecordReceipt
<1>4. ~(StartTask(a) \/ EndTask(a) \/ Retire(a))
  BY <1>1 DEF StartTask, EndTask, Retire, attempt
<1>5. ReadDeclaration(a) \/ RecordResult(a)
  BY <1>2, <1>3, <1>4 DEF Attempt
<1> QED
  BY <1>1, <1>5 DEF ReadDeclaration, RecordResult

LEMMA OneTurnStep == ASSUME Shape, OneTurn, [Next]_vars PROVE OneTurn'
<1> SUFFICES ASSUME NEW a \in Call, NEW b \in Call, procOf[a] = procOf[b], a # b,
                    pc'[a] \in Synchronous, pc'[b] \in Synchronous
             PROVE  FALSE
  BY DEF OneTurn
<1>1. CASE pc[a] \in Synchronous /\ pc[b] \in Synchronous
  BY <1>1 DEF OneTurn
<1>2. CASE pc[a] \notin Synchronous
  BY <1>2, TakesTurn DEF LoopFree
<1>3. CASE pc[b] \notin Synchronous
  BY <1>3, TakesTurn DEF LoopFree
<1> QED
  BY <1>1, <1>2, <1>3

\* The rows of a requester grow by inserts in his name.
LEMMA OwnerRowsGrow ==
  ASSUME Shape, [Next]_vars, NEW r \in Requester
  PROVE  \/ RowsOf(r)' = RowsOf(r)
         \/ \E b \in Call : /\ InsertJob(b)
                            /\ requesterOf[b] = r
                            /\ jobs[jobOf[b]] = NoOne
                            /\ RowsOf(r)' = RowsOf(r) \cup {jobOf[b]}
<1>1. /\ jobs \in [Job -> Row \cup {NoOne}]
      /\ \A c \in Call : jobOf[c] \in Job /\ requesterOf[c] \in Requester
  BY RunnerAssumption DEF Shape, TypeOK
<1>2. ASSUME NEW b \in Call, InsertJob(b), jobs' # jobs
      PROVE  /\ jobs[jobOf[b]] = NoOne
             /\ RowsOf(r)' = IF requesterOf[b] = r THEN RowsOf(r) \cup {jobOf[b]} ELSE RowsOf(r)
  <2> DEFINE row == [owner |-> requesterOf[b], internal |-> internal[b],
                     body |-> bodyOf[b], status |-> "validated"]
  <2>1. jobs[jobOf[b]] = NoOne /\ jobs' = [jobs EXCEPT ![jobOf[b]] = row]
    BY <1>2 DEF InsertJob
  <2>2. row # NoOne /\ row.owner = requesterOf[b]
    BY <1>1, RunnerAssumption DEF Row, Shape, TypeOK
  <2> HIDE DEF row
  <2>3. \A j \in Job : jobs'[j] = IF j = jobOf[b] THEN row ELSE jobs[j]
    BY <1>1, <2>1
  <2>4. \A j \in Job : j \in RowsOf(r)' <=> \/ j \in RowsOf(r)
                                            \/ j = jobOf[b] /\ requesterOf[b] = r
    BY <2>1, <2>2, <2>3 DEF RowsOf
  <2>5. RowsOf(r) \subseteq Job /\ RowsOf(r)' \subseteq Job
    BY DEF RowsOf
  <2> QED
    BY <1>1, <2>1, <2>4, <2>5
<1>3. ASSUME NEW a \in Call, Claim(a) \/ RecordReceipt(a) PROVE RowsOf(r)' = RowsOf(r)
  <2>1. PICK s \in {"claimed", "completed", "failed"} :
          jobs' = [jobs EXCEPT ![jobOf[a]] = WithStatus(@, s)]
    BY <1>3 DEF Claim, RecordReceipt, FinishedStatus
  <2>2. jobs[jobOf[a]] \in Row
    BY <1>1, <1>3 DEF Claim, RecordReceipt, Shape, RowHeld, Holding, Owns
  <2>3. /\ WithStatus(jobs[jobOf[a]], s) # NoOne
        /\ WithStatus(jobs[jobOf[a]], s).owner = jobs[jobOf[a]].owner
    BY <2>2, WithStatusType, RunnerAssumption
  <2>4. \A j \in Job : j \in RowsOf(r)' <=> j \in RowsOf(r)
    BY <1>1, <2>1, <2>2, <2>3, RunnerAssumption DEF RowsOf
  <2> QED
    BY <2>4 DEF RowsOf
<1>4. ASSUME UNCHANGED jobs PROVE RowsOf(r)' = RowsOf(r)
  BY <1>4 DEF RowsOf
<1> QED
  BY <1>2, <1>3, <1>4 DEF Next, Attempt, vars, ledger, Declare, Post, Refuse, Submit,
     ReadDeclaration, ReadOwner, CheckRateLimit, StartTask, EndTask, RecordResult,
     Retire, Wake, Disconnect, Crash

LEMMA RoomLeftStep ==
  ASSUME RequesterInOneProcess, Shape, OneTurn, RoomLeft, [Next]_vars
  PROVE  RoomLeft'
<1> SUFFICES ASSUME NEW a \in Call, pc'[a] = "insert", jobs'[jobOf[a]] = NoOne
             PROVE  ~(Used(requesterOf[a])' >= JobsPerHour)
  BY DEF RoomLeft, OverLimit
<1> DEFINE r == requesterOf[a]
<1>1. /\ r \in Requester /\ jobOf[a] \in Job
      /\ jobs \in [Job -> Row \cup {NoOne}]
      /\ pc \in [Call -> Phase]
  BY RunnerAssumption DEF Shape, TypeOK
<1>2. jobs[jobOf[a]] = NoOne
  <2>1. ASSUME jobs[jobOf[a]] # NoOne PROVE FALSE
    <3>1. jobs[jobOf[a]].owner \in Requester
      BY <1>1, <2>1 DEF Row
    <3> QED
      BY <1>1, <2>1, <3>1, RowsStay DEF Owns
  <2> QED
    BY <2>1
<1>3. CASE pc[a] # "insert"
  <2>1. Attempt(a)
    BY <1>3, PcMoves
  <2>2. ~(ReadDeclaration(a) \/ InsertJob(a) \/ RecordReceipt(a) \/ Retire(a))
    BY <1>1, <1>3 DEF ReadDeclaration, InsertJob, RecordReceipt, Retire, End, attempt
  <2>3. ~(Claim(a) \/ StartTask(a) \/ EndTask(a) \/ RecordResult(a))
    BY <1>1 DEF Claim, StartTask, EndTask, RecordResult
  <2>4. ~ReadOwner(a)
    BY <1>1, <1>2 DEF ReadOwner, End
  <2>5. CheckRateLimit(a)
    BY <2>1, <2>2, <2>3, <2>4 DEF Attempt
  <2>6. ~OverLimit(r) /\ UNCHANGED <<jobs, rejections>>
    BY <1>1, <2>5 DEF CheckRateLimit, End, ledger
  <2> QED
    BY <2>6 DEF OverLimit, Used
<1>4. CASE pc[a] = "insert"
  <2>1. ~OverLimit(r)
    BY <1>2, <1>4 DEF RoomLeft
  <2>2. ASSUME NEW c \in Call, requesterOf[c] = r PROVE ~LoopFree(procOf[c])
    BY <1>4, <2>2 DEF LoopFree, Synchronous, RequesterInOneProcess
  <2>3. ASSUME NEW c \in Call, rejections'[r] # rejections[r] PROVE FALSE
    <3>1. rejections \in [Requester -> Nat]
      BY DEF Shape, TypeOK
    <3>2. ASSUME NEW d \in Call, Refuse(d) \/ Wake(d) PROVE rejections'[r] = rejections[r]
      <4>1. requesterOf[d] # r
        BY <2>2, <3>2 DEF Refuse, Wake
      <4>2. \/ rejections' = rejections
            \/ rejections' = [rejections EXCEPT ![requesterOf[d]] = @ + 1]
        <5>1. CASE Refuse(d)
          BY <5>1 DEF Refuse
        <5>2. CASE Wake(d)
          BY <5>2, Zenon DEF Wake
        <5> QED
          BY <3>2, <5>1, <5>2
      <4> QED
        BY <1>1, <3>1, <4>1, <4>2
    <3>3. ASSUME NEW d \in Call, Submit(d) PROVE rejections'[r] = rejections[r]
      <4>1. requesterOf[d] # r
        BY <2>2, <3>3 DEF Submit
      <4>2. \/ rejections' = rejections
            \/ rejections' = [rejections EXCEPT ![requesterOf[d]] = @ + 1]
        BY <3>3 DEF Submit
      <4> QED
        BY <1>1, <3>1, <4>1, <4>2
    <3>4. ASSUME UNCHANGED rejections PROVE rejections'[r] = rejections[r]
      BY <3>4
    <3> QED
      BY <2>3, <3>2, <3>3, <3>4 DEF Next, Attempt, vars, ledger, Declare, Post,
         ReadDeclaration, ReadOwner, CheckRateLimit, InsertJob, Claim, StartTask,
         EndTask, RecordResult, RecordReceipt, Retire, Disconnect, Crash
  <2>4. RowsOf(r)' = RowsOf(r)
    <3>1. ASSUME NEW b \in Call, InsertJob(b), requesterOf[b] = r PROVE FALSE
      <4>1. b = a
        BY <1>4, <3>1 DEF InsertJob, OneTurn, RequesterInOneProcess, Synchronous
      <4> QED
        BY <1>1, <1>2, <3>1, <4>1 DEF InsertJob
    <3> QED
      BY <1>1, <3>1, OwnerRowsGrow
  <2>5. Used(r)' = Used(r)
    BY <2>3, <2>4 DEF Used, RowsOf
  <2> QED
    BY <2>1, <2>5 DEF OverLimit
<1> QED
  BY <1>3, <1>4

LEMMA LimitStep ==
  ASSUME IsFiniteSet(Job), Shape, RoomLeft, WithinRateLimit, [Next]_vars
  PROVE  WithinRateLimit'
<1> SUFFICES ASSUME NEW r \in Requester PROVE Cardinality(RowsOf(r)') <= JobsPerHour
  BY DEF WithinRateLimit, RowsOf
<1>1. /\ Cardinality(RowsOf(r)) <= JobsPerHour
      /\ IsFiniteSet(RowsOf(r))
      /\ Cardinality(RowsOf(r)) \in Nat
  <2>1. RowsOf(r) \in SUBSET Job
    BY DEF RowsOf
  <2>2. IsFiniteSet(RowsOf(r))
    BY <2>1, FS_Subset
  <2>3. Cardinality(RowsOf(r)) \in Nat
    BY <2>2, FS_CardinalityType
  <2> QED
    BY <2>2, <2>3 DEF WithinRateLimit, RowsOf
<1>2. CASE RowsOf(r)' = RowsOf(r)
  BY <1>1, <1>2
<1>3. ASSUME NEW b \in Call, InsertJob(b), requesterOf[b] = r, jobs[jobOf[b]] = NoOne,
             RowsOf(r)' = RowsOf(r) \cup {jobOf[b]}
      PROVE  Cardinality(RowsOf(r)') <= JobsPerHour
  <2>1. Cardinality(RowsOf(r)) + rejections[r] < JobsPerHour
    <3>1. ~(Used(r) >= JobsPerHour)
      BY <1>3 DEF InsertJob, RoomLeft, OverLimit
    <3>2. Used(r) = Cardinality(RowsOf(r)) + rejections[r]
      BY DEF Used, RowsOf
    <3>3. rejections[r] \in Nat
      BY DEF Shape, TypeOK
    <3> QED
      BY <1>1, <3>1, <3>2, <3>3, RunnerAssumption
  <2>2. Cardinality(RowsOf(r)') <= Cardinality(RowsOf(r)) + 1
    <3>1. Cardinality(RowsOf(r) \cup {jobOf[b]}) =
            IF jobOf[b] \in RowsOf(r) THEN Cardinality(RowsOf(r)) ELSE Cardinality(RowsOf(r)) + 1
      BY <1>1, FS_AddElement
    <3> QED
      BY <1>1, <1>3, <3>1
  <2>3. rejections[r] \in Nat
    BY DEF Shape, TypeOK
  <2>4. Cardinality(RowsOf(r)') \in Nat
    BY <1>1, <1>3, FS_AddElement, FS_CardinalityType
  <2> QED
    BY <1>1, <2>1, <2>2, <2>3, <2>4, RunnerAssumption
<1> QED
  BY <1>2, <1>3, OwnerRowsGrow

\* Checking the limit and inserting the row are two calls on the ledger, and still no
\* requester gets more jobs out of an hour than the limit.
THEOREM LimitHolds ==
  ASSUME RequesterInOneProcess, IsFiniteSet(Job) PROVE Spec => []WithinRateLimit
<1>1. Init => Shape /\ WithinLimit
  BY ShapeInit, LimitInit
<1>2. Shape /\ WithinLimit /\ [Next]_vars => (Shape /\ WithinLimit)'
  BY ShapeStep, OneTurnStep, RoomLeftStep, LimitStep DEF WithinLimit
<1>3. Shape /\ WithinLimit => WithinRateLimit
  BY DEF WithinLimit
<1> QED
  BY <1>1, <1>2, <1>3, PTL DEF Spec
============================================================================
