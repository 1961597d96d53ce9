----------------------------- MODULE LaneProofs -----------------------------
(***************************************************************************)
(* What holds around JobRunner: of the mailbox lane and of the HTTP lane   *)
(* in front of it, and of the figures that are read from its ledger, for   *)
(* any calls, lines and nonces and any number of crashes and faults.       *)
(***************************************************************************)
EXTENDS HttpLane, MailboxLane, Figures, JobRunnerProofs

----------------------------------------------------------------------------
(***************************************************************************)
(* The mailbox lane.  It does three things to the runner that the runner   *)
(* does not do itself: a line is read again, an attempt raises, and the    *)
(* stored result is written once more.                                     *)
(***************************************************************************)
LEMMA OneProcess ==
  JobInOneProcess /\ Node \in Proc /\ \A c \in Call : procOf[c] = Node
<1>1. line[1] \in Mailbox
  BY MailboxAssumption
<1> QED
  BY <1>1, MailboxAssumption, RunnerAssumption DEF JobInOneProcess, Node, Mailbox

\* Lines are calls of neither other kind, and no two are the same.
LEMMA Lines ==
  /\ Len(line) \in Nat /\ DOMAIN line = 1 .. Len(line)
  /\ \A i \in DOMAIN line : line[i] \in Call /\ line[i] \notin Http /\ line[i] \notin SelfTest
  /\ \A i, k \in DOMAIN line : line[i] = line[k] => i = k
BY MailboxAssumption DEF Mailbox

MailTypes ==
  /\ cursor \in 0 .. Len(line)
  /\ step \in Step
  /\ room \in Seq(Entered)
  /\ resultSeq \in [Job -> 0 .. Len(room)]
  /\ replySeq \in [Job -> 0 .. Len(room)]
  /\ broken \subseteq Call
  /\ errors \in 0 .. MaxFaults

\* The handler waits for an attempt exactly where its line does, and no other line waits.
Placed ==
  /\ step # "idle" => cursor < Len(line)
  /\ step = "runner" => state[Current] = "waiting"
  /\ \A i \in DOMAIN line :
       /\ state[line[i]] = "waiting" => step = "runner" /\ i = cursor + 1
       /\ state[line[i]] # "gone"

\* A request not yet sent has no attempt, not even one that ended.
HttpFresh == \A c \in Http : state[c] = "unsent" => pc[c] = "off"

\* An attempt that ended in nothing had raised.
RaisedKnown == \A a \in Call : pc[a] = "done" /\ ended[a] = "none" => a \in broken

\* One attempt at most, of those not yet forgotten, answered a job.
Gave(a) == pc[a] = "done" /\ ended[a] = "answered"
OneAnswer == \A a, b \in Call : Gave(a) /\ Gave(b) /\ jobOf[a] = jobOf[b] => a = b

\* While the answer is posted the receipt on record is the awaited attempt's, which is
\* over and not begun anew.
Announcing ==
  step \in Kind =>
    /\ joined[Current] \in Call
    /\ pc[joined[Current]] = "done"
    /\ receipts[jobOf[Current]] # NoOne
    /\ receipts[jobOf[Current]].id = built[joined[Current]]

\* An answer that can still be awaited has not been posted and is not being posted.
Has(j) == \E k \in DOMAIN room : room[k].job = j
Awaitable(a) == \/ inFlight[Node][jobOf[a]] = a
                \/ step = "runner" /\ joined[Current] = a
Unposted ==
  \A a \in Call : Gave(a) /\ Awaitable(a) =>
    ~Has(jobOf[a]) /\ ~(step \in Kind /\ jobOf[Current] = jobOf[a])

\* Of the job that is being posted the room holds what comes earlier, and no more.
Before(kind) == CASE kind = "claim" -> {}
                  [] kind = "result" -> {"claim"}
                  [] kind = "receipt" -> {"claim", "result"}
InTurn ==
  step \in Kind =>
    \A k \in DOMAIN room : room[k].job = jobOf[Current] => room[k].kind \in Before(step)

OnRecord ==
  \A k \in DOMAIN room : /\ receipts[room[k].job] # NoOne
                         /\ receipts[room[k].job].id = room[k].id
SeqsNameTheirs ==
  \A j \in Job :
    /\ resultSeq[j] # 0 => room[resultSeq[j]].kind = "result" /\ room[resultSeq[j]].job = j
    /\ replySeq[j] # 0 => room[replySeq[j]].kind = "receipt" /\ room[replySeq[j]].job = j

\* What has been dealt with: PassedIsSettled, and the line in hand once it is handled.
Settled(c) == \/ c \in Unsigned \cup Malformed \cup broken
              \/ state[c] \in Refusal
              \/ receipts[jobOf[c]] # NoOne
HandledIsSettled == step \in {"settle"} \cup Kind => Settled(Current)

Handling == MailTypes /\ Placed /\ HttpFresh /\ RaisedKnown
Answering == OneAnswer /\ Announcing /\ Unposted
InRoom == InTurn /\ OnRecord /\ SeqsNameTheirs /\ RepliedOnce
Dealt == HandledIsSettled /\ PassedIsSettled
----------------------------------------------------------------------------
(* What a step of the mailbox lane does to the runner. *)

LEMMA CurrentLine ==
  ASSUME MailTypes, cursor < Len(line)
  PROVE  /\ cursor + 1 \in DOMAIN line /\ Current \in Call
         /\ Current \notin Http /\ Current \notin SelfTest
         /\ jobOf[Current] \in Job /\ requesterOf[Current] \in Requester
         /\ procOf[Current] = Node
<1>1. cursor \in Nat /\ cursor + 1 \in 1 .. Len(line)
  BY Lines DEF MailTypes
<1> QED
  BY <1>1, Lines, OneProcess, RunnerAssumption DEF Current

\* Writing the result again, with its number, leaves it as it is.
LEMMA PublishLeavesRunner ==
  ASSUME Keeps, MailTypes, Announcing, NEW kind \in Kind, PublishReply(kind)
  PROVE  UNCHANGED vars
<1>1. step = kind /\ cursor < Len(line)
  BY DEF PublishReply, At
<1>2. jobOf[Current] \in Job /\ results \in [Job -> Nat \cup {NoOne}]
  BY <1>1, CurrentLine DEF Keeps, Shape, TypeOK
<1>3. results[jobOf[Current]] = built[joined[Current]]
  BY <1>1, <1>2 DEF Announcing, Keeps, Record, ReceiptMatchesResult
<1>4. results' = results
  BY <1>2, <1>3 DEF PublishReply
<1> QED
  BY <1>4 DEF PublishReply, vars, ledger

LEMMA RunnerMoves ==
  ASSUME Keeps, MailTypes, Announcing, [MailboxNext]_mailboxVars
  PROVE  \/ [Next]_vars
         \/ ReadAgain
         \/ \E a \in Call : AttemptRaises(a)
         \/ Woken /\ RefusalLost(Current)
<1>1. CASE Take
  BY <1>1, CurrentLine DEF Take, At, Next
<1>2. CASE TakeRaises \/ MoveCursor \/ UNCHANGED mailboxVars
  BY <1>2 DEF TakeRaises, MoveCursor, mailboxVars
<1>3. CASE Woken
  BY <1>3, CurrentLine DEF Woken, At, Next
<1>4. CASE \E kind \in Kind : PublishReply(kind) \/ PublishRaises(kind)
  BY <1>4, PublishLeavesRunner DEF PublishRaises
<1>5. CASE Elsewhere
  BY <1>5 DEF Elsewhere, Next
<1>6. CASE MailboxCrash
  BY <1>6, OneProcess DEF MailboxCrash, Next
<1> QED
  BY <1>1, <1>2, <1>3, <1>4, <1>5, <1>6 DEF MailboxNext, Handler

\* Reading a line again undoes only what its caller knows.
LEMMA ReadAgainEffect ==
  ASSUME MailTypes, Placed, ReadAgain
  PROVE  /\ cursor < Len(line)
         /\ state[Current] \notin {"waiting", "gone"}
         /\ state' = [state EXCEPT ![Current] = "unsent"]
         /\ UNCHANGED <<ledger, inFlight, attempt, joined, shown, history, mailbox>>
<1>1. step = "idle" /\ cursor < Len(line)
  BY DEF ReadAgain, At
<1>2. state[Current] \notin {"waiting", "gone"}
  BY <1>1, CurrentLine DEF Placed, Current
<1> QED
  BY <1>1, <1>2 DEF ReadAgain

LEMMA ReadAgainKeeps ==
  ASSUME Keeps, MailTypes, Placed, ReadAgain
  PROVE  Keeps'
<1>1. /\ Current \in Call /\ Current \notin SelfTest
      /\ state[Current] \notin {"waiting", "gone"}
      /\ state' = [state EXCEPT ![Current] = "unsent"]
  BY ReadAgainEffect, CurrentLine
<1>2. UNCHANGED <<jobs, results, receipts, expected, rejections, inFlight, pc, declared,
                  internal, ended, built, joined, shown, minted, executions, crashes>>
  BY DEF ReadAgain, ledger, attempt, history
<1>3. Shape'
  BY <1>1, <1>2 DEF Keeps, Shape, TypeOK, CallState, RowHeld, Owns, WaitingJoined
<1>4. Ownership'
  BY <1>2 DEF Keeps, Ownership, ReceiptOwned, DuplicateOwned, InFlightJob, JoinedSame,
              OnlyItsRequester, Owns
<1>5. Classification'
  BY <1>1, <1>2, RunnerAssumption
     DEF Keeps, Shape, TypeOK, Classification, DeclaredKnown, AttemptKnown, AttemptInternal,
         OwnRows, OwnReceipts, Known, Owns, Pair
<1>6. FreshCall' /\ OwnAwaited'
  BY <1>1, <1>2 DEF Keeps, Shape, TypeOK, Turns, FreshCall, OwnAwaited, Busy
<1>7. Turns'
  BY <1>2, <1>6 DEF Keeps, Turns, Exclusive, Busy, Unanswered, ResultStored, AnsweredKept,
                    ReceiptOf
<1>8. Record'
  BY <1>2 DEF Keeps, Record, FinishedIffReceipt, ReceiptMatchesResult, ShownIsOnRecord
<1> QED
  BY <1>3, <1>4, <1>5, <1>7, <1>8 DEF Keeps

LEMMA RaiseEffect ==
  ASSUME NEW a \in Call, AttemptRaises(a)
  PROVE  /\ Busy(a)
         /\ pc' = [pc EXCEPT ![a] = "done"]
         /\ ended' = [ended EXCEPT ![a] = "none"]
         /\ UNCHANGED <<jobs, results, receipts, expected, rejections, inFlight, declared,
                        internal, built, state, joined, shown, minted, executions, crashes>>
         /\ UNCHANGED <<cursor, step, room, resultSeq, replySeq>>
         /\ broken' = broken \cup {a}
BY DEF AttemptRaises, End, Raises, Busy, ledger, caller, history

LEMMA RaiseKeeps ==
  ASSUME Keeps, NEW a \in Call, AttemptRaises(a)
  PROVE  Keeps'
<1> USE RaiseEffect
<1>1. /\ pc \in [Call -> Phase] /\ ended \in [Call -> Ending]
      /\ \A b \in Call : pc'[b] = IF b = a THEN "done" ELSE pc[b]
      /\ \A b \in Call : ended'[b] = IF b = a THEN "none" ELSE ended[b]
  BY DEF Keeps, Shape, TypeOK
<1>2. TypeOK'
  BY DEF Keeps, Shape, TypeOK, Phase, Ending
<1>3. Shape'
  BY <1>1, <1>2 DEF Keeps, Shape, RowHeld, Holding, Owns, WaitingJoined
<1>4. Ownership'
  BY <1>1 DEF Keeps, Ownership, ReceiptOwned, DuplicateOwned, InFlightJob, JoinedSame,
              OnlyItsRequester, Owns
<1>5. Classification'
  <2>1. pc[a] # "off"
    BY DEF Busy
  <2> QED
    BY <1>1, <2>1 DEF Keeps, Classification, DeclaredKnown, AttemptKnown, AttemptInternal,
       Classified, Holding, OwnRows, OwnReceipts, Known, Owns, Pair
<1>6. Exclusive' /\ FreshCall' /\ OwnAwaited'
  BY <1>1 DEF Keeps, Turns, Exclusive, FreshCall, OwnAwaited, Busy
<1>7. Unanswered' /\ ResultStored' /\ AnsweredKept'
  BY <1>1 DEF Keeps, Turns, Unanswered, Holding, ResultStored, AnsweredKept, ReceiptOf
<1>8. Record'
  BY DEF Keeps, Record, FinishedIffReceipt, ReceiptMatchesResult, ShownIsOnRecord
<1> QED
  BY <1>3, <1>4, <1>5, <1>6, <1>7, <1>8 DEF Keeps, Turns

\* A refusal that is not recorded settles its line all the same.
LEMMA RefusalLostKeeps ==
  ASSUME Keeps, MailTypes, cursor < Len(line), RefusalLost(Current)
  PROVE  Keeps'
<1>1. /\ Current \in Call /\ state[Current] = "waiting" /\ joined[Current] \in Call
      /\ ended[joined[Current]] \in Refusal /\ pc[joined[Current]] = "done"
      /\ state' = [state EXCEPT ![Current] = ended[joined[Current]]]
  BY CurrentLine DEF RefusalLost, Keeps, Shape, TypeOK, WaitingJoined
<1>2. UNCHANGED <<jobs, results, receipts, expected, rejections, inFlight, pc, declared,
                  internal, ended, built, joined, shown, minted, executions, crashes>>
  BY DEF RefusalLost, ledger, attempt, history
<1>3. Shape'
  BY <1>1, <1>2 DEF Keeps, Shape, TypeOK, CallState, Ending, Refusal, RowHeld, Owns,
                    WaitingJoined
<1>4. Ownership'
  BY <1>2 DEF Keeps, Ownership, ReceiptOwned, DuplicateOwned, InFlightJob, JoinedSame,
              OnlyItsRequester, Owns
<1>5. Classification'
  BY <1>1, <1>2, RunnerAssumption, CurrentLine
     DEF Keeps, Shape, TypeOK, Classification, DeclaredKnown, AttemptKnown, AttemptInternal,
         OwnRows, OwnReceipts, Known, Owns, Pair, Refusal
<1>6. FreshCall' /\ OwnAwaited'
  <2>1. ~Busy(Current)
    BY <1>1 DEF Keeps, Turns, OwnAwaited, Busy
  <2> QED
    BY <1>1, <1>2, <2>1 DEF Keeps, Shape, TypeOK, Turns, FreshCall, OwnAwaited, Busy, Refusal
<1>7. Turns'
  BY <1>2, <1>6 DEF Keeps, Turns, Exclusive, Busy, Unanswered, ResultStored, AnsweredKept,
                    ReceiptOf
<1>8. Record'
  BY <1>2 DEF Keeps, Record, FinishedIffReceipt, ReceiptMatchesResult, ShownIsOnRecord
<1> QED
  BY <1>3, <1>4, <1>5, <1>7, <1>8 DEF Keeps

LEMMA MailKeeps ==
  ASSUME Keeps, MailTypes, Placed, Announcing, [MailboxNext]_mailboxVars
  PROVE  Keeps'
<1>1. CASE Woken /\ RefusalLost(Current)
  BY <1>1, RefusalLostKeeps DEF Woken, At
<1> QED
  BY <1>1, RunnerMoves, OneProcess, KeepsStep, ReadAgainKeeps, RaiseKeeps

\* What is on record stays on record.
LEMMA MailReceiptKept ==
  ASSUME Keeps, MailTypes, Announcing, [MailboxNext]_mailboxVars,
         NEW j \in Job, receipts[j] # NoOne
  PROVE  receipts'[j] = receipts[j]
<1>1. CASE [Next]_vars
  BY <1>1, ReceiptKept DEF Keeps
<1>2. CASE ReadAgain
  BY <1>2 DEF ReadAgain, ledger
<1>3. CASE \E a \in Call : AttemptRaises(a)
  BY <1>3, RaiseEffect
<1>4. CASE RefusalLost(Current)
  BY <1>4 DEF RefusalLost, ledger
<1> QED
  BY <1>1, <1>2, <1>3, <1>4, RunnerMoves
----------------------------------------------------------------------------
(* What a step of the lane does to a line, and to the attempt it awaits. *)

LEMMA ElsewhereEffect ==
  ASSUME Keeps, Elsewhere
  PROVE  /\ [Next]_vars
         /\ UNCHANGED <<cursor, step, room, resultSeq, replySeq, broken, errors>>
         /\ \A i \in DOMAIN line : state'[line[i]] = state[line[i]]
                                   /\ joined'[line[i]] = joined[line[i]]
         /\ \A b \in Call : pc'[b] # pc[b] => Busy(b) \/ (b \in Http /\ state[b] = "unsent")
         /\ \A b \in Call : built'[b] # built[b] => Busy(b)
<1>1. [Next]_vars /\ UNCHANGED <<cursor, step, room, resultSeq, replySeq, broken, errors>>
  BY DEF Elsewhere, Next, mailbox
<1>2. /\ state \in [Call -> CallState] /\ joined \in [Call -> Call \cup {NoOne}]
      /\ built \in [Call -> Nat] /\ pc \in [Call -> Phase]
  BY DEF Keeps, Shape, TypeOK
<1>3. ASSUME NEW a \in Call, Attempt(a)
      PROVE  /\ UNCHANGED <<state, joined>>
             /\ \A b \in Call : pc'[b] # pc[b] => Busy(b)
             /\ \A b \in Call : built'[b] # built[b] => Busy(b)
  <2>1. UNCHANGED <<state, joined>>
    BY <1>3 DEF Attempt, caller, ReadDeclaration, ReadOwner, CheckRateLimit, InsertJob,
       Claim, StartTask, EndTask, RecordResult, RecordReceipt, Retire
  <2>2. ASSUME NEW b \in Call, pc'[b] # pc[b] PROVE Busy(b)
    <3>1. ASSUME Submit(b) PROVE FALSE
      <4>1. state' # state
        BY <1>2, <3>1, SubmitEffect DEF Submit, Arrived, Keeps
      <4> QED
        BY <2>1, <4>1
    <3>2. ASSUME NEW p \in Proc, Crash(p) PROVE FALSE
      <4>1. crashes' = crashes
        BY <1>3 DEF Attempt, history, ReadDeclaration, ReadOwner, CheckRateLimit, InsertJob,
           Claim, StartTask, EndTask, RecordResult, RecordReceipt, Retire
      <4>2. crashes' = crashes + 1 /\ crashes \in Nat
        BY <3>2, RunnerAssumption DEF Crash, Keeps, Shape, TypeOK
      <4> QED
        BY <4>1, <4>2
    <3> QED
      BY <1>1, <2>2, <3>1, <3>2, PcMoves DEF Keeps
  <2>3. ASSUME NEW b \in Call, built'[b] # built[b] PROVE Busy(b)
    <3>1. RecordResult(a)
      BY <1>3, <2>3 DEF Attempt, attempt, ReadDeclaration, ReadOwner, CheckRateLimit,
         InsertJob, Claim, StartTask, EndTask, RecordReceipt, Retire
    <3> QED
      BY <1>2, <2>3, <3>1 DEF RecordResult, Busy
  <2> QED
    BY <2>1, <2>2, <2>3
<1>4. ASSUME NEW c \in Call, c \in Http, Refuse(c) \/ Submit(c) \/ Wake(c) \/ Disconnect(c)
      PROVE  /\ \A b \in Call : b # c => state'[b] = state[b] /\ joined'[b] = joined[b]
             /\ \A b \in Call : pc'[b] # pc[b] => b = c /\ state[c] = "unsent"
             /\ built' = built
  <2>1. CASE Refuse(c)
    BY <1>2, <2>1 DEF Refuse, attempt
  <2>2. CASE Submit(c)
    <3>1. state[c] = "unsent"
      BY <1>4, <2>2, RunnerAssumption DEF Submit, Arrived
    <3> QED
      BY <1>2, <2>2, <3>1, SubmitEffect DEF Keeps, Submit
  <2>3. CASE Wake(c)
    BY <1>2, <2>3 DEF Wake, attempt
  <2>4. CASE Disconnect(c)
    BY <1>2, <2>4 DEF Disconnect, Shielded
  <2> QED
    BY <1>4, <2>1, <2>2, <2>3, <2>4
<1> QED
  BY <1>1, <1>3, <1>4, Lines DEF Elsewhere

\* A line's caller knows something new only when the line is handled, or the process dies.
LEMMA TakeEffect ==
  ASSUME Keeps, MailTypes, Take
  PROVE  /\ step = "idle" /\ cursor < Len(line)
         /\ \A b \in Call : b # Current => state'[b] = state[b] /\ joined'[b] = joined[b]
         /\ \/ /\ step' = "settle"
               /\ Current \in Unsigned \cup Malformed \/ state'[Current] \in Refusal
               /\ state'[Current] \notin {"waiting", "gone"} \/ state' = state
               /\ UNCHANGED <<pc, ended>>
            \/ /\ step' = "runner"
               /\ Submit(Current)
               /\ state'[Current] = "waiting"
         /\ UNCHANGED <<receipts, results, built, ended>>
         /\ UNCHANGED <<cursor, room, resultSeq, replySeq, broken, errors>>
<1>1. step = "idle" /\ cursor < Len(line)
  BY DEF Take, At
<1>2. Current \in Call
  BY <1>1, CurrentLine
<1>3. state \in [Call -> CallState] /\ joined \in [Call -> Call \cup {NoOne}]
  BY DEF Keeps, Shape, TypeOK
<1>4. UNCHANGED <<cursor, room, resultSeq, replySeq, broken, errors>>
  BY DEF Take, NoError
<1>5. CASE Current \in Unsigned
  BY <1>1, <1>4, <1>5 DEF Take, vars, ledger, attempt, caller
<1>6. CASE Refuse(Current) /\ step' = "settle"
  BY <1>1, <1>2, <1>3, <1>4, <1>6 DEF Refuse, attempt
<1>7. CASE /\ Submit(Current)
           /\ step' = IF state'[Current] = "waiting" THEN "runner" ELSE "settle"
  BY <1>1, <1>2, <1>3, <1>4, <1>7, SubmitEffect DEF Keeps, Submit, Refusal
<1> QED
  BY <1>5, <1>6, <1>7 DEF Take

LEMMA AfterIs ==
  After("claim") = "result" /\ After("result") = "receipt" /\ After("receipt") = "settle"
BY DEF After

\* The awaited attempt is over when the handler goes on, and how it ended is known.
LEMMA WokenEffect ==
  ASSUME Keeps, MailTypes, Placed, Woken
  PROVE  /\ step = "runner" /\ cursor < Len(line)
         /\ joined[Current] \in Call
         /\ jobOf[joined[Current]] = jobOf[Current]
         /\ requesterOf[joined[Current]] = requesterOf[Current]
         /\ pc[joined[Current]] = "done"
         /\ inFlight[Node][jobOf[Current]] # joined[Current]
         /\ state' = [state EXCEPT ![Current] = ended[joined[Current]]]
         /\ step' = IF ended[joined[Current]] = "answered" THEN "claim" ELSE "settle"
         /\ broken \subseteq broken'
         /\ broken' \subseteq broken \cup {Current}
         /\ joined[Current] \in broken => Current \in broken'
         /\ UNCHANGED errors \/ Raises(Current)
         /\ UNCHANGED <<jobs, results, receipts, inFlight, pc, ended, built, internal, joined>>
         /\ UNCHANGED <<cursor, room, resultSeq, replySeq>>
<1>1. step = "runner" /\ cursor < Len(line) /\ (Wake(Current) \/ RefusalLost(Current))
  BY DEF Woken, At
<1>2. Current \in Call /\ state[Current] = "waiting"
  BY <1>1, CurrentLine DEF Placed
<1>3. joined[Current] \in Call /\ joined[Current] # NoOne
  BY <1>2 DEF Keeps, Shape, TypeOK, WaitingJoined
<1>4. /\ jobOf[joined[Current]] = jobOf[Current]
      /\ requesterOf[joined[Current]] = requesterOf[Current]
  BY <1>2, <1>3 DEF Keeps, Ownership, JoinedSame
<1>5. CASE Wake(Current) /\ ~RefusalLost(Current)
  BY <1>1, <1>3, <1>4, <1>5 DEF Woken, Wake, HasOutcome, attempt
<1>6. CASE RefusalLost(Current)
  BY <1>1, <1>3, <1>4, <1>6
     DEF Woken, RefusalLost, Refusal, Handled, Raises, ledger, attempt, history
<1> QED
  BY <1>1, <1>5, <1>6

LEMMA CrashEffect ==
  ASSUME MailboxCrash
  PROVE  /\ step' = "idle"
         /\ \A b \in Call : /\ pc'[b] = "off" /\ ended'[b] = "none" /\ joined'[b] = NoOne
                            /\ state'[b] = AfterCrash(b)
         /\ UNCHANGED <<receipts, results>>
         /\ UNCHANGED <<cursor, room, resultSeq, replySeq, broken, errors>>
BY OneProcess DEF MailboxCrash, Crash, ledger

LEMMA PlacedStep ==
  ASSUME Keeps, MailTypes, Placed, [MailboxNext]_mailboxVars
  PROVE  Placed'
<1>1. /\ state \in [Call -> CallState] /\ cursor \in 0 .. Len(line) /\ Len(line) \in Nat
      /\ DOMAIN line = 1 .. Len(line)
      /\ \A i \in DOMAIN line : line[i] \in Call /\ line[i] \notin SelfTest
      /\ \A i, k \in DOMAIN line : line[i] = line[k] => i = k
  BY Lines DEF Keeps, Shape, TypeOK, MailTypes
<1> DEFINE Waits(i) == state[line[i]] = "waiting"
<1>2. ASSUME step # "runner", NEW i \in DOMAIN line
      PROVE  state[line[i]] \notin {"waiting", "gone"}
  BY <1>2 DEF Placed
<1>3. CASE Take
  <2>1. /\ step = "idle" /\ cursor < Len(line) /\ cursor' = cursor
        /\ step' \in {"settle", "runner"}
        /\ \A b \in Call : b # Current => state'[b] = state[b]
        /\ step' = "runner" <=> state'[Current] = "waiting"
        /\ state'[Current] # "gone"
    <3>1. Current \in Call /\ cursor + 1 \in DOMAIN line
      BY <1>3, TakeEffect, CurrentLine
    <3>2. state[Current] \notin {"waiting", "gone"}
      BY <1>2, <1>3, <3>1, TakeEffect DEF Current
    <3> QED
      BY <1>3, <3>2, TakeEffect
  <2>2. \A i \in DOMAIN line : i # cursor + 1 => state'[line[i]] = state[line[i]]
    BY <1>1, <2>1 DEF Current
  <2> QED
    BY <1>1, <1>2, <2>1, <2>2 DEF Placed, Current
<1>4. CASE \/ TakeRaises
           \/ PublishRaises("claim") \/ PublishRaises("result") \/ PublishRaises("receipt")
  BY <1>2, <1>4 DEF TakeRaises, PublishRaises, At, Handled, Placed, Current, vars, caller
<1>5. CASE ReadAgain
  <2>1. /\ step' = step /\ cursor' = cursor /\ step = "idle"
        /\ \A b \in Call : state'[b] \in {state[b], "unsent"}
    BY <1>1, <1>5, ReadAgainEffect DEF ReadAgain, At, mailbox
  <2> QED
    BY <1>1, <1>2, <2>1 DEF Placed
<1>6. CASE Woken
  <2>1. /\ step = "runner" /\ cursor < Len(line) /\ cursor' = cursor
        /\ step' \in {"claim", "settle"}
        /\ state'[Current] \notin {"waiting", "gone"}
        /\ \A b \in Call : b # Current => state'[b] = state[b]
    <3>1. Current \in Call /\ ended[joined[Current]] \notin {"waiting", "gone"}
      BY <1>6, WokenEffect, CurrentLine DEF Keeps, Shape, TypeOK, Ending, Refusal
    <3> QED
      BY <1>1, <1>6, <3>1, WokenEffect
  <2>2. \A i \in DOMAIN line : i # cursor + 1 => state'[line[i]] = state[line[i]]
    BY <1>1, <2>1 DEF Current
  <2>3. \A i \in DOMAIN line : state'[line[i]] \notin {"waiting", "gone"}
    BY <2>1, <2>2 DEF Placed, Current
  <2> QED
    BY <2>1, <2>3 DEF Placed
<1>7. ASSUME NEW kind \in Kind, PublishReply(kind) PROVE Placed'
  <2>1. /\ step \in Kind /\ step' \in Kind \cup {"settle"} /\ cursor < Len(line)
        /\ UNCHANGED <<state, cursor>>
    BY <1>7, AfterIs DEF PublishReply, At, Kind, caller
  <2> QED
    BY <1>2, <2>1 DEF Placed, Kind
<1>8. CASE MoveCursor
  <2>1. step = "settle" /\ step' = "idle" /\ UNCHANGED state
    BY <1>8 DEF MoveCursor, Settles, vars, caller
  <2> QED
    BY <1>2, <2>1 DEF Placed
<1>9. CASE Elsewhere
  <2>1. /\ UNCHANGED <<step, cursor>>
        /\ \A i \in DOMAIN line : state'[line[i]] = state[line[i]]
    BY <1>9, ElsewhereEffect
  <2>2. cursor < Len(line) => cursor + 1 \in DOMAIN line
    BY CurrentLine
  <2> QED
    BY <2>1, <2>2 DEF Placed, Current
<1>10. CASE MailboxCrash
  BY <1>1, <1>2, <1>10, CrashEffect DEF Placed, AfterCrash
<1>11. ASSUME NEW a \in Call, AttemptRaises(a) PROVE Placed'
  BY <1>11, RaiseEffect DEF Placed, Current
<1>12. CASE UNCHANGED mailboxVars
  BY <1>12 DEF mailboxVars, mailbox, vars, caller, Placed, Current
<1> QED
  BY <1>3, <1>4, <1>5, <1>6, <1>7, <1>8, <1>9, <1>10, <1>11, <1>12
     DEF MailboxNext, Handler, Kind

\* What a posted or half-posted message leaves.
LEMMA PostEffect ==
  ASSUME Keeps, MailTypes, Announcing, NEW kind \in Kind,
         PublishReply(kind) \/ PublishRaises(kind)
  PROVE  /\ step = kind /\ cursor < Len(line)
         /\ UNCHANGED <<vars, cursor>>
         /\ Copy(kind) \in Entered
         /\ room' = room \/ room' = Append(room, Copy(kind))
         /\ step' = "settle" \/ (PublishReply(kind) /\ step' = After(kind))
         /\ \/ resultSeq' = resultSeq
            \/ /\ kind = "result" /\ room' = Append(room, Copy(kind))
               /\ resultSeq' = [resultSeq EXCEPT ![jobOf[Current]] = Len(room')]
         /\ \/ replySeq' = replySeq
            \/ /\ kind = "receipt" /\ room' = Append(room, Copy(kind))
               /\ replySeq' = [replySeq EXCEPT ![jobOf[Current]] = Len(room')]
         /\ broken \subseteq broken' /\ broken' \subseteq broken \cup {Current}
         /\ errors' = errors \/ (errors' = errors + 1 /\ errors + crashes < MaxFaults)
<1>1. step = kind /\ cursor < Len(line)
  BY DEF PublishReply, PublishRaises, At
<1>2. UNCHANGED <<vars, cursor>>
  BY PublishLeavesRunner DEF PublishReply, PublishRaises
<1>3. Copy(kind) \in Entered
  BY <1>1, CurrentLine DEF Copy, Entered, Announcing, Keeps, Shape, TypeOK
<1>4. CASE PublishReply(kind)
  <2>1. /\ room' = room \/ room' = Append(room, Copy(kind))
        /\ \/ resultSeq' = resultSeq
           \/ /\ kind = "result" /\ room' = Append(room, Copy(kind))
              /\ resultSeq' = [resultSeq EXCEPT ![jobOf[Current]] = Len(room')]
        /\ \/ replySeq' = replySeq
           \/ /\ kind = "receipt" /\ room' = Append(room, Copy(kind))
              /\ replySeq' = [replySeq EXCEPT ![jobOf[Current]] = Len(room')]
    BY <1>4 DEF PublishReply, Number
  <2>2. step' = After(kind) /\ UNCHANGED <<broken, errors>>
    BY <1>4 DEF PublishReply, NoError
  <2> QED
    BY <1>1, <1>2, <1>3, <1>4, <2>1, <2>2
<1>5. CASE PublishRaises(kind)
  BY <1>1, <1>2, <1>3, <1>5 DEF PublishRaises, Raises, Handled
<1> QED
  BY <1>4, <1>5

LEMMA MailTypesStep ==
  ASSUME Keeps, MailTypes, Placed, Announcing, [MailboxNext]_mailboxVars
  PROVE  MailTypes'
<1>1. /\ Len(line) \in Nat /\ MaxFaults \in Nat /\ MaxCrashes \in Nat
      /\ cursor \in 0 .. Len(line) /\ errors \in 0 .. MaxFaults /\ crashes \in Nat
      /\ room \in Seq(Entered) /\ Len(room) \in Nat
      /\ resultSeq \in [Job -> 0 .. Len(room)]
      /\ replySeq \in [Job -> 0 .. Len(room)]
  BY Lines, MailboxAssumption, RunnerAssumption DEF MailTypes, Keeps, Shape, TypeOK
<1>2. ASSUME NEW c \in Call, Raises(c)
      PROVE  errors' \in 0 .. MaxFaults /\ broken' \subseteq Call
  BY <1>1, <1>2 DEF Raises, MailTypes
<1>3. CASE Take
  BY <1>3, TakeEffect DEF MailTypes, Step
<1>4. CASE TakeRaises
  <2>1. Current \in Call
    BY <1>4, CurrentLine DEF TakeRaises, At
  <2> QED
    BY <1>2, <1>4, <2>1 DEF TakeRaises, Handled, MailTypes, Step
<1>5. CASE ReadAgain
  BY <1>5, ReadAgainEffect DEF mailbox, MailTypes
<1>6. CASE Woken
  <2>1. Current \in Call
    BY <1>6, CurrentLine, WokenEffect
  <2>2. errors' \in 0 .. MaxFaults /\ broken' \subseteq Call
    BY <1>2, <1>6, <2>1, WokenEffect DEF MailTypes
  <2> QED
    BY <1>6, <2>1, <2>2, WokenEffect DEF MailTypes, Step, Kind
<1>7. ASSUME NEW kind \in Kind, PublishReply(kind) \/ PublishRaises(kind) PROVE MailTypes'
  <2>1. room' \in Seq(Entered) /\ Len(room') \in Nat /\ Len(room) <= Len(room')
    <3>1. PICK m \in Entered : room' = room \/ room' = Append(room, m)
      BY <1>7, PostEffect
    <3>2. CASE room' = room
      BY <1>1, <3>2
    <3>3. CASE room' = Append(room, m)
      <4>1. room' \in Seq(Entered) /\ Len(room') = Len(room) + 1
        BY <1>1, <3>3
      <4> QED
        BY <1>1, <4>1
    <3> QED
      BY <3>1, <3>2, <3>3
  <2>2. jobOf[Current] \in Job /\ Current \in Call
    BY <1>7, PostEffect, CurrentLine
  <2>3. resultSeq' \in [Job -> 0 .. Len(room')]
    <3>1. resultSeq' = resultSeq \/ resultSeq' = [resultSeq EXCEPT ![jobOf[Current]] = Len(room')]
      BY <1>7, PostEffect
    <3> QED
      BY <1>1, <2>1, <3>1
  <2>4. replySeq' \in [Job -> 0 .. Len(room')]
    <3>1. replySeq' = replySeq \/ replySeq' = [replySeq EXCEPT ![jobOf[Current]] = Len(room')]
      BY <1>7, PostEffect
    <3> QED
      BY <1>1, <2>1, <3>1
  <2>5. step' \in Step
    BY <1>7, PostEffect, AfterIs DEF Step, Kind
  <2>6. errors' \in 0 .. MaxFaults
    BY <1>1, <1>7, PostEffect
  <2>7. cursor' = cursor /\ broken' \subseteq Call
    BY <1>7, <2>2, PostEffect DEF MailTypes
  <2> QED
    BY <2>1, <2>3, <2>4, <2>5, <2>6, <2>7 DEF MailTypes
<1>8. CASE MoveCursor
  <2>1. cursor' \in 0 .. Len(line)
    BY <1>1, <1>8 DEF MoveCursor
  <2>2. Current \in Call
    BY <1>8, CurrentLine DEF MoveCursor
  <2> QED
    BY <1>2, <1>8, <2>1, <2>2 DEF MoveCursor, NoError, MailTypes, Step
<1>9. CASE Elsewhere
  BY <1>9, ElsewhereEffect DEF MailTypes
<1>10. CASE MailboxCrash
  BY <1>10, CrashEffect DEF MailTypes, Step
<1>11. ASSUME NEW a \in Call, AttemptRaises(a) PROVE MailTypes'
  BY <1>2, <1>11, RaiseEffect DEF AttemptRaises, MailTypes
<1>12. CASE UNCHANGED mailboxVars
  BY <1>12 DEF mailboxVars, mailbox, MailTypes
<1> QED
  BY <1>3, <1>4, <1>5, <1>6, <1>7, <1>8, <1>9, <1>10, <1>11, <1>12 DEF MailboxNext, Handler

LEMMA BrokenGrows ==
  ASSUME Keeps, MailTypes, Placed, Announcing, [MailboxNext]_mailboxVars
  PROVE  broken \subseteq broken'
<1>1. CASE Take \/ TakeRaises \/ MoveCursor \/ MailboxCrash \/ UNCHANGED mailboxVars
  BY <1>1 DEF Take, TakeRaises, MoveCursor, MailboxCrash, Raises, NoError, mailboxVars, mailbox
<1>2. CASE ReadAgain
  BY <1>2 DEF ReadAgain, mailbox
<1>3. CASE Woken
  BY <1>3, WokenEffect
<1>4. ASSUME NEW kind \in Kind, PublishReply(kind) \/ PublishRaises(kind)
      PROVE  broken \subseteq broken'
  BY <1>4, PostEffect
<1>5. CASE Elsewhere
  BY <1>5, ElsewhereEffect
<1>6. ASSUME NEW a \in Call, AttemptRaises(a) PROVE broken \subseteq broken'
  BY <1>6, RaiseEffect
<1> QED
  BY <1>1, <1>2, <1>3, <1>4, <1>5, <1>6 DEF MailboxNext, Handler

LEMMA HttpFreshStep ==
  ASSUME Keeps, MailTypes, Placed, Announcing, HttpFresh, [MailboxNext]_mailboxVars
  PROVE  HttpFresh'
<1> SUFFICES ASSUME NEW b \in Http, state'[b] = "unsent" PROVE pc'[b] = "off"
  BY DEF HttpFresh
<1>1. /\ b \in Call /\ b \notin SelfTest
      /\ state \in [Call -> CallState] /\ pc \in [Call -> Phase]
  BY RunnerAssumption DEF Keeps, Shape, TypeOK
<1>2. CASE [Next]_vars /\ state[b] = "unsent"
  <2>1. pc[b] = "off"
    BY <1>2 DEF HttpFresh
  <2>2. ~Submit(b)
    BY <1>1, SubmitEffect DEF Keeps
  <2> QED
    BY <1>1, <1>2, <2>1, <2>2, PcMoves DEF Keeps, Busy
<1>3. CASE [Next]_vars /\ state[b] # "unsent"
  <2>1. ASSUME NEW c \in Call,
               Declare(c) \/ Post(c) \/ Refuse(c) \/ Submit(c) \/ Disconnect(c) \/ Attempt(c)
        PROVE  FALSE
    <3>1. CASE Declare(c) \/ Post(c) \/ Refuse(c) \/ Disconnect(c)
      BY <1>1, <1>3, <3>1 DEF Declare, Post, Refuse, Disconnect
    <3>2. CASE Submit(c)
      BY <1>1, <1>3, <3>2, SubmitEffect DEF Keeps
    <3>3. CASE Attempt(c)
      BY <1>3, <3>3 DEF Attempt, caller, ReadDeclaration, ReadOwner, CheckRateLimit, InsertJob,
         Claim, StartTask, EndTask, RecordResult, RecordReceipt, Retire
    <3> QED
      BY <2>1, <3>1, <3>2, <3>3
  <2>2. ASSUME NEW c \in Call, Wake(c) PROVE FALSE
    <3>1. ended[joined[c]] # "unsent"
      BY <2>2 DEF Wake, Keeps, Shape, TypeOK, WaitingJoined, Ending, Refusal
    <3> QED
      BY <1>1, <1>3, <2>2, <3>1 DEF Wake
  <2>3. ASSUME NEW p \in Proc, Crash(p) PROVE pc'[b] = "off"
    BY <1>1, <1>3, <2>3 DEF Crash
  <2>4. ~UNCHANGED vars
    BY <1>3 DEF vars, caller
  <2> QED
    BY <1>3, <2>1, <2>2, <2>3, <2>4 DEF Next
<1>4. CASE ReadAgain
  <2>1. Current # b /\ UNCHANGED pc
    BY <1>4, ReadAgainEffect, CurrentLine DEF attempt
  <2> QED
    BY <1>1, <1>4, <2>1, ReadAgainEffect DEF HttpFresh
<1>5. ASSUME NEW a \in Call, AttemptRaises(a) PROVE pc'[b] = "off"
  BY <1>1, <1>5, RaiseEffect DEF HttpFresh, Busy
<1>6. CASE Woken /\ RefusalLost(Current)
  <2>1. Current \in Call /\ state \in [Call -> CallState] /\ b \in Call /\ state'[b] = "unsent"
    BY <1>1, <1>6, CurrentLine DEF Woken, At, Keeps, Shape, TypeOK
  <2>2. state[b] = "unsent" /\ UNCHANGED pc
    BY <1>6, <2>1 DEF RefusalLost, Refusal, attempt
  <2> QED
    BY <1>1, <2>2 DEF HttpFresh
<1> QED
  BY <1>2, <1>3, <1>4, <1>5, <1>6, RunnerMoves

LEMMA RaisedKnownStep ==
  ASSUME Keeps, MailTypes, Placed, Announcing, RaisedKnown, [MailboxNext]_mailboxVars
  PROVE  RaisedKnown'
<1> SUFFICES ASSUME NEW b \in Call, pc'[b] = "done", ended'[b] = "none" PROVE b \in broken'
  BY DEF RaisedKnown
<1>1. CASE [Next]_vars
  BY <1>1, EndWritten, BrokenGrows DEF Keeps, RaisedKnown
<1>2. CASE ReadAgain
  BY <1>2, BrokenGrows DEF ReadAgain, attempt, RaisedKnown
<1>3. ASSUME NEW a \in Call, AttemptRaises(a) PROVE b \in broken'
  <2>1. CASE a = b
    BY <1>3, <2>1, RaiseEffect
  <2>2. CASE a # b
    BY <1>3, <2>2, RaiseEffect DEF Keeps, Shape, TypeOK, RaisedKnown
  <2> QED
    BY <2>1, <2>2
<1>4. CASE RefusalLost(Current)
  BY <1>4, BrokenGrows DEF RefusalLost, attempt, RaisedKnown
<1> QED
  BY <1>1, <1>2, <1>3, <1>4, RunnerMoves

\* An attempt newly answered its job: it was alone at it, and nothing was on record.
LEMMA NewlyGave ==
  ASSUME Keeps, MailTypes, Placed, Announcing, [MailboxNext]_mailboxVars,
         NEW b \in Call, Gave(b)', ~Gave(b)
  PROVE  Elsewhere /\ RecordReceipt(b) /\ receipts[jobOf[b]] = NoOne
<1>1. ~ReadAgain /\ ~RefusalLost(Current)
  BY DEF ReadAgain, RefusalLost, attempt, Gave
<1>2. ASSUME NEW a \in Call, AttemptRaises(a) PROVE FALSE
  BY <1>2, RaiseEffect DEF Keeps, Shape, TypeOK, Gave
<1>3. [Next]_vars
  BY <1>1, <1>2, RunnerMoves
<1>4. RecordReceipt(b)
  BY <1>3, EndWritten DEF Keeps, Gave
<1>5. receipts[jobOf[b]] = NoOne
  BY <1>4 DEF RecordReceipt, Keeps, Turns, Unanswered, Holding
<1>6. pc'[b] # pc[b] /\ Busy(b) /\ pc'[b] = "done"
  BY <1>4 DEF RecordReceipt, Busy, Gave
<1>7. ~(Take \/ TakeRaises \/ Woken \/ MoveCursor \/ MailboxCrash \/ UNCHANGED mailboxVars)
  <2>1. ~(TakeRaises \/ Woken \/ MoveCursor \/ UNCHANGED mailboxVars)
    BY <1>6, WokenEffect DEF TakeRaises, MoveCursor, mailboxVars, vars, attempt
  <2>2. ~Take
    <3>1. ASSUME Take, Submit(Current) PROVE FALSE
      <4>1. Current \in Call
        BY <3>1, TakeEffect, CurrentLine
      <4> QED
        BY <1>6, <3>1, <4>1, SubmitEffect, TakenInIdle DEF Keeps, Shape, TypeOK
    <3> QED
      BY <1>6, <3>1, TakeEffect
  <2>3. ~MailboxCrash
    BY <1>6, CrashEffect
  <2> QED
    BY <2>1, <2>2, <2>3
<1>8. ASSUME NEW kind \in Kind, PublishReply(kind) \/ PublishRaises(kind) PROVE FALSE
  BY <1>6, <1>8, PostEffect DEF vars, attempt
<1> QED
  BY <1>1, <1>2, <1>4, <1>5, <1>7, <1>8 DEF MailboxNext, Handler

LEMMA OneAnswerStep ==
  ASSUME Keeps, MailTypes, Placed, Announcing, OneAnswer, [MailboxNext]_mailboxVars
  PROVE  OneAnswer'
<1> SUFFICES ASSUME NEW a \in Call, NEW b \in Call, Gave(a)', Gave(b)', jobOf[a] = jobOf[b]
             PROVE  a = b
  BY DEF OneAnswer, Gave
<1>1. \A c \in Call : Gave(c) => receipts[jobOf[c]] # NoOne
  BY ReceiptOfType DEF Gave, Keeps, Shape, Turns, AnsweredKept
<1>2. CASE Gave(a) /\ Gave(b)
  BY <1>2 DEF OneAnswer
<1>3. CASE ~Gave(a) /\ ~Gave(b)
  <2>1. pc[a] = "receipt" /\ pc[b] = "receipt"
    BY <1>3, NewlyGave DEF RecordReceipt
  <2> QED
    BY <2>1, OneAtATime, OneProcess DEF Busy, Keeps, Turns
<1>4. CASE Gave(a) /\ ~Gave(b)
  BY <1>1, <1>4, NewlyGave
<1>5. CASE ~Gave(a) /\ Gave(b)
  BY <1>1, <1>5, NewlyGave
<1> QED
  BY <1>2, <1>3, <1>4, <1>5
----------------------------------------------------------------------------
(* What is in the reply room. *)

LEMMA RoomShape ==
  ASSUME MailTypes
  PROVE  /\ Len(room) \in Nat /\ DOMAIN room = 1 .. Len(room)
         /\ \A k \in DOMAIN room : room[k].kind \in Kind /\ room[k].job \in Job
<1>1. Len(room) \in Nat /\ DOMAIN room = 1 .. Len(room)
  BY DEF MailTypes
<1>2. \A k \in DOMAIN room : room[k] \in Entered
  BY DEF MailTypes
<1> QED
  BY <1>1, <1>2 DEF Entered

LEMMA AnnouncingStep ==
  ASSUME Keeps, Handling, Announcing, [MailboxNext]_mailboxVars
  PROVE  Announcing'
<1> USE DEF Handling
<1>1. CASE Take \/ TakeRaises \/ MoveCursor \/ MailboxCrash
  <2>1. step' \notin Kind
    BY <1>1, TakeEffect, CrashEffect DEF TakeRaises, MoveCursor, Handled, Kind
  <2> QED
    BY <2>1 DEF Announcing
<1>2. CASE ReadAgain
  BY <1>2, ReadAgainEffect DEF ReadAgain, At, mailbox, Kind, Announcing
<1>3. CASE Woken
  <2>1. SUFFICES ASSUME ended[joined[Current]] = "answered" PROVE Announcing'
    BY <1>3, WokenEffect DEF Announcing, Kind
  <2>2. /\ joined[Current] \in Call /\ pc[joined[Current]] = "done"
        /\ jobOf[joined[Current]] = jobOf[Current]
        /\ UNCHANGED <<joined, pc, receipts, built, cursor>>
    BY <1>3, WokenEffect
  <2>3. receipts[jobOf[Current]] = ReceiptOf(joined[Current])
    BY <2>1, <2>2 DEF Keeps, Turns, AnsweredKept
  <2>4. receipts[jobOf[Current]] # NoOne
    BY <2>2, <2>3, ReceiptOfType DEF Keeps, Shape
  <2>5. receipts[jobOf[Current]].id = built[joined[Current]]
    BY <2>3 DEF ReceiptOf
  <2> QED
    BY <2>2, <2>4, <2>5 DEF Announcing, Current
<1>4. ASSUME NEW kind \in Kind, PublishReply(kind) \/ PublishRaises(kind) PROVE Announcing'
  <2>1. step \in Kind /\ UNCHANGED <<cursor, joined, pc, receipts, built>>
    BY <1>4, PostEffect DEF vars, ledger, attempt, caller
  <2> QED
    BY <2>1 DEF Announcing, Current
<1>5. CASE Elsewhere
  <2>1. SUFFICES ASSUME step \in Kind PROVE Announcing'
    BY <1>5, ElsewhereEffect DEF Announcing
  <2>2. cursor < Len(line) /\ cursor + 1 \in DOMAIN line /\ jobOf[Current] \in Job
    BY <2>1, CurrentLine DEF Placed, Kind
  <2>3. /\ joined[Current] \in Call /\ pc[joined[Current]] = "done"
        /\ receipts[jobOf[Current]] # NoOne
        /\ receipts[jobOf[Current]].id = built[joined[Current]]
    BY <2>1 DEF Announcing
  <2>4. joined'[Current] = joined[Current] /\ Current' = Current /\ step' = step
    BY <1>5, <2>2, ElsewhereEffect DEF Current
  <2>5. pc'[joined[Current]] = "done" /\ built'[joined[Current]] = built[joined[Current]]
    BY <1>5, <2>3, ElsewhereEffect DEF HttpFresh, Busy
  <2>6. receipts'[jobOf[Current]] = receipts[jobOf[Current]]
    BY <2>2, <2>3, MailReceiptKept
  <2> QED
    BY <2>3, <2>4, <2>5, <2>6 DEF Announcing
<1>6. ASSUME NEW a \in Call, AttemptRaises(a) PROVE Announcing'
  <2>1. pc \in [Call -> Phase] /\ UNCHANGED <<step, cursor, joined, receipts, built>>
    BY <1>6, RaiseEffect DEF Keeps, Shape, TypeOK
  <2>2. step \in Kind => joined[Current] # a
    BY <1>6, RaiseEffect DEF Announcing, Busy
  <2> QED
    BY <1>6, <2>1, <2>2, RaiseEffect DEF Announcing, Current
<1>7. CASE UNCHANGED mailboxVars
  BY <1>7 DEF mailboxVars, mailbox, vars, ledger, attempt, caller, Announcing, Current
<1> QED
  BY <1>1, <1>2, <1>3, <1>4, <1>5, <1>6, <1>7 DEF MailboxNext, Handler

\* What is in the room afterwards was there, or has just been posted.
LEMMA RoomGrows ==
  ASSUME Keeps, Handling, Announcing, [MailboxNext]_mailboxVars
  PROVE  \/ room' = room
         \/ /\ step \in Kind /\ Copy(step) \in Entered /\ cursor < Len(line)
            /\ PublishReply(step) \/ PublishRaises(step)
            /\ DOMAIN room' = 1 .. Len(room) + 1
            /\ Len(room') = Len(room) + 1
            /\ room'[Len(room) + 1] = Copy(step)
            /\ \A k \in DOMAIN room : room'[k] = room[k]
<1> USE DEF Handling
<1>1. ASSUME NEW kind \in Kind, PublishReply(kind) \/ PublishRaises(kind), room' # room
      PROVE  /\ step = kind /\ Copy(step) \in Entered /\ cursor < Len(line)
             /\ DOMAIN room' = 1 .. Len(room) + 1
             /\ Len(room') = Len(room) + 1
             /\ room'[Len(room) + 1] = Copy(step)
             /\ \A k \in DOMAIN room : room'[k] = room[k]
  <2>1. /\ step = kind /\ Copy(step) \in Entered /\ cursor < Len(line)
        /\ room' = Append(room, Copy(step))
    BY <1>1, PostEffect
  <2>2. PICK m \in Entered : m = Copy(step)
    BY <2>1
  <2>3. room \in Seq(Entered) /\ room' = Append(room, m)
    BY <2>1, <2>2 DEF MailTypes
  <2>4. /\ DOMAIN room' = 1 .. Len(room) + 1
        /\ Len(room') = Len(room) + 1
        /\ room'[Len(room) + 1] = m
        /\ \A k \in DOMAIN room : room'[k] = room[k]
    BY <2>3
  <2> QED
    BY <2>1, <2>2, <2>4
<1>2. CASE Take \/ TakeRaises \/ MoveCursor \/ MailboxCrash \/ UNCHANGED mailboxVars
  BY <1>2 DEF Take, TakeRaises, MoveCursor, MailboxCrash, mailboxVars, mailbox
<1>3. CASE ReadAgain
  BY <1>3 DEF ReadAgain, mailbox
<1>4. CASE Woken \/ Elsewhere
  BY <1>4, WokenEffect, ElsewhereEffect
<1>5. ASSUME NEW a \in Call, AttemptRaises(a) PROVE room' = room
  BY <1>5, RaiseEffect
<1> QED
  BY <1>1, <1>2, <1>3, <1>4, <1>5 DEF MailboxNext, Handler

\* So a job has something there that had not only while it is being posted.
LEMMA HasNew ==
  ASSUME Keeps, Handling, Announcing, [MailboxNext]_mailboxVars, NEW j, Has(j)', ~Has(j)
  PROVE  step \in Kind /\ j = jobOf[Current]
<1>1. Len(room) \in Nat /\ DOMAIN room = 1 .. Len(room)
  BY DEF Handling, MailTypes
<1>2. PICK k \in DOMAIN room' : room'[k].job = j
  BY DEF Has
<1> QED
  BY <1>1, <1>2, RoomGrows DEF Has, Copy

LEMMA OnRecordStep ==
  ASSUME Keeps, Handling, Announcing, OnRecord, [MailboxNext]_mailboxVars
  PROVE  OnRecord'
<1> SUFFICES ASSUME NEW k \in DOMAIN room'
             PROVE  /\ receipts'[room'[k].job] # NoOne
                    /\ receipts'[room'[k].job].id = room'[k].id
  BY DEF OnRecord
<1>1. /\ Len(room) \in Nat /\ DOMAIN room = 1 .. Len(room)
      /\ \A i \in DOMAIN room : room[i].job \in Job
  BY RoomShape DEF Handling
<1>2. CASE k \in DOMAIN room /\ room'[k] = room[k]
  BY <1>1, <1>2, MailReceiptKept DEF Handling, OnRecord
<1>3. CASE step \in Kind /\ cursor < Len(line) /\ room'[k] = Copy(step)
  <2>1. room'[k].job = jobOf[Current] /\ room'[k].id = built[joined[Current]]
    BY <1>3 DEF Copy
  <2>2. jobOf[Current] \in Job
    BY <1>3, CurrentLine DEF Handling
  <2> QED
    BY <1>3, <2>1, <2>2, MailReceiptKept DEF Handling, Announcing
<1> QED
  BY <1>1, <1>2, <1>3, RoomGrows

LEMMA BeforeIs ==
  /\ Before("claim") = {} /\ Before("result") = {"claim"}
  /\ Before("receipt") = {"claim", "result"}
BY DEF Before

LEMMA InTurnStep ==
  ASSUME Keeps, Handling, Announcing, Unposted, InTurn, [MailboxNext]_mailboxVars
  PROVE  InTurn'
<1> USE DEF Handling
<1> SUFFICES ASSUME step' \in Kind, NEW k \in DOMAIN room', room'[k].job = jobOf[Current']
             PROVE  room'[k].kind \in Before(step')
  BY DEF InTurn
<1>1. Len(room) \in Nat /\ DOMAIN room = 1 .. Len(room)
  BY RoomShape
<1>2. ~(Take \/ TakeRaises \/ MoveCursor \/ MailboxCrash)
  BY TakeEffect, CrashEffect DEF TakeRaises, MoveCursor, Handled, Kind
<1>3. CASE Woken
  <2>1. /\ Gave(joined[Current]) /\ joined[Current] \in Call /\ step = "runner"
        /\ jobOf[joined[Current]] = jobOf[Current]
        /\ UNCHANGED <<cursor, room>>
    BY <1>3, WokenEffect DEF Gave, Kind
  <2>2. ~Has(jobOf[Current])
    BY <2>1 DEF Unposted, Awaitable
  <2> QED
    BY <2>1, <2>2 DEF Has, Current
<1>4. ASSUME NEW kind \in Kind, PublishReply(kind) \/ PublishRaises(kind)
      PROVE  room'[k].kind \in Before(step')
  <2>1. step = kind /\ step' = After(kind) /\ cursor' = cursor
    BY <1>4, PostEffect DEF Kind
  <2>2. \/ k \in DOMAIN room /\ room'[k] = room[k]
        \/ room'[k] = Copy(kind)
    BY <1>1, <2>1, RoomGrows
  <2>3. room'[k].kind \in Before(kind) \cup {kind}
    BY <1>4, <2>1, <2>2 DEF InTurn, Copy, Current
  <2> QED
    BY <2>1, <2>3, AfterIs, BeforeIs DEF Kind
<1>5. CASE Elsewhere \/ ReadAgain \/ (\E a \in Call : AttemptRaises(a)) \/ UNCHANGED mailboxVars
  <2>1. UNCHANGED <<step, cursor, room>>
    BY <1>5, ElsewhereEffect, RaiseEffect DEF ReadAgain, mailboxVars, mailbox
  <2> QED
    BY <2>1 DEF InTurn, Current
<1> QED
  BY <1>2, <1>3, <1>4, <1>5 DEF MailboxNext, Handler

LEMMA RepliedOnceStep ==
  ASSUME Keeps, Handling, Announcing, InTurn, RepliedOnce, [MailboxNext]_mailboxVars
  PROVE  RepliedOnce'
<1> DEFINE Sequence == {<<"claim", "result">>, <<"claim", "receipt">>, <<"result", "receipt">>}
<1> SUFFICES ASSUME NEW k \in DOMAIN room', NEW l \in DOMAIN room', k < l,
                    room'[k].job = room'[l].job
             PROVE  <<room'[k].kind, room'[l].kind>> \in Sequence
  BY DEF RepliedOnce
<1>1. Len(room) \in Nat /\ DOMAIN room = 1 .. Len(room)
  BY RoomShape DEF Handling
<1>2. CASE k \in DOMAIN room /\ l \in DOMAIN room /\ room'[k] = room[k] /\ room'[l] = room[l]
  BY <1>2 DEF RepliedOnce
<1>3. CASE /\ k \in DOMAIN room /\ room'[k] = room[k]
           /\ step \in Kind /\ room'[l] = Copy(step)
  <2>1. room[k].job = jobOf[Current] /\ room'[l].kind = step
    BY <1>3 DEF Copy
  <2>2. room[k].kind \in Before(step)
    BY <1>3, <2>1 DEF InTurn
  <2> QED
    BY <1>3, <2>1, <2>2, BeforeIs DEF Kind
<1>4. CASE room' = room
  BY <1>2, <1>4
<1>5. CASE room' # room
  <2>1. /\ step \in Kind /\ DOMAIN room' = 1 .. Len(room) + 1
        /\ room'[Len(room) + 1] = Copy(step)
        /\ \A i \in DOMAIN room : room'[i] = room[i]
    BY <1>5, RoomGrows
  <2>2. k \in DOMAIN room
    BY <1>1, <2>1
  <2>3. l \in DOMAIN room \/ l = Len(room) + 1
    BY <1>1, <2>1
  <2> QED
    BY <1>2, <1>3, <2>1, <2>2, <2>3
<1> QED
  BY <1>4, <1>5

LEMMA SeqsGrow ==
  ASSUME Keeps, Handling, Announcing, [MailboxNext]_mailboxVars
  PROVE  /\ \/ resultSeq' = resultSeq
            \/ /\ step = "result" /\ room' = Append(room, Copy(step))
               /\ resultSeq' = [resultSeq EXCEPT ![jobOf[Current]] = Len(room')]
         /\ \/ replySeq' = replySeq
            \/ /\ step = "receipt" /\ room' = Append(room, Copy(step))
               /\ replySeq' = [replySeq EXCEPT ![jobOf[Current]] = Len(room')]
<1> USE DEF Handling
<1>1. ASSUME NEW kind \in Kind, PublishReply(kind) \/ PublishRaises(kind)
      PROVE  /\ \/ resultSeq' = resultSeq
                \/ /\ step = "result" /\ room' = Append(room, Copy(step))
                   /\ resultSeq' = [resultSeq EXCEPT ![jobOf[Current]] = Len(room')]
             /\ \/ replySeq' = replySeq
                \/ /\ step = "receipt" /\ room' = Append(room, Copy(step))
                   /\ replySeq' = [replySeq EXCEPT ![jobOf[Current]] = Len(room')]
  BY <1>1, PostEffect
<1>2. CASE Take \/ TakeRaises \/ MoveCursor \/ MailboxCrash \/ UNCHANGED mailboxVars
  BY <1>2 DEF Take, TakeRaises, MoveCursor, MailboxCrash, mailboxVars, mailbox
<1>3. CASE ReadAgain
  BY <1>3 DEF ReadAgain, mailbox
<1>4. CASE Woken \/ Elsewhere
  BY <1>4, WokenEffect, ElsewhereEffect
<1>5. ASSUME NEW a \in Call, AttemptRaises(a) PROVE UNCHANGED <<resultSeq, replySeq>>
  BY <1>5, RaiseEffect
<1> QED
  BY <1>1, <1>2, <1>3, <1>4, <1>5 DEF MailboxNext, Handler

LEMMA SeqsNameTheirsStep ==
  ASSUME Keeps, Handling, Announcing, SeqsNameTheirs, [MailboxNext]_mailboxVars
  PROVE  SeqsNameTheirs'
<1> SUFFICES ASSUME NEW j \in Job
             PROVE  /\ resultSeq'[j] # 0 => /\ room'[resultSeq'[j]].kind = "result"
                                            /\ room'[resultSeq'[j]].job = j
                    /\ replySeq'[j] # 0 => /\ room'[replySeq'[j]].kind = "receipt"
                                           /\ room'[replySeq'[j]].job = j
  BY DEF SeqsNameTheirs
<1>1. /\ Len(room) \in Nat /\ DOMAIN room = 1 .. Len(room)
      /\ resultSeq \in [Job -> 0 .. Len(room)] /\ replySeq \in [Job -> 0 .. Len(room)]
  BY RoomShape DEF Handling, MailTypes
<1>2. \A k \in DOMAIN room : room'[k] = room[k]
  BY RoomGrows
<1>3. step \in Kind /\ room' = Append(room, Copy(step)) =>
        Len(room') = Len(room) + 1 /\ room'[Len(room) + 1] = Copy(step)
  <2>1. ASSUME room' = room, room' = Append(room, Copy(step)), step \in Kind PROVE FALSE
    <3>1. PICK m : m = Copy(step)
      OBVIOUS
    <3>2. Len(Append(room, m)) = Len(room) + 1
      BY DEF Handling, MailTypes
    <3> QED
      BY <1>1, <2>1, <3>1, <3>2
  <2> QED
    BY <2>1, RoomGrows
<1>4. ASSUME resultSeq'[j] # 0
      PROVE  room'[resultSeq'[j]].kind = "result" /\ room'[resultSeq'[j]].job = j
  <2>1. CASE resultSeq'[j] = resultSeq[j]
    <3>1. room[resultSeq[j]].kind = "result" /\ room[resultSeq[j]].job = j
      BY <1>4, <2>1 DEF SeqsNameTheirs
    <3>2. resultSeq[j] \in DOMAIN room
      BY <1>1, <1>4, <2>1
    <3> QED
      BY <1>2, <2>1, <3>1, <3>2
  <2>2. CASE resultSeq'[j] # resultSeq[j]
    <3>1. /\ step = "result" /\ room' = Append(room, Copy(step)) /\ j = jobOf[Current]
          /\ resultSeq'[j] = Len(room')
      BY <1>1, <2>2, SeqsGrow
    <3>2. Copy(step).kind = "result" /\ Copy(step).job = j
      BY <3>1 DEF Copy
    <3>3. room'[resultSeq'[j]] = Copy(step)
      BY <1>3, <3>1 DEF Kind
    <3> QED
      BY <3>2, <3>3
  <2> QED
    BY <2>1, <2>2
<1>5. ASSUME replySeq'[j] # 0
      PROVE  room'[replySeq'[j]].kind = "receipt" /\ room'[replySeq'[j]].job = j
  <2>1. CASE replySeq'[j] = replySeq[j]
    <3>1. room[replySeq[j]].kind = "receipt" /\ room[replySeq[j]].job = j
      BY <1>5, <2>1 DEF SeqsNameTheirs
    <3>2. replySeq[j] \in DOMAIN room
      BY <1>1, <1>5, <2>1
    <3> QED
      BY <1>2, <2>1, <3>1, <3>2
  <2>2. CASE replySeq'[j] # replySeq[j]
    <3>1. /\ step = "receipt" /\ room' = Append(room, Copy(step)) /\ j = jobOf[Current]
          /\ replySeq'[j] = Len(room')
      BY <1>1, <2>2, SeqsGrow
    <3>2. Copy(step).kind = "receipt" /\ Copy(step).job = j
      BY <3>1 DEF Copy
    <3>3. room'[replySeq'[j]] = Copy(step)
      BY <1>3, <3>1 DEF Kind
    <3> QED
      BY <3>2, <3>3
  <2> QED
    BY <2>1, <2>2
<1> QED
  BY <1>4, <1>5
----------------------------------------------------------------------------
(* An answer is posted by one handler only. *)

\* The handler waits on, or has just begun to; it posts on, or has just been woken.
LEMMA WhereFrom ==
  ASSUME Keeps, Handling, Announcing, [MailboxNext]_mailboxVars
  PROVE  /\ step' = "runner" =>
              Take \/ (step = "runner" /\ cursor' = cursor /\ joined'[Current] = joined[Current])
         /\ step' \in Kind => Woken \/ (step \in Kind /\ cursor' = cursor)
<1> USE DEF Handling
<1>1. CASE Take
  BY <1>1, TakeEffect DEF Kind
<1>2. CASE TakeRaises \/ MoveCursor \/ MailboxCrash
  BY <1>2, CrashEffect DEF TakeRaises, MoveCursor, Handled, Kind
<1>3. CASE ReadAgain \/ UNCHANGED mailboxVars
  BY <1>3 DEF ReadAgain, mailboxVars, mailbox, vars, caller
<1>4. CASE Woken
  BY <1>4, WokenEffect
<1>5. ASSUME NEW kind \in Kind, PublishReply(kind) \/ PublishRaises(kind)
      PROVE  step \in Kind /\ cursor' = cursor /\ step' # "runner"
  BY <1>5, PostEffect, AfterIs DEF Kind
<1>6. CASE Elsewhere
  <2>1. step = "runner" => cursor + 1 \in DOMAIN line
    BY CurrentLine DEF Placed
  <2> QED
    BY <1>6, <2>1, ElsewhereEffect DEF Current
<1>7. ASSUME NEW a \in Call, AttemptRaises(a) PROVE UNCHANGED <<step, cursor, joined>>
  BY <1>7, RaiseEffect
<1> QED
  BY <1>1, <1>2, <1>3, <1>4, <1>5, <1>6, <1>7 DEF MailboxNext, Handler

\* An attempt is filed when its call is taken in, before it begins.
LEMMA FiledAtStart ==
  ASSUME Shape, [Next]_vars, NEW p \in Proc, NEW j \in Job, NEW a \in Call,
         inFlight'[p][j] = a
  PROVE  inFlight[p][j] = a \/ pc'[a] = "start"
<1>1. inFlight \in [Proc -> [Job -> Call \cup {NoOne}]] /\ NoOne \notin Call
  BY RunnerAssumption DEF Shape, TypeOK
<1>2. ASSUME NEW c \in Call, Submit(c) PROVE inFlight[p][j] = a \/ pc'[a] = "start"
  <2>1. procOf[c] \in Proc /\ jobOf[c] \in Job /\ pc \in [Call -> Phase]
    BY RunnerAssumption DEF Shape, TypeOK
  <2>2. \/ inFlight' = inFlight
        \/ /\ inFlight' = [inFlight EXCEPT ![procOf[c]][jobOf[c]] = c]
           /\ pc' = [pc EXCEPT ![c] = "start"]
    BY <1>2 DEF Submit
  <2> QED
    BY <1>1, <2>1, <2>2
<1>3. ASSUME NEW c \in Call, Retire(c) PROVE inFlight[p][j] = a
  <2>1. inFlight' = [inFlight EXCEPT ![procOf[c]][jobOf[c]] = NoOne]
    BY <1>3 DEF Retire
  <2> QED
    BY <1>1, <2>1
<1>4. ASSUME NEW q \in Proc, Crash(q) PROVE inFlight[p][j] = a
  <2>1. inFlight' = [inFlight EXCEPT ![q] = [i \in Job |-> NoOne]]
    BY <1>4 DEF Crash
  <2> QED
    BY <1>1, <2>1
<1>5. ASSUME NEW c \in Call,
             \/ Declare(c) \/ Post(c) \/ Refuse(c) \/ Wake(c) \/ Disconnect(c)
             \/ ReadDeclaration(c) \/ ReadOwner(c) \/ CheckRateLimit(c) \/ InsertJob(c)
             \/ Claim(c) \/ StartTask(c) \/ EndTask(c) \/ RecordResult(c) \/ RecordReceipt(c)
      PROVE  inFlight' = inFlight
  BY <1>5 DEF Declare, Post, Refuse, Wake, Disconnect, ReadDeclaration, ReadOwner,
     CheckRateLimit, InsertJob, Claim, StartTask, EndTask, RecordResult, RecordReceipt
<1> QED
  BY <1>2, <1>3, <1>4, <1>5 DEF Next, Attempt, vars

\* An answer that can be awaited could be, or has only just been given.
LEMMA AwaitableBefore ==
  ASSUME Keeps, Handling, Announcing, [MailboxNext]_mailboxVars,
         NEW a \in Call, Gave(a)', Awaitable(a)'
  PROVE  Awaitable(a)
<1> USE DEF Handling
<1>1. jobOf[a] \in Job /\ Node \in Proc /\ pc'[a] # "start"
  BY OneProcess, RunnerAssumption DEF Gave
<1>2. ASSUME inFlight'[Node][jobOf[a]] = a PROVE inFlight[Node][jobOf[a]] = a
  <2>1. CASE [Next]_vars
    BY <1>1, <1>2, <2>1, FiledAtStart DEF Keeps
  <2>2. CASE ReadAgain \/ \E b \in Call : AttemptRaises(b)
    BY <1>2, <2>2, RaiseEffect DEF ReadAgain
  <2>3. CASE RefusalLost(Current)
    BY <1>2, <2>3 DEF RefusalLost
  <2> QED
    BY <2>1, <2>2, <2>3, RunnerMoves
<1>3. CASE Take /\ step' = "runner" /\ joined'[Current'] = a
  <2>1. /\ Submit(Current) /\ state'[Current] = "waiting" /\ Current' = Current
        /\ Current \in Call /\ procOf[Current] = Node /\ jobOf[Current] \in Job
    BY <1>3, TakeEffect, CurrentLine DEF Current
  <2>2. /\ state \in [Call -> CallState] /\ joined \in [Call -> Call \cup {NoOne}]
        /\ pc \in [Call -> Phase]
    BY DEF Keeps, Shape, TypeOK
  <2>3. inFlight[Node][jobOf[Current]] = a
    BY <1>1, <1>3, <2>1, <2>2, SubmitEffect DEF Keeps
  <2>4. jobOf[a] = jobOf[Current]
    BY <1>1, <2>1, <2>3, RunnerAssumption DEF Keeps, Ownership, InFlightJob
  <2> QED
    BY <2>3, <2>4 DEF Awaitable
<1>4. CASE step = "runner" /\ cursor' = cursor /\ joined'[Current] = joined[Current]
           /\ joined'[Current'] = a
  BY <1>4 DEF Awaitable, Current
<1> QED
  BY <1>2, <1>3, <1>4, WhereFrom DEF Awaitable

LEMMA UnpostedStep ==
  ASSUME Keeps, Handling, Answering, OnRecord, [MailboxNext]_mailboxVars
  PROVE  Unposted'
<1> USE DEF Handling, Answering
<1> SUFFICES ASSUME NEW a \in Call, Gave(a)', Awaitable(a)'
             PROVE  ~Has(jobOf[a])' /\ ~(step' \in Kind /\ jobOf[Current'] = jobOf[a])
  BY DEF Unposted
<1>1. Awaitable(a)
  BY AwaitableBefore
<1>2. CASE ~Gave(a)
  <2>1. Elsewhere /\ receipts[jobOf[a]] = NoOne
    BY <1>2, NewlyGave
  <2>2. ~Has(jobOf[a]) /\ ~(step \in Kind /\ jobOf[Current] = jobOf[a])
    BY <2>1 DEF Has, OnRecord, Announcing
  <2>3. UNCHANGED <<cursor, step, room>>
    BY <2>1, ElsewhereEffect
  <2> QED
    BY <2>2, <2>3 DEF Has, Current
<1>3. CASE Gave(a)
  <2>1. ~Has(jobOf[a]) /\ ~(step \in Kind /\ jobOf[Current] = jobOf[a])
    BY <1>1, <1>3 DEF Unposted
  <2>2. ~Has(jobOf[a])'
    BY <2>1, HasNew
  <2>3. ASSUME Woken, step' \in Kind, jobOf[Current'] = jobOf[a] PROVE FALSE
    <3>1. /\ joined[Current] \in Call /\ Gave(joined[Current])
          /\ jobOf[joined[Current]] = jobOf[Current] /\ Current' = Current
          /\ inFlight[Node][jobOf[Current]] # joined[Current]
          /\ inFlight' = inFlight /\ step' = "claim"
      BY <2>3, WokenEffect DEF Gave, Kind, Current
    <3>2. joined[Current] = a
      BY <1>3, <2>3, <3>1 DEF OneAnswer
    <3> QED
      BY <2>3, <3>1, <3>2 DEF Awaitable
  <2> QED
    BY <2>1, <2>2, <2>3, WhereFrom DEF Current
<1> QED
  BY <1>2, <1>3
----------------------------------------------------------------------------
(* Nothing is passed that was not dealt with. *)

\* What the caller of a line knows changes when the line is handled, or in a crash.
LEMMA LineKnows ==
  ASSUME Keeps, Handling, Announcing, [MailboxNext]_mailboxVars,
         NEW i \in DOMAIN line, state'[line[i]] # state[line[i]]
  PROVE  \/ i = cursor + 1 /\ (Take \/ ReadAgain \/ Woken)
         \/ state[line[i]] \notin Refusal
<1> USE DEF Handling
<1>1. line[i] \in Call /\ \A k \in DOMAIN line : line[k] = line[i] => k = i
  BY Lines
<1>2. state \in [Call -> CallState]
  BY DEF Keeps, Shape, TypeOK
<1>3. ASSUME Take \/ ReadAgain \/ Woken PROVE i = cursor + 1
  <2>1. cursor + 1 \in DOMAIN line /\ Current \in Call
    BY <1>3, TakeEffect, ReadAgainEffect, WokenEffect, CurrentLine
  <2>2. line[i] = Current
    BY <1>1, <1>2, <1>3, <2>1, TakeEffect, ReadAgainEffect, WokenEffect
  <2> QED
    BY <1>1, <2>1, <2>2 DEF Current
<1>4. CASE TakeRaises \/ MoveCursor \/ UNCHANGED mailboxVars
  BY <1>4 DEF TakeRaises, MoveCursor, mailboxVars, vars, caller
<1>5. ASSUME NEW kind \in Kind, PublishReply(kind) \/ PublishRaises(kind) PROVE FALSE
  BY <1>5, PostEffect DEF vars, caller
<1>6. CASE Elsewhere
  BY <1>6, ElsewhereEffect
<1>7. CASE MailboxCrash
  BY <1>1, <1>7, CrashEffect DEF AfterCrash, Refusal
<1>8. ASSUME NEW a \in Call, AttemptRaises(a) PROVE FALSE
  BY <1>8, RaiseEffect
<1> QED
  BY <1>3, <1>4, <1>5, <1>6, <1>7, <1>8 DEF MailboxNext, Handler

LEMMA SettledStays ==
  ASSUME Keeps, Handling, Announcing, [MailboxNext]_mailboxVars,
         NEW i \in DOMAIN line, Settled(line[i]),
         i = cursor + 1 => ~(Take \/ ReadAgain \/ Woken)
  PROVE  Settled(line[i])'
<1>1. broken \subseteq broken' /\ jobOf[line[i]] \in Job
  BY BrokenGrows, Lines, RunnerAssumption DEF Handling
<1>2. CASE line[i] \in Unsigned \cup Malformed \cup broken
  BY <1>1, <1>2 DEF Settled
<1>3. CASE state[line[i]] \in Refusal
  BY <1>3, LineKnows DEF Settled
<1>4. CASE receipts[jobOf[line[i]]] # NoOne
  BY <1>1, <1>4, MailReceiptKept DEF Settled, Handling
<1> QED
  BY <1>2, <1>3, <1>4 DEF Settled

\* However the awaited attempt ended, the line is dealt with when its handler goes on.
LEMMA WokenSettles ==
  ASSUME Keeps, Handling, Announcing, Woken
  PROVE  Settled(Current)'
<1> DEFINE a == joined[Current]
<1>1. /\ cursor < Len(line) /\ a \in Call /\ pc[a] = "done" /\ cursor' = cursor
      /\ jobOf[a] = jobOf[Current]
      /\ state' = [state EXCEPT ![Current] = ended[a]]
      /\ a \in broken => Current \in broken'
      /\ receipts' = receipts
  BY WokenEffect DEF Handling
<1>2. /\ Current \in Call /\ Current' = Current
      /\ state \in [Call -> CallState] /\ ended[a] \in Ending
  BY <1>1, CurrentLine DEF Handling, Keeps, Shape, TypeOK, Current
<1>3. CASE ended[a] = "none"
  <2>1. a \in broken
    BY <1>1, <1>3 DEF Handling, RaisedKnown
  <2> QED
    BY <1>1, <1>2, <2>1 DEF Settled
<1>4. CASE ended[a] = "answered"
  <2>1. receipts[jobOf[a]] # NoOne
    BY <1>1, <1>4, ReceiptOfType DEF Keeps, Shape, Turns, AnsweredKept
  <2> QED
    BY <1>1, <1>2, <2>1 DEF Settled
<1>5. CASE ended[a] = "duplicate"
  <2>1. receipts[jobOf[a]] # NoOne
    BY <1>1, <1>5 DEF Keeps, Ownership, DuplicateOwned
  <2> QED
    BY <1>1, <1>2, <2>1 DEF Settled
<1>6. CASE ended[a] \in Refusal
  BY <1>1, <1>2, <1>6 DEF Settled
<1> QED
  BY <1>2, <1>3, <1>4, <1>5, <1>6 DEF Ending

LEMMA HandledIsSettledStep ==
  ASSUME Keeps, Handling, Announcing, HandledIsSettled, [MailboxNext]_mailboxVars
  PROVE  HandledIsSettled'
<1> USE DEF Handling
<1> SUFFICES ASSUME step' \in {"settle"} \cup Kind PROVE Settled(Current)'
  BY DEF HandledIsSettled
<1>1. CASE Take
  <2>1. Current' = Current
    BY <1>1, TakeEffect DEF Current
  <2> QED
    BY <1>1, <2>1, TakeEffect DEF Settled, Kind
<1>2. CASE TakeRaises
  BY <1>2 DEF TakeRaises, Raises, Settled, Current
<1>3. CASE Woken
  BY <1>3, WokenSettles
<1>4. CASE ReadAgain \/ MoveCursor \/ MailboxCrash
  BY <1>4, CrashEffect DEF ReadAgain, At, mailbox, MoveCursor, Kind
<1>5. ASSUME step \in {"settle"} \cup Kind, cursor' = cursor, ~(Take \/ ReadAgain \/ Woken)
      PROVE  Settled(Current)'
  <2>1. cursor + 1 \in DOMAIN line /\ Current' = Current
    BY <1>5, CurrentLine DEF Placed, Kind, Current
  <2>2. Settled(line[cursor + 1])
    BY <1>5 DEF HandledIsSettled, Current
  <2>3. Settled(line[cursor + 1])'
    BY <1>5, <2>1, <2>2, SettledStays
  <2> QED
    BY <1>5, <2>3 DEF Current
<1>6. ASSUME NEW kind \in Kind, PublishReply(kind) \/ PublishRaises(kind)
      PROVE  step \in Kind /\ cursor' = cursor
  BY <1>6, PostEffect
<1>7. CASE Elsewhere \/ (\E a \in Call : AttemptRaises(a)) \/ UNCHANGED mailboxVars
  <2>1. UNCHANGED <<step, cursor>>
    BY <1>7, ElsewhereEffect, RaiseEffect DEF mailboxVars, mailbox
  <2> QED
    BY <1>1, <1>3, <1>4, <1>5, <2>1
<1> QED
  BY <1>1, <1>2, <1>3, <1>4, <1>5, <1>6, <1>7 DEF MailboxNext, Handler

LEMMA PassedIsSettledStep ==
  ASSUME Keeps, Handling, Announcing, HandledIsSettled, PassedIsSettled,
         [MailboxNext]_mailboxVars
  PROVE  PassedIsSettled'
<1> USE DEF Handling
<1>1. /\ Len(line) \in Nat /\ DOMAIN line = 1 .. Len(line) /\ cursor \in 0 .. Len(line)
      /\ \A i \in 1 .. cursor : Settled(line[i])
  BY Lines DEF MailTypes, PassedIsSettled, Settled
<1>2. SUFFICES ASSUME NEW i \in 1 .. cursor' PROVE Settled(line[i])'
  BY DEF PassedIsSettled, Settled
<1>3. CASE MoveCursor
  <2>1. /\ step = "settle" /\ cursor < Len(line) /\ cursor' \in {cursor, cursor + 1}
        /\ step' = "idle" /\ state' = state
    BY <1>3 DEF MoveCursor, Settles, vars, caller
  <2>2. ~(Take \/ ReadAgain \/ Woken)
    BY <2>1, TakeEffect, WokenEffect DEF ReadAgain, At
  <2>3. Settled(line[cursor + 1])
    BY <2>1 DEF HandledIsSettled, Current
  <2>4. i \in DOMAIN line /\ (i \in 1 .. cursor \/ i = cursor + 1)
    BY <1>1, <2>1
  <2> QED
    BY <1>1, <2>2, <2>3, <2>4, SettledStays
<1>4. CASE ~MoveCursor
  <2>1. cursor' = cursor
    <3>1. CASE Take \/ TakeRaises \/ ReadAgain \/ Woken \/ MailboxCrash \/ UNCHANGED mailboxVars
      BY <3>1 DEF Take, TakeRaises, ReadAgain, Woken, MailboxCrash, mailboxVars, mailbox
    <3>2. ASSUME NEW kind \in Kind, PublishReply(kind) \/ PublishRaises(kind)
          PROVE  cursor' = cursor
      BY <3>2 DEF PublishReply, PublishRaises
    <3>3. CASE Elsewhere \/ \E a \in Call : AttemptRaises(a)
      BY <3>3, ElsewhereEffect, RaiseEffect
    <3> QED
      BY <1>4, <3>1, <3>2, <3>3 DEF MailboxNext, Handler
  <2>2. i \in DOMAIN line /\ i \in 1 .. cursor /\ i # cursor + 1
    BY <1>1, <2>1
  <2> QED
    BY <1>1, <2>2, SettledStays
<1> QED
  BY <1>3, <1>4
----------------------------------------------------------------------------
(***************************************************************************)
(* The invariant of the lane.  The parts lean on each other: that a        *)
(* message goes out once (InTurn) on an answer not being posted while it   *)
(* can be awaited (Unposted), that on one attempt alone having answered    *)
(* (OneAnswer), that on the runner's Exclusive and Unanswered.             *)
(***************************************************************************)
MailInv == Keeps /\ Handling /\ Answering /\ InRoom /\ Dealt

LEMMA MailInit == MailboxInit => MailInv
<1> SUFFICES ASSUME MailboxInit PROVE MailInv
  OBVIOUS
<1>1. /\ Init /\ cursor = 0 /\ step = "idle" /\ room = <<>>
      /\ resultSeq = [j \in Job |-> 0] /\ replySeq = [j \in Job |-> 0]
      /\ broken = {} /\ errors = 0
  BY DEF MailboxInit
<1>2. Keeps
  BY <1>1, KeepsInit
<1>3. /\ \A c \in Call : state[c] = "unsent" /\ pc[c] = "off"
  BY <1>1 DEF Init
<1>4. MailTypes
  <2>1. room \in Seq(Entered) /\ Len(room) = 0
    BY <1>1
  <2> QED
    BY <1>1, <2>1, Lines, MailboxAssumption DEF MailTypes, Step
<1>5. Placed /\ HttpFresh /\ RaisedKnown
  BY <1>1, <1>3, Lines, RunnerAssumption DEF Placed, HttpFresh, RaisedKnown
<1>6. Answering
  BY <1>1, <1>3 DEF Answering, OneAnswer, Announcing, Unposted, Gave, Kind
<1>7. InRoom
  <2>1. DOMAIN room = {}
    BY <1>1
  <2> QED
    BY <1>1, <2>1 DEF InRoom, InTurn, OnRecord, SeqsNameTheirs, RepliedOnce
<1>8. Dealt
  BY <1>1 DEF Dealt, HandledIsSettled, PassedIsSettled, Kind
<1> QED
  BY <1>2, <1>4, <1>5, <1>6, <1>7, <1>8 DEF MailInv, Handling

LEMMA MailStep == MailInv /\ [MailboxNext]_mailboxVars => MailInv'
<1> SUFFICES ASSUME MailInv, [MailboxNext]_mailboxVars PROVE MailInv'
  OBVIOUS
<1>1. Keeps /\ Handling /\ Answering /\ InRoom /\ Dealt
  BY DEF MailInv
<1>2. /\ MailTypes /\ Placed /\ HttpFresh /\ RaisedKnown
      /\ OneAnswer /\ Announcing /\ Unposted
      /\ InTurn /\ OnRecord /\ SeqsNameTheirs /\ RepliedOnce
      /\ HandledIsSettled /\ PassedIsSettled
  BY <1>1 DEF Handling, Answering, InRoom, Dealt
<1>3. Keeps'
  BY <1>1, <1>2, MailKeeps
<1>4. MailTypes' /\ Placed' /\ HttpFresh' /\ RaisedKnown'
  BY <1>1, <1>2, MailTypesStep, PlacedStep, HttpFreshStep, RaisedKnownStep
<1>5. OneAnswer' /\ Announcing' /\ Unposted'
  BY <1>1, <1>2, OneAnswerStep, AnnouncingStep, UnpostedStep
<1>6. InTurn' /\ OnRecord' /\ SeqsNameTheirs' /\ RepliedOnce'
  BY <1>1, <1>2, InTurnStep, OnRecordStep, SeqsNameTheirsStep, RepliedOnceStep
<1>7. HandledIsSettled' /\ PassedIsSettled'
  BY <1>1, <1>2, HandledIsSettledStep, PassedIsSettledStep
<1> QED
  BY <1>3, <1>4, <1>5, <1>6, <1>7 DEF MailInv, Handling, Answering, InRoom, Dealt

LEMMA MailAlways == MailboxSpec => []MailInv
BY MailInit, MailStep, PTL DEF MailboxSpec

\* The lane's variables, the runner's among them, have their types: every sequence
\* number on record is that of a message in the room.
THEOREM MailboxTyping == MailboxSpec => []MailboxTypeOK
<1>1. MailInv => MailboxTypeOK
  BY DEF MailInv, Keeps, Shape, Handling, MailTypes, MailboxTypeOK
<1> QED
  BY <1>1, MailAlways, PTL

\* Nothing is posted for which no receipt is on record, nor any other result than the
\* one on record: process_message posts what handle has stored, and no crash, line
\* read again or failing ledger call brings the two apart.
THEOREM PostedIsOnRecord == MailboxSpec => []RepliesOnRecord
<1>1. MailInv => RepliesOnRecord
  <2> SUFFICES ASSUME MailInv PROVE RepliesOnRecord
    OBVIOUS
  <2>1. OnRecord /\ SeqsNameTheirs /\ ReceiptMatchesResult /\ MailTypes
    BY DEF MailInv, InRoom, Keeps, Record, Handling
  <2>2. \A k \in DOMAIN room : room[k].job \in Job
    BY <2>1, RoomShape
  <2>3. \A k \in DOMAIN room : results[room[k].job] = room[k].id
    BY <2>1, <2>2 DEF OnRecord, ReceiptMatchesResult
  <2> QED
    BY <2>1, <2>3 DEF OnRecord, SeqsNameTheirs, RepliesOnRecord
<1> QED
  BY <1>1, MailAlways, PTL

\* A job's claim, result and receipt are each posted at most once, in that order,
\* through any crashes, repetitions and lines that join an attempt under way.
THEOREM PostedOnce == MailboxSpec => []RepliedOnce
<1>1. MailInv => RepliedOnce
  BY DEF MailInv, InRoom
<1> QED
  BY <1>1, MailAlways, PTL

\* The durable cursor passes no line that was not refused, answered or broken.
THEOREM NothingLeftBehind == MailboxSpec => []PassedIsSettled
<1>1. MailInv => PassedIsSettled
  BY DEF MailInv, Dealt
<1> QED
  BY <1>1, MailAlways, PTL

\* The runner keeps its own promises where a line is read again, an attempt raises and
\* the stored result is written a second time: none of these is a step of JobRunner.
THEOREM MailboxKeepsRunner ==
  MailboxSpec => []/\ OnlyItsRequester
                   /\ OwnTestsStayInternal
                   /\ FinishedIffReceipt
                   /\ ReceiptMatchesResult
                   /\ ShownIsOnRecord
<1>1. MailInv => /\ OnlyItsRequester
                 /\ OwnTestsStayInternal
                 /\ FinishedIffReceipt
                 /\ ReceiptMatchesResult
                 /\ ShownIsOnRecord
  BY RunnerAssumption DEF MailInv, Keeps, Shape, Ownership, Classification, Record,
     OwnRows, OwnReceipts, OwnTestsStayInternal, OwnTest, Pair
<1> QED
  BY <1>1, MailAlways, PTL

\* The lane as a whole implements the contract of a job, crashes, retries and faults
\* included: to identifiers, answers and callers a step of the lane is a step of
\* the contract or nothing.
THEOREM MailboxImplementsContract == MailboxSpec => ContractSpec
<1>1. MailboxInit => Contract!Init
  BY DEF MailboxInit, Init, Contract!Init
<1>2. MailInv /\ [MailboxNext]_mailboxVars => [Contract!Next]_(Contract!vars)
  <2> SUFFICES ASSUME MailInv, [MailboxNext]_mailboxVars
               PROVE  [Contract!Next]_(Contract!vars)
    OBVIOUS
  <2>1. CASE [Next]_vars
    BY <2>1, ContractStep DEF MailInv
  <2>2. CASE ReadAgain \/ \E a \in Call : AttemptRaises(a)
    BY <2>2, RaiseEffect DEF ReadAgain, ledger, Contract!vars
  <2>3. CASE RefusalLost(Current)
    BY <2>3 DEF RefusalLost, ledger, Contract!vars
  <2> QED
    BY <2>1, <2>2, <2>3, RunnerMoves DEF MailInv, Handling, Answering
<1> QED
  BY <1>1, <1>2, MailAlways, PTL DEF MailboxSpec, ContractSpec, Contract!Spec

\* A requester's hourly limit holds in the mailbox lane, with attempts that raise between
\* the check and the insert, lines that are read again, and HTTP requests beside them.
THEOREM MailboxKeepsLimit ==
  ASSUME IsFiniteSet(Job) PROVE MailboxSpec => []WithinRateLimit
<1>1. RequesterInOneProcess
  BY OneProcess DEF RequesterInOneProcess
<1>2. MailboxInit => WithinLimit
  BY LimitInit DEF MailboxInit
<1>3. MailInv /\ WithinLimit /\ [MailboxNext]_mailboxVars => WithinLimit'
  <2> SUFFICES ASSUME MailInv, WithinLimit, [MailboxNext]_mailboxVars PROVE WithinLimit'
    OBVIOUS
  <2>1. Keeps /\ Handling /\ Answering /\ OneTurn /\ RoomLeft /\ WithinRateLimit
    BY DEF MailInv, WithinLimit
  <2>2. CASE [Next]_vars
    BY <1>1, <2>1, <2>2, OneTurnStep, RoomLeftStep, LimitStep DEF WithinLimit, Keeps
  <2>3. CASE ReadAgain \/ RefusalLost(Current)
    BY <2>1, <2>3 DEF ReadAgain, RefusalLost, ledger, attempt, WithinLimit, OneTurn, RoomLeft,
       OverLimit, Used, WithinRateLimit
  <2>4. ASSUME NEW a \in Call, AttemptRaises(a) PROVE WithinLimit'
    <3>1. /\ pc \in [Call -> Phase] /\ pc' = [pc EXCEPT ![a] = "done"]
          /\ UNCHANGED <<jobs, rejections>>
      BY <2>1, <2>4, RaiseEffect DEF Keeps, Shape, TypeOK
    <3>2. \A b \in Call : pc'[b] # pc[b] => pc'[b] = "done"
      BY <3>1
    <3>3. OneTurn' /\ RoomLeft' /\ WithinRateLimit'
      BY <2>1, <3>1, <3>2 DEF OneTurn, Synchronous, RoomLeft, OverLimit, Used, WithinRateLimit
    <3> QED
      BY <3>3 DEF WithinLimit
  <2> QED
    BY <2>1, <2>2, <2>3, <2>4, RunnerMoves DEF Handling, Answering
<1>4. WithinLimit => WithinRateLimit
  BY DEF WithinLimit
<1> QED
  BY <1>2, <1>3, <1>4, MailAlways, PTL DEF MailboxSpec
----------------------------------------------------------------------------
(* The HTTP lane, in front of the runner. *)

LEMMA LaneStepIsRunnerStep == [LaneNext]_laneVars => [Next]_vars
<1> SUFFICES ASSUME [LaneNext]_laneVars PROVE [Next]_vars
  OBVIOUS
<1>1. ASSUME NEW c \in Call, RefuseJob(c) PROVE Next
  BY <1>1 DEF RefuseJob, Next
<1>2. ASSUME NEW c \in Call, HandOver(c) PROVE Next
  BY <1>2 DEF HandOver, Next
<1>3. ASSUME NEW c \in Call, Receive(c) \/ AnswerFromLedger(c) \/ RefuseRate(c)
                               \/ RefuseNonce(c)
      PROVE  UNCHANGED vars
  BY <1>3 DEF Receive, AnswerFromLedger, RefuseRate, RefuseNonce, Unrecorded
<1>4. CASE RunnerStep
  BY <1>4 DEF RunnerStep, Next
<1>5. ASSUME NEW p \in Proc, Restart(p) PROVE Next
  BY <1>5 DEF Restart, Next
<1>6. CASE Gate \/ UNCHANGED laneVars
  BY <1>6 DEF Gate, laneVars
<1> QED
  BY <1>1, <1>2, <1>3, <1>4, <1>5, <1>6 DEF LaneNext, LaneStep

\* submit_job decides only when the runner is asked: behind it the pipeline behaves
\* as JobRunner says.
THEOREM LaneImplementsRunner == LaneSpec => RunnerSpec
<1>1. LaneInit => Init
  BY DEF LaneInit
<1> QED
  BY <1>1, LaneStepIsRunnerStep, PTL DEF LaneSpec, RunnerSpec, Spec

\* So no caller of either lane is handed another requester's receipt by the runner.
THEOREM LaneIsolation == LaneSpec => []OnlyItsRequester
BY LaneImplementsRunner, RequesterIsolation, PTL DEF RunnerSpec

\* The lane and the mailbox together, in one process, keep the pipeline's contract.
THEOREM LaneKeepsContract == ASSUME JobInOneProcess PROVE LaneSpec => ContractSpec
BY LaneImplementsRunner, ImplementsContract, PTL DEF RunnerSpec

\* And its limit holds, however concurrent requests and mailbox lines interleave.
THEOREM LaneKeepsLimit ==
  ASSUME RequesterInOneProcess, IsFiniteSet(Job) PROVE LaneSpec => []WithinRateLimit
BY LaneImplementsRunner, LimitHolds, PTL DEF RunnerSpec
----------------------------------------------------------------------------
(***************************************************************************)
(* Replay.  The order of the nonces is inductive with this: what was       *)
(* accepted is at or below the floor of its requester.                     *)
(***************************************************************************)
Floored == \A i \in DOMAIN log : nonceOf[log[i]] <= floor[requesterOf[log[i]]]

Counted == /\ log \in Seq(Http)
           /\ floor \in [Requester -> Nat]
           /\ Floored
           /\ AcceptedInOrder

LEMMA CountedInit == LaneInit => Counted
BY DEF LaneInit, Counted, Floored, AcceptedInOrder

LEMMA HandOverCounted ==
  ASSUME Counted, NEW c \in Call, HandOver(c)
  PROVE  Counted'
<1> DEFINE r == requesterOf[c]
           n == Len(log)
<1>1. /\ c \in Http
      /\ nonceOf[c] \in Nat /\ nonceOf[c] > floor[r]
      /\ floor' = [floor EXCEPT ![r] = nonceOf[c]]
      /\ log' = Append(log, c)
  BY LaneAssumption DEF HandOver, Ready, Advances
<1>2. /\ log \in Seq(Http) /\ n \in Nat /\ DOMAIN log = 1 .. n
      /\ floor \in [Requester -> Nat]
      /\ r \in Requester
      /\ \A d \in Http : requesterOf[d] \in Requester /\ nonceOf[d] \in Nat
  BY RunnerAssumption, LaneAssumption DEF Counted
<1>3. /\ log' \in Seq(Http)
      /\ DOMAIN log' = 1 .. n + 1
      /\ log'[n + 1] = c
      /\ \A i \in 1 .. n : log'[i] = log[i] /\ log[i] \in Http
  BY <1>1, <1>2
<1>4. floor' \in [Requester -> Nat]
  BY <1>1, <1>2
<1>5. \A i \in 1 .. n : nonceOf[log[i]] <= floor[requesterOf[log[i]]]
  BY <1>2 DEF Counted, Floored
<1>6. \A i \in 1 .. n + 1 : nonceOf[log'[i]] <= floor'[requesterOf[log'[i]]]
  <2> SUFFICES ASSUME NEW i \in 1 .. n + 1
               PROVE  nonceOf[log'[i]] <= floor'[requesterOf[log'[i]]]
    OBVIOUS
  <2>1. CASE i = n + 1
    BY <1>1, <1>2, <1>3, <2>1
  <2>2. CASE i \in 1 .. n
    <3>1. nonceOf[log[i]] <= floor[requesterOf[log[i]]] /\ log'[i] = log[i]
      BY <1>3, <1>5, <2>2
    <3>2. /\ requesterOf[log[i]] \in Requester /\ nonceOf[log[i]] \in Nat
          /\ floor[requesterOf[log[i]]] \in Nat
      BY <1>2, <1>3, <2>2
    <3>3. floor'[requesterOf[log[i]]] >= floor[requesterOf[log[i]]]
      BY <1>1, <1>2, <3>2
    <3>4. floor'[requesterOf[log[i]]] \in Nat
      BY <1>4, <3>2
    <3> QED
      BY <3>1, <3>2, <3>3, <3>4
  <2> QED
    BY <1>2, <2>1, <2>2
<1>7. ASSUME NEW i \in 1 .. n + 1, NEW k \in 1 .. n + 1, i < k,
             requesterOf[log'[i]] = requesterOf[log'[k]]
      PROVE  nonceOf[log'[i]] < nonceOf[log'[k]]
  <2>1. i \in 1 .. n /\ log'[i] = log[i] /\ log[i] \in Http
    BY <1>2, <1>3, <1>7
  <2>2. CASE k = n + 1
    <3>1. requesterOf[log[i]] = r /\ log'[k] = c
      BY <1>3, <1>7, <2>1, <2>2
    <3>2. nonceOf[log[i]] <= floor[r]
      BY <1>5, <2>1, <3>1
    <3> QED
      BY <1>1, <1>2, <2>1, <3>1, <3>2
  <2>3. CASE k \in 1 .. n
    BY <1>2, <1>3, <1>7, <2>1, <2>3 DEF Counted, AcceptedInOrder
  <2> QED
    BY <1>2, <2>2, <2>3
<1> QED
  BY <1>3, <1>4, <1>6, <1>7 DEF Counted, Floored, AcceptedInOrder

LEMMA CountedStep == Counted /\ [LaneNext]_laneVars => Counted'
<1> SUFFICES ASSUME Counted, [LaneNext]_laneVars PROVE Counted'
  OBVIOUS
<1>1. ASSUME UNCHANGED <<log, floor>> PROVE Counted'
  BY <1>1 DEF Counted, Floored, AcceptedInOrder
<1>2. ASSUME NEW c \in Call, HandOver(c) PROVE Counted'
  BY <1>2, HandOverCounted
<1> QED
  BY <1>1, <1>2 DEF LaneNext, LaneStep, Gate, Receive, AnswerFromLedger, RefuseRate,
     RefuseJob, RefuseNonce, RunnerStep, Restart, laneVars, lane

\* A captured request runs nothing: the runner sees each requester's nonces in strictly
\* rising order, through any concurrency and any crashes.
THEOREM ReplayRunsNothing == LaneSpec => []AcceptedInOrder
<1>1. Counted => AcceptedInOrder
  BY DEF Counted
<1> QED
  BY <1>1, CountedInit, CountedStep, PTL DEF LaneSpec
----------------------------------------------------------------------------
(***************************************************************************)
(* What is answered from the ledger.                                       *)
(***************************************************************************)
Given == GivenIsTheirs /\ given \in [Call -> Receipt \cup {NoOne}]

LEMMA GivenStep == Keeps /\ Given /\ [LaneNext]_laneVars => Given'
<1> SUFFICES ASSUME Keeps, Given, [LaneNext]_laneVars PROVE Given'
  OBVIOUS
<1> USE DEF Given
<1>1. receipts \in [Job -> Receipt \cup {NoOne}] /\ \A c \in Call : jobOf[c] \in Job
  BY RunnerAssumption DEF Keeps, Shape, TypeOK
<1>2. ASSUME NEW j \in Job, receipts[j] # NoOne PROVE receipts'[j] = receipts[j]
  BY <1>2, LaneStepIsRunnerStep, ReceiptKept DEF Keeps
<1>3. ASSUME NEW c \in Call, AnswerFromLedger(c) PROVE Given'
  <2>1. c \in Http /\ receipts[jobOf[c]] # NoOne
    BY <1>3 DEF AnswerFromLedger, Ready, Completed
  <2>2. receipts[jobOf[c]].requester = requesterOf[c]
    BY <1>1, <1>3, <2>1
       DEF AnswerFromLedger, Completed, Mine, Keeps, Ownership, ReceiptOwned, Owns
  <2>3. given' = [given EXCEPT ![c] = receipts[jobOf[c]]] /\ receipts' = receipts
    BY <1>3 DEF AnswerFromLedger, vars, ledger
  <2> QED
    BY <1>1, <2>1, <2>2, <2>3 DEF GivenIsTheirs
<1>4. ASSUME UNCHANGED given PROVE Given'
  <2>1. ASSUME NEW c \in Http, given[c] # NoOne
        PROVE  given[c].requester = requesterOf[c] /\ given[c] = receipts'[jobOf[c]]
    <3>1. given[c].requester = requesterOf[c] /\ given[c] = receipts[jobOf[c]]
      BY <2>1 DEF GivenIsTheirs
    <3>2. c \in Call
      BY RunnerAssumption
    <3> QED
      BY <1>1, <1>2, <2>1, <3>1, <3>2
  <2> QED
    BY <1>4, <2>1 DEF GivenIsTheirs
<1> QED
  BY <1>3, <1>4 DEF LaneNext, LaneStep, Gate, Receive, RefuseRate, RefuseJob, RefuseNonce,
     HandOver, RunnerStep, Restart, laneVars, lane

\* What a request is answered with from the ledger is the asker's own receipt, and no
\* later attempt, crash or retry puts another one on record.
THEOREM LedgerAnswers == ASSUME JobInOneProcess PROVE LaneSpec => []GivenIsTheirs
<1>1. LaneInit => Given
  BY RunnerAssumption DEF LaneInit, Given, GivenIsTheirs
<1>2. LaneSpec => []Keeps
  BY LaneImplementsRunner, KeepsAlways, PTL DEF RunnerSpec
<1>3. Given => GivenIsTheirs
  BY DEF Given
<1> QED
  BY <1>1, <1>2, <1>3, GivenStep, PTL DEF LaneSpec
----------------------------------------------------------------------------
(***************************************************************************)
(* Who is refused for the rate has no row for that job, and his count      *)
(* never falls: no attempt in his name can insert one afterwards.  From    *)
(* the owner check to the rate check of an attempt the turn is its own.    *)
(***************************************************************************)
NoRow(c) == jobOf[c] \notin RowsOf(requesterOf[c]) /\ OverLimit(requesterOf[c])

Refused(c) == "rate_limited" \in {ended[c], state[c], reply[c]}
RefusedNoRow == \A c \in Call : Refused(c) => NoRow(c)
RateNoRow == \A a \in Call : pc[a] = "rate" => jobOf[a] \notin RowsOf(requesterOf[a])

Refusals == /\ reply \in [Call -> Reply]
            /\ RefusedNoRow /\ RateNoRow
Rated == /\ Shape /\ Ownership
         /\ OneTurn /\ RoomLeft

LEMMA MineIsRow == ASSUME NEW c \in Call PROVE Mine(c) <=> jobOf[c] \in RowsOf(requesterOf[c])
BY RunnerAssumption DEF Mine, RowsOf

LEMMA RejectionsRise ==
  ASSUME Shape, [Next]_vars, NEW r \in Requester
  PROVE  rejections[r] \in Nat /\ rejections'[r] \in Nat /\ rejections'[r] >= rejections[r]
<1>1. rejections \in [Requester -> Nat] /\ \A c \in Call : requesterOf[c] \in Requester
  BY RunnerAssumption DEF Shape, TypeOK
<1>2. ASSUME NEW c \in Call, rejections' = [rejections EXCEPT ![requesterOf[c]] = @ + 1]
      PROVE  rejections'[r] \in Nat /\ rejections'[r] >= rejections[r]
  BY <1>1, <1>2
<1>3. ASSUME UNCHANGED rejections
      PROVE  rejections'[r] \in Nat /\ rejections'[r] >= rejections[r]
  BY <1>1, <1>3
<1>4. ASSUME NEW c \in Call, Refuse(c) \/ Submit(c) \/ Wake(c)
      PROVE  \/ rejections' = rejections
             \/ rejections' = [rejections EXCEPT ![requesterOf[c]] = @ + 1]
  <2>1. CASE Refuse(c)
    BY <2>1 DEF Refuse
  <2>2. CASE Submit(c)
    BY <2>2 DEF Submit
  <2>3. CASE Wake(c)
    BY <2>3, Zenon DEF Wake
  <2> QED
    BY <1>4, <2>1, <2>2, <2>3
<1>5. ASSUME NEW c \in Call, Refuse(c) \/ Submit(c) \/ Wake(c)
      PROVE  rejections'[r] \in Nat /\ rejections'[r] >= rejections[r]
  BY <1>2, <1>3, <1>4, <1>5
<1> QED
  BY <1>1, <1>3, <1>5 DEF Next, Attempt, vars, ledger, Declare, Post, ReadDeclaration,
     ReadOwner, CheckRateLimit, InsertJob, Claim, StartTask, EndTask, RecordResult,
     RecordReceipt, Retire, Disconnect, Crash

LEMMA NoRowStays ==
  ASSUME IsFiniteSet(Job), Shape, RoomLeft, [Next]_vars, NEW c \in Call, NoRow(c)
  PROVE  NoRow(c)'
<1> DEFINE r == requesterOf[c]
<1>1. r \in Requester
  BY RunnerAssumption
<1>2. RowsOf(r)' = RowsOf(r)
  <2>1. ASSUME NEW b \in Call, InsertJob(b), requesterOf[b] = r, jobs[jobOf[b]] = NoOne
        PROVE  FALSE
    BY <2>1 DEF InsertJob, RoomLeft, NoRow
  <2> QED
    BY <1>1, <2>1, OwnerRowsGrow
<1>3. Cardinality(RowsOf(r)) \in Nat
  <2>1. RowsOf(r) \in SUBSET Job
    BY DEF RowsOf
  <2> QED
    BY <2>1, FS_Subset, FS_CardinalityType
<1>4. Cardinality(RowsOf(r)) + rejections[r] >= JobsPerHour
  BY DEF NoRow, OverLimit, Used, RowsOf
<1>5. Cardinality(RowsOf(r)') + rejections'[r] >= JobsPerHour
  BY <1>1, <1>2, <1>3, <1>4, RejectionsRise, RunnerAssumption
<1>6. OverLimit(r)'
  BY <1>5 DEF OverLimit, Used, RowsOf
<1>7. jobOf[c] \notin RowsOf(r)'
  BY <1>2 DEF NoRow
<1> QED
  BY <1>6, <1>7 DEF NoRow

\* What an attempt, a caller or the lane newly takes for a refusal was one already.
LEMMA NewlyRefused ==
  ASSUME Rated, Refusals, [LaneNext]_laneVars, NEW c \in Call, Refused(c)', ~Refused(c)
  PROVE  NoRow(c)
<1>1. /\ ended \in [Call -> Ending] /\ state \in [Call -> CallState]
      /\ joined \in [Call -> Call \cup {NoOne}]
      /\ reply \in [Call -> Reply]
      /\ RefusedNoRow /\ RateNoRow
      /\ [Next]_vars
  BY LaneStepIsRunnerStep DEF Rated, Shape, TypeOK, Refusals
<1>2. CASE ended'[c] = "rate_limited" /\ ended[c] # "rate_limited"
  <2>1. ASSUME NEW a \in Call, ReadOwner(a) \/ InsertJob(a) \/ RecordReceipt(a) PROVE FALSE
    BY <1>1, <1>2, <2>1 DEF ReadOwner, InsertJob, RecordReceipt, End
  <2>2. ASSUME NEW p \in Proc, Crash(p) PROVE FALSE
    BY <1>2, <2>2 DEF Crash
  <2>3. ASSUME NEW a \in Call, CheckRateLimit(a)
        PROVE  a = c /\ pc[c] = "rate" /\ OverLimit(requesterOf[c])
    BY <1>1, <1>2, <2>3 DEF CheckRateLimit, End
  <2>4. pc[c] = "rate" /\ OverLimit(requesterOf[c])
    BY <1>1, <1>2, <2>1, <2>2, <2>3 DEF Next, Attempt, vars, attempt, Declare, Post, Refuse,
       Submit, ReadDeclaration, Claim, StartTask, EndTask, RecordResult, Retire, Wake,
       Disconnect
  <2> QED
    BY <1>1, <2>4 DEF RateNoRow, NoRow
<1>3. CASE state'[c] = "rate_limited" /\ state[c] # "rate_limited"
  <2>1. ASSUME NEW d \in Call,
               Declare(d) \/ Post(d) \/ Refuse(d) \/ Submit(d) \/ Disconnect(d)
        PROVE  FALSE
    BY <1>1, <1>3, <2>1 DEF Declare, Post, Refuse, Submit, Disconnect
  <2>2. ASSUME NEW p \in Proc, Crash(p) PROVE FALSE
    BY <1>3, <2>2 DEF Crash, AfterCrash
  <2>3. ASSUME NEW d \in Call, Wake(d)
        PROVE  /\ d = c /\ state[c] = "waiting"
               /\ ended[joined[c]] = "rate_limited"
    BY <1>1, <1>3, <2>3 DEF Wake
  <2>4. state[c] = "waiting" /\ ended[joined[c]] = "rate_limited"
    BY <1>1, <1>3, <2>1, <2>2, <2>3 DEF Next, Attempt, vars, caller, ReadDeclaration,
       ReadOwner, CheckRateLimit, InsertJob, Claim, StartTask, EndTask, RecordResult,
       RecordReceipt, Retire
  <2>5. joined[c] \in Call /\ joined[c] # NoOne
    BY <1>1, <2>4 DEF Rated, Shape, WaitingJoined
  <2>6. NoRow(joined[c])
    BY <1>1, <2>4, <2>5 DEF RefusedNoRow, Refused
  <2>7. jobOf[joined[c]] = jobOf[c] /\ requesterOf[joined[c]] = requesterOf[c]
    BY <2>5 DEF Rated, Ownership, JoinedSame
  <2> QED
    BY <2>6, <2>7 DEF NoRow
<1>4. CASE reply'[c] = "rate_limited" /\ reply[c] # "rate_limited"
  <2>1. ASSUME NEW d \in Call,
               Receive(d) \/ AnswerFromLedger(d) \/ RefuseJob(d) \/ RefuseNonce(d)
        PROVE  FALSE
    BY <1>1, <1>4, <2>1 DEF Receive, AnswerFromLedger, RefuseJob, RefuseNonce, Answers, Reply
  <2>2. \E d \in Call : RefuseRate(d)
    BY <1>4, <2>1 DEF LaneNext, LaneStep, Gate, HandOver, RunnerStep, Restart, laneVars, lane
  <2>3. RefuseRate(c)
    BY <1>1, <1>4, <2>2 DEF RefuseRate, Answers
  <2>4. ~Mine(c) /\ OverLimit(requesterOf[c])
    BY <2>3 DEF RefuseRate, Completed, Limited, Resuming
  <2> QED
    BY <2>4, MineIsRow DEF NoRow
<1> QED
  BY <1>2, <1>3, <1>4 DEF Refused

LEMMA RefusedNoRowStep ==
  ASSUME IsFiniteSet(Job), Rated, Refusals, [LaneNext]_laneVars
  PROVE  RefusedNoRow'
<1> SUFFICES ASSUME NEW c \in Call, Refused(c)' PROVE NoRow(c)'
  BY DEF RefusedNoRow
<1>1. NoRow(c)
  BY NewlyRefused DEF Refusals, RefusedNoRow
<1> QED
  BY <1>1, LaneStepIsRunnerStep, NoRowStays DEF Rated

LEMMA ReplyTyped ==
  ASSUME reply \in [Call -> Reply], [LaneNext]_laneVars PROVE reply' \in [Call -> Reply]
BY DEF LaneNext, LaneStep, Gate, Receive, AnswerFromLedger, RefuseRate, RefuseJob,
   RefuseNonce, HandOver, RunnerStep, Restart, Answers, Reply, laneVars, lane

LEMMA RateNoRowStep ==
  ASSUME RequesterInOneProcess, Rated, RateNoRow, [Next]_vars
  PROVE  RateNoRow'
<1> SUFFICES ASSUME NEW a \in Call, pc'[a] = "rate"
             PROVE  jobOf[a] \notin RowsOf(requesterOf[a])'
  BY DEF RateNoRow
<1> DEFINE r == requesterOf[a]
<1>1. pc \in [Call -> Phase] /\ Shape /\ r \in Requester
  BY RunnerAssumption DEF Rated, Shape, TypeOK
<1>2. CASE pc[a] = "rate"
  <2>1. ASSUME NEW b \in Call, InsertJob(b), requesterOf[b] = r PROVE FALSE
    BY <1>2, <2>1 DEF InsertJob, Rated, OneTurn, RequesterInOneProcess, Synchronous
  <2>2. RowsOf(r)' = RowsOf(r)
    BY <1>1, <2>1, OwnerRowsGrow
  <2> QED
    BY <1>2, <2>2 DEF RateNoRow
<1>3. CASE pc[a] # "rate"
  <2>1. Attempt(a)
    BY <1>1, <1>3, PcMoves
  <2>2. ~(ReadDeclaration(a) \/ CheckRateLimit(a) \/ InsertJob(a) \/ RecordReceipt(a))
    BY <1>1, <1>3 DEF ReadDeclaration, CheckRateLimit, InsertJob, RecordReceipt, End
  <2>3. ~(Claim(a) \/ StartTask(a) \/ EndTask(a) \/ RecordResult(a) \/ Retire(a))
    BY <1>1, <1>3 DEF Claim, StartTask, EndTask, RecordResult, Retire, attempt
  <2>4. ReadOwner(a)
    BY <2>1, <2>2, <2>3 DEF Attempt
  <2>5. jobs[jobOf[a]] = NoOne /\ jobs' = jobs
    BY <1>1, <1>3, <2>4 DEF ReadOwner, End, ResumeAt, ledger
  <2> QED
    BY <2>5 DEF RowsOf
<1> QED
  BY <1>2, <1>3

\* No refusal for the rate, by the lane or by the runner, now or earlier, stands against
\* a requester's own job: a job that ran, or is about to, does not cost its requester
\* the answer.
THEOREM OwnJobIsAnswered ==
  ASSUME RequesterInOneProcess, IsFiniteSet(Job) PROVE LaneSpec => []OwnJobNeverLimited
<1> DEFINE Inv == Rated /\ Refusals
<1>1. LaneInit => Inv
  <2> SUFFICES ASSUME LaneInit PROVE Inv
    OBVIOUS
  <2>1. Rated
    BY ShapeInit, OwnershipInit, LimitInit DEF LaneInit, Rated, WithinLimit
  <2> QED
    BY <2>1 DEF LaneInit, Init, Refusals, RefusedNoRow, RateNoRow, Refused, Reply
<1>2. Inv /\ [LaneNext]_laneVars => Inv'
  <2> SUFFICES ASSUME Inv, [LaneNext]_laneVars PROVE Inv'
    OBVIOUS
  <2>1. [Next]_vars
    BY LaneStepIsRunnerStep
  <2>2. Rated'
    BY <2>1, ShapeStep, ReceiptOwnedStep, DuplicateOwnedStep, InFlightJobStep,
       JoinedSameStep, OnlyItsRequesterStep, OneTurnStep, RoomLeftStep DEF Rated, Ownership
  <2> QED
    BY <2>1, <2>2, RefusedNoRowStep, RateNoRowStep, ReplyTyped DEF Refusals
<1>3. Inv => OwnJobNeverLimited
  BY MineIsRow DEF Refusals, RefusedNoRow, Refused, NoRow, OwnJobNeverLimited
<1> QED
  BY <1>1, <1>2, <1>3, PTL DEF LaneSpec
----------------------------------------------------------------------------
(***************************************************************************)
(* The inductive invariant.  A row never goes and is never reclassified,   *)
(* so a self-test that was among all jobs is among the self-tests whenever *)
(* they are counted later.                                                 *)
(***************************************************************************)
TotalSeen == rows["total"] \subseteq Rows
TestsSeen == asked >= 2 => rows["total"] \cap Tests \subseteq rows["internal"]
OthersSeen == \A q \in {"completed", "failed", "requesters"} :
                rows[q] \subseteq Rows \ Tests

Reading == FiguresTypeOK /\ TotalSeen /\ TestsSeen /\ OthersSeen

LEMMA FiguresStepIsRunnerStep == [FiguresNext]_<<vars, figures>> => [Next]_vars
BY DEF FiguresNext, Ask, Leave

LEMMA ReadingInit == FiguresInit => Reading
BY DEF FiguresInit, Reading, FiguresTypeOK, TotalSeen, TestsSeen, OthersSeen, Nothing,
       Query, QueryOrder

LEMMA SelectShape ==
  /\ Select \in [Query -> SUBSET Job]
  /\ Select["total"] = Rows
  /\ Select["internal"] = Tests
  /\ \A q \in {"completed", "failed", "requesters"} : Select[q] \subseteq Rows \ Tests
BY DEF Select, Query, Rows, Tests, With

LEMMA AskReading == Shape /\ Reading /\ Ask => Reading'
<1> SUFFICES ASSUME Shape, Reading, Ask PROVE Reading'
  OBVIOUS
<1> DEFINE q == QueryOrder[asked + 1]
<1>1. /\ asked \in 0 .. 4
      /\ asked' = asked + 1
      /\ rows \in [Query -> SUBSET Job]
  BY DEF Reading, FiguresTypeOK, Ask, QueryOrder
<1>2. /\ asked = 0 => q = "total"
      /\ asked = 1 => q = "internal"
      /\ asked >= 2 => q \in {"completed", "failed", "requesters"}
  BY <1>1 DEF QueryOrder
<1>3. q \in Query
  BY <1>1, <1>2 DEF Query
<1>4. rows' = [rows EXCEPT ![q] = Select[q]]
  BY DEF Ask
<1>5. Rows' = Rows /\ Tests' = Tests
  BY DEF Ask, vars, ledger, Rows, Tests
<1> HIDE DEF q
<1>6. FiguresTypeOK'
  <2>1. asked' \in 0 .. Len(QueryOrder)
    BY <1>1 DEF QueryOrder
  <2>2. rows' \in [Query -> SUBSET Job]
    BY <1>1, <1>3, <1>4, SelectShape
  <2> QED
    BY <2>1, <2>2 DEF FiguresTypeOK, QueryOrder
<1>7. TotalSeen'
  BY <1>1, <1>3, <1>4, <1>5, SelectShape DEF Reading, TotalSeen, Query
<1>8. TestsSeen'
  BY <1>1, <1>2, <1>4, <1>5, SelectShape DEF Reading, TestsSeen, Query
<1>9. OthersSeen'
  BY <1>1, <1>3, <1>4, <1>5, SelectShape DEF Reading, OthersSeen, Query
<1> QED
  BY <1>6, <1>7, <1>8, <1>9 DEF Reading

\* The ledger's part: rows stay, and stay what they are.
LEMMA RowsGrow ==
  ASSUME Shape, [Next]_vars
  PROVE  /\ Rows \subseteq Rows'
         /\ \A j \in Rows : j \in Tests' <=> j \in Tests
<1> SUFFICES ASSUME NEW j \in Rows
             PROVE  j \in Rows' /\ (j \in Tests' <=> j \in Tests)
  OBVIOUS
<1>1. j \in Job /\ jobs[j] \in Row /\ jobs[j] # NoOne
  BY DEF Rows, Shape, TypeOK
<1>2. jobs[j].owner \in Requester /\ Owns(jobs[j].owner, j)
  BY <1>1 DEF Row, Owns
<1>3. Owns(jobs[j].owner, j)' => jobs'[j] # NoOne
  BY DEF Owns
<1>4. PICK r \in Requester : Owns(r, j)
  BY <1>2
<1>5. Owns(r, j)' /\ jobs'[j].internal = jobs[j].internal
  BY <1>1, <1>4, RowsStay
<1>6. jobs'[j] # NoOne
  BY <1>5 DEF Owns
<1> QED
  BY <1>1, <1>5, <1>6 DEF Rows, Tests

LEMMA ReadingStep == Shape /\ Reading /\ [FiguresNext]_<<vars, figures>> => Reading'
<1> SUFFICES ASSUME Shape, Reading, [FiguresNext]_<<vars, figures>> PROVE Reading'
  OBVIOUS
<1>1. CASE Ask
  BY <1>1, AskReading
<1>2. CASE Leave
  BY <1>2 DEF Leave, Reading, FiguresTypeOK, TotalSeen, TestsSeen, OthersSeen, Nothing,
              Query, QueryOrder
<1>3. CASE [Next]_vars /\ UNCHANGED figures
  <2>1. UNCHANGED <<asked, rows>>
    BY <1>3 DEF figures
  <2>2. /\ Rows \subseteq Rows'
        /\ \A j \in Rows : j \in Tests' <=> j \in Tests
    BY <1>3, RowsGrow
  <2>3. FiguresTypeOK'
    BY <2>1 DEF Reading, FiguresTypeOK
  <2>4. TotalSeen'
    BY <2>1, <2>2 DEF Reading, TotalSeen
  <2>5. TestsSeen'
    BY <2>1, <2>2 DEF Reading, TestsSeen, TotalSeen
  <2>6. OthersSeen'
    BY <2>1, <2>2 DEF Reading, OthersSeen
  <2> QED
    BY <2>3, <2>4, <2>5, <2>6 DEF Reading
<1> QED
  BY <1>1, <1>2, <1>3 DEF FiguresNext, figures

----------------------------------------------------------------------------
\* What is left of all jobs without the self-tests is third-party work.
LEMMA TotalBounded ==
  ASSUME Reading, OwnRows, Read
  PROVE  TotalJobs <= Cardinality(Theirs)
<1> DEFINE total == rows["total"]
           own == rows["internal"]
<1>1. /\ total \in SUBSET Job /\ own \in SUBSET Job
      /\ total \subseteq Rows
      /\ total \cap Tests \subseteq own
  BY DEF Reading, FiguresTypeOK, TotalSeen, TestsSeen, Read, QueryOrder, Query
<1>2. total \ Tests \subseteq Theirs
  BY <1>1 DEF Theirs, Tests, Rows, OwnRows
<1>3. Theirs \in SUBSET Job
  BY DEF Theirs, Rows
<1> HIDE DEF total, own
<1>4. /\ IsFiniteSet(total) /\ IsFiniteSet(own) /\ IsFiniteSet(Theirs)
  BY <1>1, <1>3, FS_Subset, FiguresAssumption
<1>5. Cardinality(total \ Tests) = Cardinality(total) - Cardinality(total \cap Tests)
  BY <1>4, FS_Difference
<1>6. Cardinality(total \ Tests) <= Cardinality(Theirs)
  BY <1>2, <1>4, FS_Subset
<1>7. IsFiniteSet(total \cap Tests) /\ Cardinality(total \cap Tests) <= Cardinality(own)
  BY <1>1, <1>4, FS_Subset
<1>8. /\ Cardinality(total) \in Nat /\ Cardinality(own) \in Nat
      /\ Cardinality(Theirs) \in Nat /\ Cardinality(total \cap Tests) \in Nat
  BY <1>4, <1>7, FS_CardinalityType
<1> QED
  BY <1>5, <1>6, <1>7, <1>8 DEF TotalJobs, total, own

LEMMA OthersBounded ==
  ASSUME Reading, OwnRows
  PROVE  rows["completed"] \cup rows["failed"] \cup rows["requesters"] \subseteq Theirs
BY DEF Reading, OthersSeen, OwnRows, Theirs, Rows, Tests

\* However the reading of the figures and the writers interleave, no published figure
\* counts work of the node's own.
THEOREM FiguresHonest == FiguresSpec => []TestsNeverCounted
<1>1. FiguresInit => Shape /\ Classification /\ Reading
  BY ShapeInit, ClassificationInit, ReadingInit DEF FiguresInit
<1>2. Shape /\ Classification /\ Reading /\ [FiguresNext]_<<vars, figures>>
        => (Shape /\ Classification /\ Reading)'
  BY FiguresStepIsRunnerStep, ShapeStep, DeclaredKnownStep, AttemptKnownStep,
     AttemptInternalStep, OwnRowsStep, OwnReceiptsStep, ReadingStep DEF Classification
<1>3. Shape /\ Classification /\ Reading => TestsNeverCounted
  BY TotalBounded, OthersBounded DEF Classification, TestsNeverCounted
<1> QED
  BY <1>1, <1>2, <1>3, PTL DEF FiguresSpec
=============================================================================
