---------------------------- MODULE MailboxLane ----------------------------
(***************************************************************************)
(* service/node.py: poll_mailbox_once and process_message around           *)
(* JobRunner.  The loop handles the mailbox's lines one after another and  *)
(* moves a durable cursor past each; a job that was answered is posted to  *)
(* the reply room in three awaited writes.  A crash, an exception or a     *)
(* write whose outcome is not learnt may come between any two of them.     *)
(* (RoomCursor models how lines are read and the gate that holds them;     *)
(* AuditCopies the fourth copy, to the owned room.)                        *)
(***************************************************************************)
EXTENDS JobRunner, Sequences

CONSTANTS line,      \* the mailbox, oldest line first
          Unsigned,  \* the lines whose sender is not a did:key
          Hostile,   \* the lines that cannot even be recorded: text that is not UTF-8
          MaxFaults  \* bound on crashes and ledger calls that raise, together

ASSUME MailboxAssumption ==
  /\ line \in Seq(Mailbox)
  /\ line # <<>>
  /\ \A i, k \in DOMAIN line : line[i] = line[k] => i = k
  /\ \A c \in Call : procOf[c] = procOf[line[1]]
  /\ Unsigned \subseteq Mailbox
  /\ Hostile \subseteq Mailbox
  /\ MaxFaults \in Nat

VARIABLES
  cursor,     \* lines behind the durable cursor
  step,       \* where the handler of the next line is
  room,       \* what landed in the reply room, in its order
  resultSeq,  \* [Job -> Nat]: results.result_seq, 0 for NULL
  replySeq,   \* [Job -> Nat]: receipts.technocore_seq, 0 for NULL
  broken,     \* history: the lines whose handling, or attempt, raised
  errors      \* ledger calls that raised so far

mailbox == <<cursor, step, room, resultSeq, replySeq, broken, errors>>
mailboxVars == <<vars, mailbox>>

Kind == {"claim", "result", "receipt"}
Entered == [kind : Kind, job : Job, id : Nat]
Step == {"idle", "runner", "settle"} \cup Kind

MailboxTypeOK ==
  /\ TypeOK
  /\ cursor \in 0 .. Len(line)
  /\ step \in Step
  /\ room \in Seq(Entered)
  /\ resultSeq \in [Job -> 0 .. Len(room)]
  /\ replySeq \in [Job -> 0 .. Len(room)]
  /\ broken \subseteq Call
  /\ errors \in 0 .. MaxFaults

MailboxInit ==
  /\ Init
  /\ cursor = 0 /\ step = "idle" /\ room = <<>>
  /\ resultSeq = [j \in Job |-> 0]
  /\ replySeq = [j \in Job |-> 0]
  /\ broken = {} /\ errors = 0
----------------------------------------------------------------------------
Node == procOf[line[1]]
Current == line[cursor + 1]

\* The handler of the line the cursor stands before, between two awaits.
At(s) == /\ step = s
         /\ cursor < Len(line)
         /\ LoopFree(Node)

\* A ledger call raises; whatever it was to write is rolled back.
Raises(c) == /\ errors + crashes < MaxFaults
             /\ errors' = errors + 1
             /\ broken' = broken \cup {c}

NoError == UNCHANGED <<broken, errors>>

\* Slip: an exception leaves the line to be read again.
ReadUntilHandled == "idle"

\* What an exception of process_message counts as: handled.
Handled == "settle"

\* process_message up to runner.handle: not signed, refused, joined or begun.
Take ==
  LET c == Current IN
  /\ At("idle")
  /\ state[c] = "unsent" /\ c \notin Hostile
  /\ \/ /\ c \in Unsigned
        /\ step' = "settle"
        /\ UNCHANGED vars
     \/ /\ c \notin Unsigned
        /\ Refuse(c)
        /\ step' = "settle"
     \/ /\ c \notin Unsigned
        /\ Submit(c)
        /\ step' = IF state'[c] = "waiting" THEN "runner" ELSE "settle"
  /\ NoError
  /\ UNCHANGED <<cursor, room, resultSeq, replySeq>>

\* record_message or record_rejection raises, on a hostile line every time.
TakeRaises ==
  /\ At("idle")
  /\ state[Current] = "unsent"
  /\ \/ /\ Current \in Hostile
        /\ broken' = broken \cup {Current}
        /\ UNCHANGED errors
     \/ /\ Current \notin Hostile
        /\ Raises(Current)
  /\ step' = Handled
  /\ UNCHANGED <<vars, cursor, room, resultSeq, replySeq>>

\* A line that ended, and that the cursor did not pass, is read again.
ReadAgain ==
  /\ At("idle")
  /\ state[Current] # "unsent"
  /\ state' = [state EXCEPT ![Current] = "unsent"]
  /\ UNCHANGED <<ledger, inFlight, attempt, joined, shown, history, mailbox>>

\* A ledger call of an attempt raises: its task ends with the exception.
AttemptRaises(a) ==
  /\ pc[a] \in {"start", "owner", "rate", "insert", "claim", "settle", "receipt"}
  /\ Raises(a)
  /\ End(a, "none")
  /\ UNCHANGED <<ledger, inFlight, declared, internal, built, caller, history, cursor,
                 step, room, resultSeq, replySeq>>

\* Slips: the answer to a duplicate is posted again; an attempt that raised before its
\* receipt was stored is announced all the same.
PostedAgain(how) == how \in {"answered", "duplicate"}
PostedAnyway(how) == how \in {"answered", "none"}

\* What has an outcome to post: a duplicate has none, nor has a refusal.
HasOutcome(how) == how = "answered"

\* The runner refused the line and record_rejection raises: the refusal is not recorded.
RefusalLost(c) ==
  LET a == joined[c] IN
  /\ state[c] = "waiting" /\ pc[a] = "done"
  /\ ended[a] \in Refusal
  /\ Raises(c)
  /\ state' = [state EXCEPT ![c] = ended[a]]
  /\ step' = Handled
  /\ UNCHANGED <<ledger, inFlight, attempt, joined, shown, history>>

\* runner.handle returns, or raises what the attempt raised.  The callback that
\* retires the attempt was added before the handler began to wait, and runs first.
Woken ==
  LET c == Current IN
  /\ At("runner")
  /\ inFlight[Node][jobOf[c]] # joined[c]
  /\ \/ /\ Wake(c)
        /\ step' = IF HasOutcome(ended[joined[c]]) THEN "claim" ELSE "settle"
        /\ broken' = IF joined[c] \in broken THEN broken \cup {c} ELSE broken
        /\ UNCHANGED errors
     \/ RefusalLost(c)
  /\ UNCHANGED <<cursor, room, resultSeq, replySeq>>

\* What the handler posts, and with which attempt's signature.
Copy(kind) == [kind |-> kind, job |-> jobOf[Current], id |-> built[joined[Current]]]

\* The sequence number of the message that landed last.
Number(r) == Len(r)

After(kind) == CASE kind = "claim" -> "result"
                 [] kind = "result" -> "receipt"
                 [] kind = "receipt" -> "settle"

\* publish lands and is confirmed, lands unconfirmed, or does not land.  Only a
\* confirmed write has a sequence number to record.
PublishReply(kind) ==
  LET j == jobOf[Current] IN
  /\ At(kind)
  /\ \E landed, confirmed \in BOOLEAN :
       /\ confirmed => landed
       /\ room' = IF landed THEN Append(room, Copy(kind)) ELSE room
       /\ resultSeq' = IF confirmed /\ kind = "result"
                       THEN [resultSeq EXCEPT ![j] = Number(room')] ELSE resultSeq
       /\ replySeq' = IF confirmed /\ kind = "receipt"
                      THEN [replySeq EXCEPT ![j] = Number(room')] ELSE replySeq
       \* record_result writes the outcome's result again, with its number
       /\ results' = IF confirmed /\ kind = "result"
                     THEN [results EXCEPT ![j] = built[joined[Current]]] ELSE results
  /\ step' = After(kind)
  /\ NoError
  /\ UNCHANGED <<jobs, receipts, expected, rejections, inFlight, attempt, caller,
                 history, cursor>>

\* A ledger call of publish, or the one after it, raises: the rest is not posted.
PublishRaises(kind) ==
  /\ At(kind)
  /\ room' \in {room, Append(room, Copy(kind))}
  /\ Raises(Current)
  /\ step' = Handled
  /\ UNCHANGED <<vars, cursor, resultSeq, replySeq>>

\* Slip: the handler is started, and not awaited before the cursor moves.
SettlesEarly == step \in {"runner", "settle"}

Settles == step = "settle"

\* set_cursor.  Or it raises, and the poll loop starts over from the old cursor.
MoveCursor ==
  /\ Settles
  /\ cursor < Len(line)
  /\ LoopFree(Node)
  /\ step' = "idle"
  /\ \/ /\ cursor' = cursor + 1
        /\ NoError
     \/ /\ Raises(Current)
        /\ UNCHANGED cursor
  /\ UNCHANGED <<vars, room, resultSeq, replySeq>>

\* The rest of the process: attempts under way, and the HTTP lane.
Elsewhere ==
  /\ \E c \in Call : \/ Attempt(c)
                     \/ c \in Http /\ (Refuse(c) \/ Submit(c) \/ Wake(c) \/ Disconnect(c))
  /\ UNCHANGED mailbox

MailboxCrash ==
  /\ errors + crashes < MaxFaults
  /\ Crash(Node)
  /\ step' = "idle"
  /\ UNCHANGED <<cursor, room, resultSeq, replySeq, broken, errors>>

Handler == \/ Take \/ TakeRaises \/ ReadAgain \/ Woken \/ MoveCursor
           \/ \E kind \in Kind : PublishReply(kind) \/ PublishRaises(kind)

MailboxNext == \/ Handler \/ Elsewhere \/ MailboxCrash
               \/ \E a \in Call : AttemptRaises(a)

MailboxSpec == MailboxInit /\ [][MailboxNext]_mailboxVars

\* The loop polls for ever and a published write returns, in the end; a live
\* process runs its ready tasks.  Nothing makes a ledger call raise, a process die
\* or a client ask.
MailboxFairness ==
  /\ WF_mailboxVars(Handler)
  /\ WF_mailboxVars(\E c \in Call : Attempt(c) /\ UNCHANGED mailbox)
  /\ WF_mailboxVars(\E c \in Http : Wake(c) /\ UNCHANGED mailbox)

MailboxFairSpec == MailboxSpec /\ MailboxFairness
----------------------------------------------------------------------------
\* Safety.

\* Whatever stands in the reply room is what the ledger holds for that job: the
\* signed result of the attempt whose receipt is on record, never of an attempt
\* that died or was resumed; and the sequence numbers on record name those very
\* messages (handle stores the receipt before process_message posts anything).
RepliesOnRecord ==
  /\ \A k \in DOMAIN room :
       /\ receipts[room[k].job] # NoOne
       /\ receipts[room[k].job].id = room[k].id
       /\ results[room[k].job] = room[k].id
  /\ \A j \in Job :
       /\ resultSeq[j] # 0 => room[resultSeq[j]].kind = "result" /\ room[resultSeq[j]].job = j
       /\ replySeq[j] # 0 => room[replySeq[j]].kind = "receipt" /\ room[replySeq[j]].job = j

\* A job is claimed, answered and receipted at most once in its reply room, and in
\* that order, however often its line is read or its requester repeats it, and
\* whether this line or an HTTP request started the attempt.
RepliedOnce ==
  \A k, l \in DOMAIN room :
    k < l /\ room[k].job = room[l].job =>
      <<room[k].kind, room[l].kind>> \in
        {<<"claim", "result">>, <<"claim", "receipt">>, <<"result", "receipt">>}

\* The cursor leaves nothing behind it: a signed, well-formed line it has passed
\* was refused, or its job has a receipt, or a ledger call raised while it was
\* handled.  (The exception is the code's choice: "re-reading it forever would
\* wedge the queue".)
PassedIsSettled ==
  \A i \in 1 .. cursor :
    \/ line[i] \in Unsigned \cup Malformed \cup broken
    \/ state[line[i]] \in Refusal
    \/ receipts[jobOf[line[i]]] # NoOne
----------------------------------------------------------------------------
\* Liveness.

\* The queue drains: every line is passed in the end, and nobody waits for ever, be it
\* for an attempt that raised; no refusal, exception, unconfirmed write or crash
\* wedges the loop.
QueueDrains ==
  <>[](cursor = Len(line) /\ \A c \in Call : state[c] # "waiting")

\* A mailbox job that got a row gets its receipt, through a crash in between, unless
\* a ledger call raised while it was handled.
RowGetsReceipt ==
  <>[](\A c \in Mailbox \ (Unsigned \cup Malformed) :
         jobs[jobOf[c]] # NoOne /\ jobs[jobOf[c]].owner = requesterOf[c]
           => receipts[jobOf[c]] # NoOne \/ c \in broken)
============================================================================
