------------------------------ MODULE HttpLane ------------------------------
(***************************************************************************)
(* api/jobs.py: submit_job, in front of JobRunner.  The gate is asked when *)
(* the request arrives; its body is awaited; then everything up to the     *)
(* hand-over to the runner is one turn of the event loop.  A request sent  *)
(* again with the same bytes, by its client or by whoever kept a copy, is  *)
(* another Call with the same nonce, or the same Call after a refusal.     *)
(***************************************************************************)
EXTENDS JobRunner, Sequences

CONSTANTS nonceOf,  \* [Call -> Nat]: the nonce a request is signed with
          MaxMoves  \* bound on the moves of the gate

ASSUME LaneAssumption ==
  /\ nonceOf \in [Call -> Nat \ {0}]
  /\ MaxMoves \in Nat

VARIABLES
  open,   \* lane_is_open("http")
  moves,
  floor,  \* [Requester -> Nat]: http_nonces.last_nonce, 0 for no row
  phase,  \* [Call -> STRING]: where submit_job is
  reply,  \* [Call -> STRING]: the last answer given before the runner was asked
  given,  \* [Call -> Receipt \cup {NoOne}]: the receipt in that answer
  log     \* history: the calls handed to the runner, in order

lane == <<open, moves, floor, phase, reply, given, log>>
laneVars == <<vars, lane>>

Reply == {"none", "not_accepting_jobs", "already_completed", "rate_limited",
          "invalid", "nonce_not_advancing"}

LaneTypeOK ==
  /\ TypeOK
  /\ open \in BOOLEAN /\ moves \in 0 .. MaxMoves
  /\ floor \in [Requester -> Nat]
  /\ phase \in [Call -> {"idle", "body", "runner"}]
  /\ reply \in [Call -> Reply]
  /\ given \in [Call -> Receipt \cup {NoOne}]
  /\ log \in Seq(Http)

LaneInit ==
  /\ Init
  /\ open = TRUE /\ moves = 0
  /\ floor = [r \in Requester |-> 0]
  /\ phase = [c \in Call |-> "idle"]
  /\ reply = [c \in Call |-> "none"]
  /\ given = [c \in Call |-> NoOne]
  /\ log = <<>>
----------------------------------------------------------------------------
Gate ==
  /\ moves < MaxMoves
  /\ moves' = moves + 1
  /\ open' = ~open
  /\ UNCHANGED <<vars, floor, phase, reply, given, log>>

\* can_accept_third_party_jobs, then request.body().
Receive(c) ==
  /\ c \in Http
  /\ phase[c] = "idle" /\ state[c] = "unsent"
  /\ LoopFree(procOf[c])
  /\ \/ /\ open
        /\ phase' = [phase EXCEPT ![c] = "body"]
        /\ reply' = [reply EXCEPT ![c] = "none"]
     \/ /\ ~open
        /\ reply' = [reply EXCEPT ![c] = "not_accepting_jobs"]
        /\ UNCHANGED phase
  /\ UNCHANGED <<vars, open, moves, floor, given, log>>

\* Slips: whose row it is is not asked; nobody's row is resumed.
AnyonesRow(c) == jobs[jobOf[c]] # NoOne
NobodysRow(c) == FALSE

Mine(c) == jobs[jobOf[c]] # NoOne /\ jobs[jobOf[c]].owner = requesterOf[c]

Completed(c) == Mine(c) /\ receipts[jobOf[c]] # NoOne

Resuming(c) == Mine(c) /\ receipts[jobOf[c]] = NoOne

Limited(c) == ~Resuming(c) /\ OverLimit(requesterOf[c])

\* Slip: the nonce used last is accepted again.
NotBehind(c) == nonceOf[c] >= floor[requesterOf[c]]

\* claim_http_nonce: the check and the write are one transaction.
Advances(c) == nonceOf[c] > floor[requesterOf[c]]

Ready(c) == c \in Http /\ phase[c] = "body" /\ LoopFree(procOf[c])

Answers(c, with) ==
  /\ phase' = [phase EXCEPT ![c] = "idle"]
  /\ reply' = [reply EXCEPT ![c] = with]

AnswerFromLedger(c) ==
  /\ Ready(c) /\ Completed(c)
  /\ Answers(c, "already_completed")
  /\ given' = [given EXCEPT ![c] = receipts[jobOf[c]]]
  /\ UNCHANGED <<vars, open, moves, floor, log>>

\* Slip: the refusal is recorded, and so counts against the requester.
Recorded(c) ==
  /\ rejections' = [rejections EXCEPT ![requesterOf[c]] = @ + 1]
  /\ UNCHANGED <<jobs, results, receipts, expected, inFlight, attempt, caller, history>>

\* What a refusal for the rate writes: nothing.
Unrecorded(c) == UNCHANGED vars

RefuseRate(c) ==
  /\ Ready(c) /\ ~Completed(c) /\ Limited(c)
  /\ Answers(c, "rate_limited")
  /\ Unrecorded(c)
  /\ UNCHANGED <<open, moves, floor, given, log>>

\* parse_and_validate, before the nonce is claimed.
RefuseJob(c) ==
  /\ Ready(c) /\ ~Completed(c) /\ ~Limited(c)
  /\ Refuse(c)
  /\ Answers(c, "invalid")
  /\ UNCHANGED <<open, moves, floor, given, log>>

RefuseNonce(c) ==
  /\ Ready(c) /\ ~Completed(c) /\ ~Limited(c)
  /\ c \notin Malformed /\ ~Advances(c)
  /\ Answers(c, "nonce_not_advancing")
  /\ UNCHANGED <<vars, open, moves, floor, given, log>>

\* The nonce is claimed and the runner is asked.
HandOver(c) ==
  /\ Ready(c) /\ ~Completed(c) /\ ~Limited(c)
  /\ Advances(c)
  /\ Submit(c)
  /\ floor' = [floor EXCEPT ![requesterOf[c]] = nonceOf[c]]
  /\ phase' = [phase EXCEPT ![c] = "runner"]
  /\ log' = Append(log, c)
  /\ UNCHANGED <<open, moves, reply, given>>

\* The rest of the runner, and the mailbox lane.  (Self-tests run in a process of their own.)
RunnerStep ==
  /\ \E c \in Call : \/ Attempt(c) \/ Wake(c) \/ Disconnect(c)
                     \/ c \in Mailbox /\ (Refuse(c) \/ Submit(c))
  /\ UNCHANGED lane

\* The requests a process held are lost with it; http_nonces is not.
Restart(p) ==
  /\ Crash(p)
  /\ phase' = [c \in Call |-> IF procOf[c] = p THEN "idle" ELSE phase[c]]
  /\ UNCHANGED <<open, moves, floor, reply, given, log>>

LaneStep(c) == \/ Receive(c) \/ AnswerFromLedger(c) \/ RefuseRate(c) \/ RefuseJob(c)
               \/ RefuseNonce(c) \/ HandOver(c)

LaneNext == \/ Gate
            \/ \E c \in Call : LaneStep(c)
            \/ RunnerStep
            \/ \E p \in Proc : Restart(p)

LaneSpec == LaneInit /\ [][LaneNext]_laneVars
----------------------------------------------------------------------------
\* A captured request runs nothing: through concurrent requests and restarts the
\* runner sees each requester's nonces in strictly rising order (jobs.py, "Replay").
AcceptedInOrder ==
  \A i, k \in DOMAIN log :
    i < k /\ requesterOf[log[i]] = requesterOf[log[k]] => nonceOf[log[i]] < nonceOf[log[k]]

\* What is answered from the ledger is the asker's own receipt, and stays the one on
\* record (jobs.py, "Idempotency").
GivenIsTheirs ==
  \A c \in Http : given[c] # NoOne =>
    given[c].requester = requesterOf[c] /\ given[c] = receipts[jobOf[c]]

\* Whoever was refused for the rate, by the lane's check or by the runner's, has no row
\* for that job, then or later: neither a job that has its answer, nor one whose attempt
\* died, nor one a concurrent request is about to insert costs its requester the answer.
OwnJobNeverLimited ==
  \A c \in Call : state[c] = "rate_limited" \/ reply[c] = "rate_limited" => ~Mine(c)

\* The lane only decides when the runner is asked: what holds of every behaviour of
\* JobRunner holds behind the lane.
RunnerSpec == Spec

\* jobs.py: "a refused request should not cost the caller a counter".
RefusedKeepsNonce ==
  \A c \in Http : state[c] = "rate_limited" => floor[requesterOf[c]] < nonceOf[c]

\* jobs.py: "The endpoint is refused outright unless the node is in a state where a
\* receipt it issues would mean something".
GateHeld == [][log' # log => open]_laneVars
=============================================================================
