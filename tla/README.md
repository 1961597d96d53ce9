# Verification of the Technocore contribution node

TLA+ models of the node in `src/technocore_node/`, the TLC runs that check them on
small instances, and theorems about them that TLAPS checks for every value of the
constants. `PROJECT.json` lists the components, the runs, the theorems, the hazards,
and the source lines behind every definition.

The node takes signed jobs from other agents, runs one of four fixed tasks, signs the
result and a receipt, and posts both. What it promises is evidence: a receipt is made
once, is handed only to its requester, and what the ledger calls public is public. None
of it is hard to compute. All of it has to hold while tasks of one event loop interleave,
while a second process (the self-test, the CLI) shares the SQLite ledger, while the
upstream loses answers, deletes rooms and lets notes lapse, and while the process dies
between any two steps. The models are about that.

## 1. Inventory

### Components

| Part | Source | State it keeps | Operations |
| --- | --- | --- | --- |
| Job pipeline | `jobs/runner.py`, `ledger/db.py` | `jobs`, `results`, `receipts`, `job_rejections`, declared self-tests; in memory `_in_flight`, the semaphore | `handle`, `_run`, `_execute`, `_retire` |
| HTTP lane | `api/jobs.py` | `http_nonces` | `submit_job` |
| Mailbox reading | `service/node.py` | `cursors`, `messages` (inbound) | `poll_mailbox_once`, `_read_from_cursor`, `_verify_position`, `_restart_cursor` |
| Audit copies | `service/node.py` | `receipts.audit_*`, the owned room's cursor | `publish_audit_copy`, `sync_owned_room`, `reconcile_audit_copies` |
| Ownership lease, gate | `service/node.py` | `deployment_state`: owner, renewal, failures | `run_ownership_lease`, `maintain_result_room_ownership`, `observe_reachability`, `owns_result_room`, `safety_state` |
| Signed writes | `protocol/client.py`, `publish_reporting` | nonce floors; `messages` (outbound) | `NonceAllocator.next`, `say_signed`, `_request`, `_read_back` |
| Reply-room publishing | `service/node.py` | `results.result_seq`, `receipts.technocore_seq` | `process_message`, `publish` |
| Claim and profile commands | `cli/main.py` | none of its own; the owner note, and the lease row of the ledger | `claim-room`, `publish-profile`, `recover-result-room` |
| Metrics | `metrics/collect.py`, `ledger/db.py` | none | `build_metrics`, `Ledger.metrics` |
| Self-test | `cli/main.py` | a declaration in the ledger | `cmd_selftest` |
| Watcher | `service/watcher.py` | `protocol_snapshots` | `capture` |
| Ledger | `ledger/db.py`, `schema.sql` | the database, `user_version` | transactions; on opening: added and retired columns, backfill, rewrite |
| Pure functions | `protocol/canonical.py`, `protocol/sweep.py`, `receipts/receipt.py`, `jobs/tasks.py`, `jobs/schema.py`, `crypto/didkey.py` | none | canonical JSON, sweep, hashes, signatures, chain verification |
| Read API, dashboard, logging, configuration, testnet | the rest | none | reads |

### How they interact

One event loop runs the mailbox loop, the lease loop, the watcher and every HTTP handler.
Between two awaits nothing else of the process runs; across an await anything may.
The mailbox loop polls (`RoomCursor`), hands each message to the pipeline (`JobRunner`),
posts the claim, result and receipt in the reply room (`MailboxLane`; one write by itself
is `SignedWrites`), owes a copy in the owned room, and reconciles what is owed (`AuditCopies`). The HTTP handler
(`HttpLane`) asks the gate, claims the request's nonce, joins or creates an attempt in
the same pipeline, and publishes the audit copy too. Every write to the owned room passes
`owns_result_room`, which reads what the lease loop and the observations left in the
ledger (`OwnershipLease`). `selftest` is a second process on the same ledger, and the
figures are read while it writes (`Figures`); others are the commands that claim the result
room and attest the profile in it (`RoomClaim`). Each process opens the ledger file for
itself and migrates it if it is of an earlier shape (`LedgerMigration`).

### What is hard, and what makes each part correct

- **Pipeline.** A second submission while the first runs, a crash between the row, the
  result and the receipt, a second process. Correct means: no caller gets another
  requester's receipt, completion and receipt are one fact, result and receipt come from
  one attempt, a retry is not charged again, the node's own tests are never counted as
  third-party work, every caller is answered.
- **Reply room.** Three awaited writes after the receipt is stored, any of which may be
  unconfirmed, raise or be cut short. Correct means: what stands in the room is what the
  ledger holds, once and in order; the cursor passes nothing unsettled; the queue drains.
- **Claiming.** A claim whose answer was lost, a command interrupted between two awaits, a
  service that renews the same note. Correct means: nothing is written into a room before
  the room is ours, a lease recorded as live is one, and the command's answer is so.
- **Migration.** Statements that commit one by one in two processes. Correct means: who
  has opened the ledger finds the current shape, a true backlog, and a marker that
  stands only on a file that was rewritten.
- **Figures.** Seven SELECTs that are no snapshot. Correct means: what is published of
  third parties is never more than they did.
- **HTTP lane.** Concurrent requests and replays. Correct means: nonces reach the runner
  in rising order, what is answered from the ledger is the asker's, a retry is never
  refused for the rate it already paid.
- **Audit copies.** Two publishers of one row, a POST that landed and was not confirmed,
  a crash before the record. Correct means: "published" is true, an unconfirmed copy will be
  recognised, one loop never posts twice, no receipt is owed for ever.
- **Lease.** Three clocks, retries that back off, an upstream that forgets. Correct
  means: the guard is true when it says yes, nothing lands in a room that is not ours,
  an outage shorter than promised never costs the room.
- **Mailbox.** A cursor that outlives its room. Correct means: nothing that is still in the
  room is skipped, nothing is handled twice unless its cursor could not be written, nothing
  is held up for ever; and the exceptions, which come from lines that left no record, are
  known.
- **Signed writes.** Lost answers and late requests. Correct means: a write lands at most
  once, a confirmation names the message that was written, a nonce never rewinds.

`PROJECT.json` lists the hazards at their lines, with the properties that cover each,
and a note at each one that no run covers.

## 2. Modules

| Module | Models | Composes |
| --- | --- | --- |
| `JobContract` | abstract: what a ledger of jobs promises of each `job_id` (one owner, one answer that is never replaced and is shown to the owner only) | |
| `JobRunner` | the pipeline, every ledger call a step of its own | refines `JobContract` |
| `HttpLane` | `submit_job` | extends `JobRunner`, and implements it |
| `MailboxLane` | the poll loop's handling of its lines, and the reply room | extends `JobRunner`; keeps `JobContract` |
| `Figures` | the published figures, read beside two writing processes | extends `JobRunner` |
| `AuditCopies` | publication of receipts | `owns` stands for `OwnershipLease!Owns` |
| `OwnershipLease` | lease loop, observations, guard, reasons of the gate, a guarded write | |
| `RoomClaim` | the operator's commands beside the lease loop | the lease as `OwnershipLease` records it |
| `RoomCursor` | mailbox polls and cursors | |
| `SignedWrites` | nonces, retries, confirmation | |
| `LedgerMigration` | opening a ledger file of any earlier shape | |
| `*Proofs` | the theorems about the module they are named for | |
| `LaneProofs` | the theorems about the three modules around the runner | `HttpLane`, `MailboxLane`, `Figures`, on `JobRunnerProofs` |
| `MC*` | instances for TLC | |

**`JobRunner`.** The variables are the ledger's tables (`jobs`, `results`, `receipts`,
`expected` for the declarations, `rejections`), the process's memory (`inFlight`, and for
each attempt its place `pc` and its locals) and the callers (`state`, `joined`, `shown`).
A submission is a `Call`; the attempt it creates has its name. Each ledger call of `_run`
and `_execute` is an action. Steps between two awaits of one attempt do not interleave
with steps of the same process (`LoopFree`), and do with those of another process.
`Crash` clears a process's memory and keeps the ledger.

**`HttpLane`.** `phase` is where `submit_job` is: before the gate, awaiting the body, or
in the runner. Everything from the body to the hand-over is one step because the code
does not await there. The rest of the system is `JobRunner`'s own actions.

**`MailboxLane`.** `line` is the mailbox, `cursor` the durable cursor, `step` where
`process_message` is: before the line, in the runner, at one of the three writes, or done.
`Take`, `Woken`, `PublishReply` and `MoveCursor` are the code between two awaits. Each has a
variant that raises, because `poll_mailbox_once` takes an exception for handled; an
attempt's own ledger calls may raise too. A publication lands and is confirmed, lands
unconfirmed, or does not land, and only a confirmed one rewrites the result's row with its
`result_seq`. HTTP callers of the same jobs are `JobRunner`'s own.

**`Figures`.** `asked` counts the queries of `Ledger.metrics` in their order and `rows` is what each
selected; the writers are `JobRunner` unchanged. `TotalJobs` is the difference that is
published as `total_jobs`. Queries that count the same table in another way (requesters, latencies)
are read as the rows they count.

**`AuditCopies`.** `audit`, `seqOf`, `attempts` are the receipt row; `room` is the sequence of
receipts in the owned room; `step`, `target`, `landed` are each task's `publish_audit_copy`;
`at`, `readTo`, `queue` are the loop's reconciliation. A POST lands, is confirmed, is given
up or lands after that, as separate steps.

**`OwnershipLease`.** Time is a counter; the wall clock is that plus `skew`; the loop's
two deadlines and its local failure count are variables, as are the ledger's renewal
record and observation. Any request takes up to `Latency`. `Reasons` is `safety_state`'s
list; lemma `GatesAgree` of the proofs shows that it is empty of ownership reasons exactly
when `owns_result_room` says yes.

**`RoomClaim`.** `note`, `noteAge`, `born`, `copies` and `shown` are the upstream's side: the owner
note, its age, whether the room holds a message, how many attestations, and whether one of
them is in the newest window, which is what `read_room` returns: receipts and strangers'
messages (`Receipts`, `Stranger`) may push it out. `late` holds writes that
were sent and whose caller is gone, because the client timed out or the operator pressed
Ctrl-C. A command is one run of `claim-room`, `recover-result-room` or `publish-profile`;
`at` is the await it is in, and so it is of the lease loop, whose renewal reads the owner
(`RefreshReads`) and writes without `if_absent` (`Rewrite`) in two steps. `publish-profile` asks
the guard twice: `GuardPublish` decides whether the room is read, `GuardAgain` whether to
post, and `found` is what the first left the second. `Publish` asks a third time, at the sink.
Recovery has one word, `False`, for a write that was refused and for one that is
unconfirmed. Commands may be run any number of times.

**`LedgerMigration`.** `Init` is any file an earlier build may have left: no tables, or any
subset of the columns, with residue of a retired one. `at[p]` is the statement a starting process
is at; `_migrate` commits each `ALTER` by itself, so processes interleave between them. A
statement may find the database locked, an `ALTER` may lose its race and a process may die.

**`RoomCursor`.** The upstream room is a ring of messages with a generation; it is deleted
and comes back numbered on, numbered from 1 under a new generation, or from 1 under the old
one. `at` is which read of the poll comes next. `bodyOf` gives each message a sender and a text;
one that is not signed, or has no UTF-8 form to hash, moves the cursor and leaves no row
(`Recordable`), and so does one whose row the ledger fails to write. `recorded` is the newest row
at a seq, of whichever lifetime. Where there is none the check keeps the room, where it is an
earlier lifetime's the check may start over a room that was not replaced, and where it is of
the same sender as a text that cannot be hashed the check raises (`ProbeRaises`).

**`SignedWrites`.** `at[w]` is where `say_signed` is with write `w`; `late` holds requests the
client gave up on. The room accepts a request if its nonce is above the last.

Definitions under a comment that begins with `Slip` (or `Slips`) are not part of the
specifications: each is a variant of the definition after it, the way a plausible bug
would write it. `PROJECT.json` names the property that fails when the variant is used.

## 3. Runs

`tlc -workers 2 -config <cfg> <module>` repeats a run.

| Run | Question | States |
| --- | --- | --- |
| `mailbox_lane` | five lines (unsigned, good, malformed, one no row can be written for, a stranger's of the same id) and an HTTP request for the same job; one crash, or one ledger call that raises: does the reply room say once and in order what the ledger holds, does the cursor pass anything unsettled, does the queue drain? `JobContract` as a property | 127 k |
| `http_lane` | the same bytes twice, a fresh nonce, a mailbox line, a stranger who guesses the id, malformed jobs, a crash, a moving gate; `JobRunner` as a property | 381 k |
| `figures` | two processes race for the self-test's job, one may die, a stranger names it, once in a malformed line, and the figures are read meanwhile: is it ever recorded, or counted, as third-party work? | 590 k |
| `audit` | loop and HTTP callers, unreadable room, late POSTs, a crash, a foreign receipt in the room: is "published" true, is an owed copy ahead of the cursor, does one publisher's late failure unmake what the other made public? | 2.0 M |
| `audit_loop` | one loop, a row a cycle, two crashes, a receipt too large and a damaged row: is a copy posted twice, does every copy settle? | 107 k |
| `lease` | a loop that is late, fails or stops, a note that lapses, strangers: is the guard true, does a write stray? | 2.7 M |
| `lease_timely` | renewals failing for as long as promised, and a clock set back: does the lease hold? | 480 k |
| `room_claim` | commands without number beside the service and its receipts: lost answers, failed reads, interruptions, late writes, strangers, notes that lapse: is a room foreclosed, a lapsed lease called live, an attestation doubled that could be seen, an answer false, a claim unnoticed? | 855 k |
| `room` | a ring that overflows and is replaced twice, a line that leaves no record, a failing read or write, a moving gate, a crash: skipped, repeated, left for ever? | 412 k |
| `writes` | three writes that say the same; lost, late and retried requests, a crash, a clock that steps back a little | 2.5 M |
| `migration` | two processes open a file of any earlier shape, two faults: does who has opened it find the shape, the backlog and the marker true, and does everybody open it at last? | 72 k |
| `selftest_finished` | refuted: see below | |

Each module states its type invariant. `audit` checks that of `AuditCopies`; those of the
other modules hold under the `.cfg` of their run as well, where they can be added, and
`TypeCorrect`, `MailboxTyping`, `Typing` and `AuditTypes` prove four of them. Kept beside the
runs: `MCJobRunner.cfg` (four callers of two jobs at a limit of one), whose properties are
theorems or are checked through the composed modules.

### Disagreements between the code and what it says

Each row is a configuration TLC refutes. The first is a run of `PROJECT.json`;
the others are kept beside them and are repeated with `tlc -config <cfg> <module>`.
Line numbers are of files under `src/technocore_node/` unless they begin with `docs/`.

| Configuration, property | What is said | What the code does |
| --- | --- | --- |
| `MCSelfTestFinished.cfg` of `MCSelfTest`, `FinishedIffReceipt` | "marking the job finished and holding its receipt are one fact" (`jobs/runner.py:448-449`) | the loser of a race between two processes sets a finished job back to `claimed`, and a crash leaves a receipt beside an unfinished job |
| `MCRoomBack.cfg` of `MCRoomCursor`, `BackOnlyWhenReplaced` | "the room was replaced, and is read again from its first message. Moving a cursor backwards is otherwise never allowed" (`service/node.py:648-650`) | the cursor stands at a line that left no row, and the row found at its seq is an earlier lifetime's: the check moves the cursor to 0 in a room nobody replaced |
| `MCRoomClaimTwice.cfg` of `MCRoomClaim`, `RetryReadsFirst` | "Re-run this command — it reads the room first and will not write a second one" (`cli/main.py:350-351`) | the room is read only if the guard says yes at line 276, and the guard is asked again at 304: when the service restores its record in between, the retry posts unread |
| `MCLeaseClock.cfg` of `MCOwnershipLease`, `OwnsIsOurs` | "The failure count catches everything the age cannot see: a clock moved backwards ..." (`service/node.py:912-914`) | no failure is counted while the process is down or the loop late, so a wall clock that stepped back makes a lapsed lease look live |
| `MCFiguresZero.cfg` of `MCFigures`, `ZeroMeansZero` | "Zero means zero" (`metrics/collect.py:41`); "when nobody has used the node the answer is zero" (`README.md:186-188` of the repository) | the total is counted before the internal ones: a self-test that inserts its row in between makes the difference -1 |
| `MCJobRunnerTwice.cfg` of `MCJobRunner`, `NeverExecutedTwice` | "the same `job_id` is never executed twice, whatever it says" (`jobs/runner.py:201-202`); "A restart does not re-run the job" (`docs/ARCHITECTURE.md:109`) | a crash between task and receipt makes the task run again |
| `MCAuditLoopUnreadable.cfg` of `MCAuditLoop`, `CopiedOnce` | the room "is consulted before anything is written to it again. This is what makes retrying safe" (`service/node.py:504-506`) | a failed read is swallowed and the publishing goes on, so an unconfirmed copy is posted again, unless the upstream refuses the duplicate text |
| `MCAuditAnnounced.cfg` of `MCAuditCopies`, `NeverAnnouncedAgain` | a published row "must never be announced a second time" (`ledger/db.py:668-669`) | the loop fetches a batch before its first await; a row an HTTP caller publishes meanwhile is announced again |
| `MCRoomTail.cfg` of `MCRoomCursor`, `NothingSkipped` | "The message at the cursor can [say which happened] ... A different one — the room was replaced, and is read again from its first message" (`service/node.py:644-649`) | a message arriving between the two reads of a position check is never compared, the new generation is adopted, and the start of the new room is skipped |
| `MCRoomSame.cfg` of `MCRoomCursor`, `NothingSkipped` | the same (`service/node.py:643-644`) | sender and text are compared and the nonce is not: a requester who repeats the same words makes a new room look like the old one |
| `MCHttpNonce.cfg` of `MCHttpCallers`, `RefusedKeepsNonce` | "a refused request should not cost the caller a counter" (`api/jobs.py:141-142`) | two concurrent jobs at the limit both pass the first check; the one refused by the second has spent its nonce |
| `MCHttpGate.cfg` of `MCHttpCallers`, `GateHeld` | "the same gate the mailbox lane passes" (`api/jobs.py:16-17`) | the gate is asked before the body is awaited and not again: it may be closed when the job is accepted |
| `MCWritesRewind.cfg` of `MCSignedWrites`, `NoRewind` | "the stored high-water mark covers the case where the clock goes backwards" (`protocol/client.py:127-130`) | unconfirmed writes are not in the mark: a clock that stepped back over a restart rewinds the nonce |

`MCAuditTakenBack.cfg` of `MCAuditCopies` shows a limit that nothing in the repository denies:
`PublishedStays` fails, because `note_audit_attempt` (`ledger/db.py:645`) quarantines whatever the
row's state is, so a late failure of one publisher takes the word "published" back from a
row another published. What it stood for stays (`SeqIsEvidence`, run `audit`).

One disagreement was met that no configuration states. A file whose marker is already set gets no
`VACUUM` when a column is retired later (`ledger/db.py:174`), although
`tests/integration/test_review_findings.py:385-388` asks for one after every retirement; the
present list of retired columns never grows, so `MarkedIsScrubbed` holds.

What the passing runs leave out of these they exclude by their constants and never by a
guard of the model: `audit_loop` has no unreadable room, `room` no growth up to the cursor between
the two reads of a check and no repeated words, `writes` no step back longer than a restart.
The rest is in the runs, and a history variable says that it happened, so that a property
is about everything else:

- `room`: `stale`, a room that was not replaced was started over; `cut`, how often a message was
  handled and its cursor not written; `blind`, a check kept a replaced room, because
  nothing was recorded at the cursor or the ledger failed before its answer was written.
  Without `stale` TLC refutes `HandledOnce`, without `blind` it refutes `NothingSkipped`. And
  `EveryMessageSettles` supposes that in the end the line at the cursor is one a check can
  tell (`Unsure`), because while it is not the checks raise or start over, again and again:
  without that TLC finds the message that waits for ever.
- `room_claim`: `lateCopy`, an attestation landed after its command had ended
  ("This does not make a duplicate impossible", `cli/main.py:267-271`); `behind`, the read window did not hold
  the attestation; `unread`, the second guard let write who had not read.

### Bounds, and why they are enough

- `HttpLane`: every hazard needs at most two callers of one job, one job more to fill the
  limit, and a stranger; `MaxConcurrent = 1` makes attempts queue; `JobsPerHour = 1` makes
  the second job meet the limit. One crash separates any two steps.
- `MailboxLane`: one job, because lines are handled one after another and what one can do
  to another goes through the row, the in-flight table or the cursor, which the HTTP
  request and the stranger's line of the same id share with it. One fault, a crash or a
  call that raises, at any step.
- `Figures`: one `job_id`, four calls for it and one crash: the job that is counted is
  the one two processes and a stranger fight for. `FiguresHonest` has no such bound.
- `RoomClaim`: `Retention = 3` and `LeaseLimit = 2` keep the order of the code's limits; three
  ticks let a note lapse after unrenewed ones; two faults are a lost answer and what
  may go wrong with the retry or the renewal; `copies` counts to two. Commands are not bounded: they end where they began.
- `LedgerMigration`: one retired column, and the added columns the backfill depends on
  beside one it does not; two receipts of which one is internal; two faults let both processes
  fail once, or one of them twice.
- `AuditCopies`: two receipts make the queue's order matter and let the batch outlive
  an await; `MaxAttempts = 2` distinguishes a failure from the last one. `audit_loop` has
  three rows and a batch of one, so that a row that cannot be published comes first in
  some order and is seen to hold up the others or not.
- `OwnershipLease`: the ratios of the code's limits are kept (renewal < lease age <
  retention), the values are not: 6 h, 24 h and 7 d become 1, 2 and 5 ticks, and 2, 6
  and 14 in `lease_timely`, whose retry and outage bounds keep "six days of seven".
  `MaxTime` reaches the retention of a note written in the first tick; `lease_timely`
  goes past it.
- `RoomCursor`: a ring of two and a page of one overflow within three posts, so that a
  backlog needs the export and an unread message can age out; two deletions let a
  renumbered room be replaced again. The second of the three messages cannot be hashed, so
  it stands with and without a row of an earlier lifetime under it.
- `SignedWrites`: three writes of one text are what a confirmation must tell apart; a
  window of two, two tries, and one stranger's message, which can push a write out of
  the window. `MaxBack = 1` is less than `Startup`. The three writes are interchangeable,
  so the run uses symmetry; it checks no liveness.

Counters that the code lets grow (posts, crashes, clock, moves of the gate) stop at
their bound. Runs of such models set `CHECK_DEADLOCK FALSE`, because a system whose
callers are all answered, whose processes have all started, or whose bounds are all
spent, really stops; `AuditCopies` never does and its runs check deadlock.

### Fairness

- `MailboxLane!MailboxFairness`: weak fairness of the line's handler, of the live attempts
  and of the waking of HTTP callers. The event loop runs what is ready, `asyncio.wait_for`
  bounds the task, the client's timeouts bound a write, and the poll loop catches what a
  poll raises and polls again; after a crash the service is restarted
  (`Restart=on-failure`). Nothing makes an HTTP client act, a call raise or a process die.
- `AuditCopies!Fairness`: the loop goes on and every request ends, answered or not.
  `EveryCopySettles` supposes besides that ownership is kept in the end; without it the
  code holds receipts on purpose.
- `RoomClaim!FairSpec`: the service's lease loop and its look at the upstream come round
  again. The operator never has to act: `ClaimIsNoticed` is about a claim whose command
  never learnt of it.
- `LedgerMigration!FairSpec`: each process goes on with its start, and a start that failed is
  tried again; faults are bounded.
- `RoomCursor!FairSpec`: the loop polls for ever. Reads may fail up to the bound, and
  `EveryMessageSettles` supposes that the gate is open in the end.

## 4. Theorems

`tlapm <module>` checks a proof module. Each theorem holds for any number of callers,
processes, jobs, writes and crashes, and any limits the module's `ASSUME` allows.

- **`JobRunnerProofs`**, for any number of processes — `TypeCorrect`, `RequesterIsolation`
  (`OnlyItsRequester`) and `SelfTestsNeverThirdParty` (`OwnTestsStayInternal`).
  `OnlyItsRequester` is not inductive: what a caller is handed depends on the attempt it
  joined and on the row that attempt found. The invariant adds that an attempt between its
  insert and its receipt holds its own requester's row, that a receipt names its row's
  owner, that "duplicate" was said of the asker's own receipt, that the in-flight
  table files an attempt under its job, and that a joined attempt has the caller's
  requester. For the self-tests it follows the declaration from the CLI to the row that
  spends it: a posted self-test is declared still, or its row is internal already.
- **`JobRunnerProofs`**, assuming `JobInOneProcess` (the calls of a job go to one process)
  — `ImplementsContract` (`ContractSpec`), `FinishedIsAnswered` (`FinishedIffReceipt`),
  `OneSignature` (`ReceiptMatchesResult`) and `HandedOutIsOnRecord`. Without the assumption
  `selftest_finished` refutes the second. They rest on one invariant: attempts of one job
  take turns, because the in-flight table holds whoever has not ended (`Exclusive`); an
  attempt past the duplicate check finds no receipt (`Unanswered`); one at its receipt has
  its own result stored (`ResultStored`); an answer, once built and ended, is the receipt on
  record (`AnsweredKept`). With that each step maps to a step of `JobContract` or to a
  stutter. `LimitHolds` (`WithinRateLimit`) assumes instead that a requester's calls go to one
  process, and that there are finitely many jobs: the rate check and the insert are two
  ledger calls with no await between them, so an attempt that passed the check has the
  only turn until it inserts (`OneTurn`, `RoomLeft`).
- **`LaneProofs`, the mailbox lane** — `PostedIsOnRecord` (`RepliesOnRecord`), `PostedOnce`
  (`RepliedOnce`), `NothingLeftBehind` (`PassedIsSettled`), `MailboxTyping`, and what the runner
  promises, kept by a lane whose steps are not all steps of the runner: `MailboxKeepsRunner`
  (five invariants), `MailboxImplementsContract` (`ContractSpec`) and `MailboxKeepsLimit`
  (`WithinRateLimit`). They assume nothing: the lane is one process. (The last needs finitely
  many jobs.) The runner's invariant `Keeps` is preserved by the three steps the lane adds: a
  line read again (`ReadAgainKeeps`), an attempt that raises (`RaiseKeeps`), and the stored
  result written once more, which changes nothing because the receipt on record is the awaited
  attempt's (`PublishLeavesRunner`). The lane's own invariant, `MailInv`, has four groups.
  `Handling`: the handler waits exactly where its line does, and an attempt that ended in
  nothing had raised. `Answering`: one attempt at most answered a job (`OneAnswer`); while its
  answer is posted the receipt on record is its own (`Announcing`); and an answer that can still
  be awaited has not been posted and is not being posted (`Unposted`). That last part needs the
  callback order of asyncio: an attempt leaves the in-flight table before the handler that
  waits for it goes on, so nobody can join it any more when its answer is posted. `InRoom`: of
  the job being posted the room holds what comes earlier, and no more (`InTurn`). `Dealt`: a
  line that was handled is settled, and stays so.
- **`LaneProofs`, the HTTP lane** — `LaneImplementsRunner`: every step of the lane is a step of
  `JobRunner` or changes none of its variables. `LaneIsolation`, `LaneKeepsContract`,
  `LaneKeepsLimit` and `LedgerAnswers` (`GivenIsTheirs`) are carried over by it, the last three
  for one process. `ReplayRunsNothing` (`AcceptedInOrder`) needs that the log of
  hand-overs is counted in the nonce table. `OwnJobIsAnswered` (`OwnJobNeverLimited`), for
  the assumptions of `LimitHolds`: whoever is refused has no row and a full count
  (`NoRow`), the count never falls, and an insert in his name needs room in it; the refusal
  an attempt ends in reaches its callers through `JoinedSame`.
- **`LaneProofs`, the figures** — `FiguresHonest` (`TestsNeverCounted`), for any interleaving of
  the SELECTs with any number of writers: rows are only added and their `internal` is never
  rewritten, so what an earlier query selected is part of what a later one would.
- **`RoomCursorProofs`** — `Typing` (`TypeOK`); `OnceButForCuts` (`HandledOnce`), whatever the
  messages say, whichever of them leave a record and however the room is deleted, renumbered
  and grows; and `ReadInOrder`
  (`NothingSkipped`), assuming `Told`: a renumbered room stays below the cursor until it is
  read, and no two messages have the same sender and words. `MCRoomTail.cfg` and
  `MCRoomSame.cfg` break `NothingSkipped` without one or the other. An id is a seq plus the
  messages of the lifetimes before (`Base`), and a batch comes from one lifetime (`FromHere`,
  `FromBefore`). `HandledOnce` counts: unless a check went by an earlier lifetime's record, there is a set,
  no larger than the number of cuts, outside which a handled message is under way or
  behind a cursor that no check can refute (`Once`). For the order, the room is a ring without gaps (`Ringed`), a batch holds all that the
  room does between two of its messages and, in the handling, all from the cursor on
  (`Convex`, `Covers`), and a row at the cursor, if it is of this lifetime, says that
  all below was handled (`Anchored`): nothing is supposed of a cursor without a row, or with
  an older one, and `blind` is what a check may then miss.
- **`AuditCopiesProofs`** — `AuditTypes`, `PublicClaimIsTrue` (`PublishedIsInRoom`) and
  `LandedIsRecognised` (`OwedCopyIsAhead`). The first invariant adds that what a task's POST
  landed as is the task's receipt, and that nobody publishes before there is a receipt. The
  third needs the order of the code: `RowBeforeCopy`, that a position the loop has
  read has had its row marked before the cursor moves over it; `BatchMarked`, how far a
  batch under way has been; and that a foreign message stands for no receipt of ours.
  `EvidenceStays` (`SeqIsEvidence`) is for any number of publishers: whoever fails late, a row
  that has an `audit_seq` has its copy there and is not queued again, although the word
  "published" may be lost (`MCAuditTakenBack.cfg`). `PostedOnce` (`CopiedOnce`) assumes `LoopAlone`: no HTTP
  caller publishes beside the loop, the room can be read when it is asked, and a POST given up on
  does not land later; answers may be lost and processes may die.
  `MCAuditLoopUnreadable.cfg` refutes it without that. Then a batch is fetched only after
  the whole room was matched against the ledger in the same cycle, so a row still owed has no copy
  there (`RoomKnown`); the rows of a batch are distinct, and each stays unposted until its
  turn (`QueueNew`, `TargetNew`).
- **`OwnershipLeaseProofs`** — `GuardIsTrue` (`OwnsIsOurs`) and `WritesNeverStray`
  (`NeverStrays`), under `NotBack`: the wall clock never steps back. `MCLeaseClock.cfg` shows
  the assumption is needed. The invariant says that a renewal is recorded at most a
  `Latency` after its write, so a note that lapsed did so a retention after the last
  recorded renewal; `LeaseMaxAge + 2 * Latency < Retention` does the rest. `GatesAgree`
  relates the guard to the reasons of `safety_state`. `OutageIsOutlasted` (`NeverLapses`) does
  without `NotBack` and assumes `InTime`: the loop is never late, and `MaxOutage + Renewal <
  Retention`, which the code's 6 h and 7 d meet for an outage of six days. Its invariant
  (`NoteKept`) follows the monotonic deadline: no back-off is longer than the renewal
  interval, whatever the exponential is (`DelayBounded`), so the loop wakes at most one
  interval after the last attempt that could fail.
- **`RoomClaimProofs`** — `NothingForeclosed` (`NeverForeclosed`), `LiveLeaseIsOurs` (`LeaseIsTrue`),
  `AnswersAreTrue` (`ReportIsTrue`) and `OneAttestation` (`AttestedOnce`), for any number of
  commands, faults and ticks. `GuardIsTrue` says what the guard stands for: while the recorded
  lease is live the note is ours, and no older than the record; so it is right after an
  answered write, and while an attestation is under way. A renewal's read of the owner
  is not part of it, because the write without `if_absent` may come after the note lapsed or
  was taken: that its answer is believed, and nothing else, is enough. `CommandIsCareful`
  says what a command knows of the room at each of its awaits, and `FewCopies` which of
  them can be reached beside a copy that could be seen.
- **`LedgerMigrationProofs`** — `ShapeAlways` (`OpenedHasShape`), `BacklogAlways`
  (`BacklogIsQueue`) and `MarkerAlways` (`MarkedIsScrubbed`), for any columns and any number of
  processes: a statement is passed only when its column is settled, by whichever
  process, and nothing that runs later unsettles it.
- **`SignedWritesProofs`** — `WritesLandOnce` (`LandsOnce`) and `ConfirmationIsTrue`
  (`ConfirmedIsStored`), whatever the clock does: the key's messages are in the room in the
  order of their nonces, and every copy of a write carries the nonce it began with.
  `NoncesRise` (`NoRewind`) assumes `RestartOutlasts`: a restart takes a millisecond for
  each write of a process and for how far the clock steps back. The invariant (`Ahead`) bounds how
  far the highest nonce is ahead of the clock, in a process that has an allocator and after
  a death that lost it. `MCSignedWrites.cfg` meets the assumption with equality, and
  `MCWritesRewind.cfg`, with a larger step back, breaks the property.

Model-checked only: liveness (`QueueDrains`, `RowGetsReceipt`, `EveryCopySettles`,
`EveryMessageSettles`, `ClaimIsNoticed`, `OpensAtLast`), which TLAPS does not prove under
fairness; and the type invariants of the modules no theorem above names
(`OwnershipLease!TypeOK` says that a back-off is a natural number, and the provers know of
an exponential only that it is an integer). Every safety invariant and every action
property of a passing run is a theorem, under the assumptions named above.

## 5. What the models leave out

- **`JobRunner`** lies within one hour, so no row leaves the rate-limit window. The result
  is its attempt's serial number; the tasks are not computed. Storing a ledger row does
  not fail, except in `MailboxLane`. The CLI's self-test is never retried.
- **`MailboxLane`**: how lines are read and what becomes of the cursor when the room is
  replaced is `RoomCursor`; the gate that holds the loop, and the copy to the owned room, are
  `AuditCopies` and `OwnershipLease`. One process: the self-test is in `Figures`.
- **`Figures`**: the task breakdown, the completion rate, the percentiles of the latencies and the
  parts of the document that are not about jobs are left out.
- **`RoomClaim`**: a request is short against a tick, so a note does not lapse within one; the
  two requests of a renewal are two, and it may lapse between them. The retry of a
  renewal whose nonce was contended (409) is the same step. The upstream refuses a renewal
  of another's note, which the code takes a 403 for.
  `inspect-result-room` and the dry runs write nothing. The result room is the only room.
- **`LedgerMigration`**: an earlier build that runs after this one has migrated the file, and the
  insides of SQLite: a statement commits whole or not at all, and `VACUUM` rewrites the file or
  fails.
- **`HttpLane`**: a request that fails its signature, size or syntax leaves no state and is
  not modelled; a malformed *job* is. Self-tests are a second process and not part of it.
  The gate is one boolean that may move.
- **`AuditCopies`**: receipts of third-party jobs only (`record_receipt` stores the node's own
  tests as published), and one lifetime of the owned room. `RoomCursor` models the
  replacement of a room. No property of it is claimed under a failed `set_audit_seq`.
- **`OwnershipLease`**: a host suspend, during which the monotonic clock stands still, is
  not modelled. A request is answered within `Latency`, and Python's scheduling costs
  no time in `lease_timely`.
- **`RoomCursor`**: a row's `created_at` follows the order of writing, so a wall clock that
  stepped back does not make an older row the newest at its seq. The upstream always names the generation, and the messages' `seq` is
  always well formed. `Refill` is the room for growth of a renumbered room between
  two reads of it. With `-1` it stays below the cursor; a room that reaches the cursor
  before it is read again is the limit that `CHANGELOG.md:120-122` documents, and the model
  shows that reaching the cursor exactly suffices. The `mailbox_gap` and `room_restarted`
  reports are not modelled.
- **`SignedWrites`**: one process and one room. A restart takes at least `Startup`
  milliseconds, no fewer than the writes of a process, so that the nonces that ran ahead
  of the clock are behind it after a restart. The 19-digit clamp is out of reach.
- External: the upstream's rules (a ring, one nonce rising for each key and room, notes that
  lapse, `d-` rooms ownable from birth or not at all) are modelled from how
  `protocol/client.py` and `service/node.py` use it.
- Not modelled: see the components of status `not_modelled` in `PROJECT.json`, with the
  reason for each.

## 6. Plan

Built so far, in order: `JobRunner` with its contract and proofs, `AuditCopies`,
`OwnershipLease`, `RoomCursor`, `SignedWrites`, `HttpLane`, `MailboxLane`, `RoomClaim`,
`LedgerMigration`, `Figures`. Next:

1. Two processes in `SignedWrites`, for the CLI beside the service (the allocators of two
   processes are seeded apart), and the gap and restart reports of `RoomCursor`.
2. Theorems: the type invariants that are only model-checked, and what two processes keep
   of the runner's invariant when `JobInOneProcess` fails.
3. `Watcher`: what "changed" means after an unavailable document.
4. Pure algorithms against a reference definition: the order of keys and the nesting
   bound of canonical JSON, stability of the sweep, `verify_chain`, the rate-limit window
   over a sliding hour.
