--------------------------- MODULE OwnershipLease ---------------------------
(***************************************************************************)
(* Who owns the result room, as service/node.py keeps it: the lease loop   *)
(* (run_ownership_lease, maintain_result_room_ownership), the observations *)
(* of it and of the mailbox loop (observe_reachability), the guard         *)
(* owns_result_room, and a write that passes the guard.  Ownership is a    *)
(* note upstream, deleted after a retention time without a write.          *)
(*                                                                         *)
(* Time is counted in ticks of the upstream's clock; the node's wall clock *)
(* is now + skew, its monotonic clock runs with now while it is up.        *)
(***************************************************************************)
EXTENDS Integers

CONSTANTS Renewal,      \* OWNERSHIP_RENEWAL_SECONDS
          RetryFloor,   \* OWNERSHIP_RETRY_FLOOR_SECONDS
          Observation,  \* OWNERSHIP_OBSERVATION_SECONDS
          MaxDoublings, \* _MAX_BACKOFF_DOUBLINGS
          LeaseMaxAge,  \* OWNERSHIP_LEASE_MAX_AGE_SECONDS
          MaxFailures,  \* OWNERSHIP_MAX_CONSECUTIVE_FAILURES
          ObsMaxAge,    \* OWNERSHIP_MAX_AGE_SECONDS
          Tolerance,    \* _CLOCK_TOLERANCE_SECONDS
          Retention,    \* UPSTREAM_NOTE_RETENTION_SECONDS
          Latency,      \* bound on a request's way back, and on a POST's way there
          Watcher,      \* tasks that observe: the lease loop and the mailbox loop
          LeaseLoop,    \* the one that renews
          Timely,       \* the loop runs as soon as it is due, and never stops
          MaxOutage,    \* longest time renewals may keep failing in a timely run
          Steps,        \* steps of the node's wall clock
          MaxSteps,     \* bound on their number
          MaxTime       \* bound on the clock

ASSUME LeaseAssumption ==
  /\ {Renewal, RetryFloor, Observation, LeaseMaxAge, MaxFailures, Retention,
      MaxDoublings} \subseteq Nat \ {0}
  /\ {ObsMaxAge, Tolerance, Latency, MaxOutage, MaxSteps, MaxTime} \subseteq Nat
  /\ LeaseMaxAge + 2 * Latency < Retention
  /\ LeaseLoop \in Watcher
  /\ Timely \in BOOLEAN
  /\ Steps \subseteq Int

Owner == {"us", "other", "nobody"}
Never == "never"

VARIABLES
  \* upstream
  now,
  note,       \* the ownership note
  writtenAt,  \* when this node's note was last written
  used,       \* the room holds messages: it can never be claimed again
  \* the ledger
  owner,      \* owned_room_owner, "never" before it was observed
  ownerAt,    \* its timestamp
  readError,  \* owned_room_error is set
  renewed,    \* owned_room_renewed: a set of at most one timestamp
  failures,   \* owned_room_renewal_failures
  \* the node
  skew,       \* its wall clock minus the upstream's
  stepped,    \* wall clock steps so far
  at,         \* where the lease loop is
  seen,       \* the owner it read
  outcome,    \* what its maintenance did
  streak,     \* its local failure count
  monoDue,    \* its two deadlines, and when it wakes to look at them
  wallDue,
  wake,
  askedAt,    \* when its write reached the upstream
  watch,      \* [Watcher -> what its observation read]
  watchedAt,  \* [Watcher -> Nat]
  post,       \* a message on its way to the room
  postedAt,
  strayed     \* history: a message landed in a room that was not ours

world == <<now, note, writtenAt, used>>
ledger == <<owner, ownerAt, readError, renewed, failures>>
clock == <<skew, stepped>>
lease == <<at, seen, outcome, streak, monoDue, wallDue, wake, askedAt>>
looking == <<watch, watchedAt>>
writing == <<post, postedAt, strayed>>
vars == <<world, ledger, clock, lease, looking, writing>>

Wall == now + skew

TypeOK ==
  /\ now \in Nat /\ writtenAt \in Nat
  /\ note \in Owner
  /\ used \in BOOLEAN /\ readError \in BOOLEAN /\ strayed \in BOOLEAN
  /\ owner \in Owner \cup {Never}
  /\ ownerAt \in Int
  /\ renewed \in SUBSET Int
  /\ failures \in Nat
  /\ skew \in Int /\ stepped \in 0 .. MaxSteps
  /\ at \in {"down", "sleep", "read", "write", "record", "observe"}
  /\ seen \in Owner
  /\ outcome \in {"renewed", "claimed", "failed", "owned_by_other", "unclaimable"}
  /\ streak \in 0 .. MaxDoublings
  /\ monoDue \in Nat /\ wallDue \in Int /\ wake \in Nat /\ askedAt \in Nat
  /\ watch \in [Watcher -> {"idle", "failed"} \cup Owner]
  /\ watchedAt \in [Watcher -> Nat]
  /\ post \in BOOLEAN /\ postedAt \in Nat

\* The node starts with the room just claimed by the operator (claim-room), or not.
Init ==
  /\ now = 0 /\ skew = 0 /\ stepped = 0
  /\ \/ /\ note = "us" /\ renewed = {0}
     \/ /\ note = "nobody" /\ renewed = {} /\ ~Timely
  /\ writtenAt = 0 /\ used = FALSE
  /\ owner = Never /\ ownerAt = 0 /\ readError = FALSE /\ failures = 0
  /\ at = "sleep" /\ seen = "nobody" /\ outcome = "failed" /\ streak = 0
  /\ monoDue = 0 /\ wallDue = 0 /\ wake = 0 /\ askedAt = 0
  /\ watch = [w \in Watcher |-> "idle"]
  /\ watchedAt = [w \in Watcher |-> 0]
  /\ post = FALSE /\ postedAt = 0 /\ strayed = FALSE
----------------------------------------------------------------------------
\* A record from the future is not fresh, it is wrong.
Fresh(timestamp, limit) == Wall - timestamp \in -Tolerance .. limit

\* Slip: a lease that was renewed once is taken for a live one.
LeaseIsRecorded == failures < MaxFailures /\ renewed # {}

\* _lease_is_live: the last renewal is recent and the failures are few.
LeaseIsLive == /\ failures < MaxFailures
               /\ \E t \in renewed : Fresh(t, LeaseMaxAge)

\* owns_result_room: confirmed, by a recent look, and on a lease that is kept.
Owns == /\ owner = "us"
        /\ ~readError
        /\ Fresh(ownerAt, ObsMaxAge)
        /\ LeaseIsLive

\* safety_state, which lets a stranger's job in: why it would not, as far as ownership
\* goes (the public URL is set).  It decides the question of owns_result_room in code
\* of its own.
Reasons ==
  LET checked == owner # Never /\ ~readError
      recent == Fresh(ownerAt, ObsMaxAge)
  IN {r \in {"stale", "unverified", "unchecked", "unowned", "foreign"} :
        \/ r = "stale" /\ checked /\ ~recent
        \/ r = "unverified" /\ readError
        \/ r = "unchecked" /\ owner = Never /\ ~readError
        \/ r = "unowned" /\ checked /\ recent /\ owner = "nobody"
        \/ r = "foreign" /\ checked /\ recent /\ owner \notin {"us", "nobody"}}

SafetyState == Reasons = {} /\ LeaseIsLive

\* An answer that has not come yet; the lease's is dated by its write.
Pending(start) == now < start + Latency

\* The lease loop has something to do.
Overdue == at \notin {"sleep", "down"} \/ (at = "sleep" /\ now >= wake)

Tick ==
  /\ now < MaxTime
  /\ at = "record" => Pending(askedAt)
  /\ \A w \in Watcher : watch[w] # "idle" => Pending(watchedAt[w])
  /\ post => Pending(postedAt)
  /\ Timely => ~Overdue
  /\ now' = now + 1
  /\ UNCHANGED <<note, writtenAt, used, ledger, clock, lease, looking,
                 writing>>

StepClock(d) ==
  /\ stepped < MaxSteps
  /\ stepped' = stepped + 1
  /\ skew' = skew + d
  /\ UNCHANGED <<world, ledger, lease, looking, writing>>

\* The upstream deletes a note nobody wrote to for the retention time.
Expire ==
  /\ note = "us"
  /\ now >= writtenAt + Retention
  /\ note' = "nobody"
  /\ UNCHANGED <<now, writtenAt, used, ledger, clock, lease, looking,
                 writing>>

\* An unowned room is anybody's: to claim, until there is a message, and to write.
Stranger ==
  /\ note = "nobody"
  /\ \/ ~used /\ note' = "other" /\ UNCHANGED used
     \/ used' = TRUE /\ UNCHANGED note
  /\ UNCHANGED <<now, writtenAt, ledger, clock, lease, looking, writing>>

----------------------------------------------------------------------------
\* Slip: the wall clock alone ends the wait.
WallOnly == Wall >= wallDue

\* Whichever deadline comes first ends the wait.
Due == now >= monoDue \/ Wall >= wallDue

\* Only a timely run bounds how long renewals may fail in a row.
MayFail == Timely => now - writtenAt <= MaxOutage

Wake ==
  /\ at = "sleep"
  /\ now >= wake
  /\ at' = IF Due THEN "read" ELSE "observe"
  /\ UNCHANGED <<world, ledger, clock, seen, outcome, streak, monoDue, wallDue,
                 wake, askedAt, looking, writing>>

Shorter(a, b) == IF a < b THEN a ELSE b

\* record_lease_outcome; past the limit the count says nothing more.
RecordRenewed == renewed' = {Wall} /\ failures' = 0
RecordFailed == failures' = Shorter(failures + 1, MaxFailures) /\ UNCHANGED renewed

\* How long to wait after an outcome, and the failures counted by then.
NewStreak(result) == IF result = "failed" THEN Shorter(streak + 1, MaxDoublings)
                                          ELSE 0
Delay(result) == IF result = "failed"
                 THEN Shorter(RetryFloor * 2 ^ (NewStreak(result) - 1), Renewal)
                 ELSE Renewal

\* The cycle's maintenance is over: both deadlines are set from one delay.
Finish(result) ==
  /\ streak' = NewStreak(result)
  /\ monoDue' = now + Delay(result)
  /\ wallDue' = Wall + Delay(result)
  /\ at' = "observe"

\* maintain_result_room_ownership reads the owner ...
ReadOwner ==
  /\ at = "read"
  /\ \/ /\ MayFail
        /\ RecordFailed
        /\ Finish("failed")
        /\ UNCHANGED seen
     \/ /\ note = "other"
        /\ Finish("owned_by_other")
        /\ UNCHANGED <<seen, renewed, failures>>
     \/ /\ note # "other"
        /\ seen' = note
        /\ at' = "write"
        /\ UNCHANGED <<streak, monoDue, wallDue, renewed, failures>>
  /\ UNCHANGED <<now, note, writtenAt, used, owner, ownerAt, readError, clock,
                 outcome, wake, askedAt, looking, writing>>

\* ... and writes the note: refreshed if it was ours, claimed if there was none.
\* Neither write replaces another key's note; an error may hide a write that was done.
Accepted == \/ note = "us" /\ seen = "us"
            \/ note = "nobody" /\ ~used

Write ==
  /\ at = "write"
  /\ \/ /\ Accepted
        /\ note' = "us"
        /\ writtenAt' = now
        /\ \/ outcome' = (IF seen = "us" THEN "renewed" ELSE "claimed")
           \/ MayFail /\ outcome' = "failed"
     \/ /\ ~Accepted \/ note # seen
        /\ outcome' = IF seen = "us" THEN "failed" ELSE "unclaimable"
        /\ UNCHANGED <<note, writtenAt>>
     \/ /\ MayFail
        /\ outcome' = "failed"
        /\ UNCHANGED <<note, writtenAt>>
  /\ askedAt' = now
  /\ at' = "record"
  /\ UNCHANGED <<now, used, ledger, clock, seen, streak, monoDue, wallDue, wake,
                 looking, writing>>

\* The answer arrives and the ledger is told.
Record ==
  /\ at = "record"
  /\ \/ outcome \in {"renewed", "claimed"} /\ RecordRenewed
     \/ outcome = "failed" /\ RecordFailed
     \/ outcome = "unclaimable" /\ UNCHANGED <<renewed, failures>>
  /\ Finish(outcome)
  /\ seen' = "nobody" /\ outcome' = "failed" /\ askedAt' = 0
  /\ UNCHANGED <<world, owner, ownerAt, readError, clock, wake, looking, writing>>

\* observe_reachability reads the owner, in any task ...
Look(w) ==
  /\ watch[w] = "idle"
  /\ IF w = LeaseLoop THEN at = "observe" ELSE at # "down"
  /\ \/ watch' = [watch EXCEPT ![w] = note]
     \/ MayFail /\ watch' = [watch EXCEPT ![w] = "failed"]
  /\ watchedAt' = [watchedAt EXCEPT ![w] = now]
  /\ UNCHANGED <<world, ledger, clock, lease, writing>>

\* ... and records what it found, or that it could not look.
Sleep == wake' = now + Shorter(Observation,
                               LET left == Shorter(monoDue - now, wallDue - Wall)
                               IN IF left < 1 THEN 1 ELSE left)

Note(w) ==
  /\ watch[w] # "idle"
  /\ \/ /\ watch[w] = "failed"
        /\ readError' = TRUE
        /\ UNCHANGED <<owner, ownerAt>>
     \/ /\ watch[w] # "failed"
        /\ owner' = watch[w]
        /\ ownerAt' = Wall
        /\ readError' = FALSE
  /\ watch' = [watch EXCEPT ![w] = "idle"]
  /\ watchedAt' = [watchedAt EXCEPT ![w] = 0]
  /\ IF w = LeaseLoop THEN Sleep /\ at' = "sleep" ELSE UNCHANGED <<wake, at>>
  /\ UNCHANGED <<world, renewed, failures, clock, seen, outcome, streak, monoDue,
                 wallDue, askedAt, writing>>

----------------------------------------------------------------------------
\* A write to the room passes the guard, travels, and lands.
Publish ==
  /\ at # "down"
  /\ ~post
  /\ Owns
  /\ post' = TRUE
  /\ postedAt' = now
  /\ UNCHANGED <<world, ledger, clock, lease, looking, strayed>>

Land ==
  /\ post
  /\ post' = FALSE /\ postedAt' = 0
  /\ used' = IF note = "other" THEN used ELSE TRUE
  /\ strayed' = (strayed \/ note # "us")
  /\ UNCHANGED <<now, note, writtenAt, ledger, clock, lease, looking>>

\* The process stops, for as long as it likes, and starts again: due at once.
Stop ==
  /\ ~Timely
  /\ at # "down"
  /\ at' = "down"
  /\ watch' = [w \in Watcher |-> "idle"]
  /\ watchedAt' = [w \in Watcher |-> 0]
  /\ seen' = "nobody" /\ outcome' = "failed" /\ askedAt' = 0 /\ streak' = 0
  /\ monoDue' = 0 /\ wallDue' = 0 /\ wake' = 0
  /\ UNCHANGED <<world, ledger, clock, writing>>

Start ==
  /\ at = "down"
  /\ at' = "sleep"
  /\ monoDue' = now
  /\ wallDue' = Wall
  /\ wake' = now
  /\ UNCHANGED <<world, ledger, clock, seen, outcome, streak, askedAt, looking,
                 writing>>

Next == \/ Tick \/ Expire \/ Stranger
        \/ \E d \in Steps : StepClock(d)
        \/ Wake \/ ReadOwner \/ Write \/ Record
        \/ \E w \in Watcher : Look(w) \/ Note(w)
        \/ Publish \/ Land \/ Stop \/ Start

Spec == Init /\ [][Next]_vars
----------------------------------------------------------------------------
\* What the guards say is true: when owns_result_room or safety_state answers
\* yes, the note upstream is this node's, however late the loop is and whatever
\* the last process left in the ledger.
OwnsIsOurs == Owns \/ SafetyState => note = "us"

\* Nothing this node writes lands in a room it does not own, although the note
\* may lapse between the guard and the landing.
NeverStrays == ~strayed

\* node.py: "a renewal may fail on six consecutive days ... and the lease still
\* holds": an upstream that fails no longer than that never costs the room.
NeverLapses == note = "us"
=============================================================================
