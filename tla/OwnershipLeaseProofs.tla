----------------------- MODULE OwnershipLeaseProofs -----------------------
(***************************************************************************)
(* The guard of the result room is sound for any constants that leave room *)
(* for two requests between the lease age and the retention, any tasks, any *)
(* lateness, failures and restarts, while the wall clock never steps back. *)
(* NotBack is that assumption; MCLeaseClock.cfg shows that it is needed.   *)
(* And a timely loop keeps the note through any outage that leaves it one  *)
(* renewal before the retention, whatever the wall clock does.             *)
(***************************************************************************)
EXTENDS OwnershipLease, TLAPS

NotBack == Steps \subseteq Nat

----------------------------------------------------------------------------
(* The inductive invariant. *)

LeaseTypes ==
  /\ now \in Nat /\ writtenAt \in Nat
  /\ note \in Owner
  /\ renewed \in SUBSET Int
  /\ skew \in Int
  /\ askedAt \in Nat
  /\ postedAt \in Nat

WrittenBefore == writtenAt <= now

\* A renewal is recorded at most a request after the write it reports; a clock
\* that only ever gains makes it look older, never younger.
RenewalIsWrite == \A t \in renewed : t - skew - Latency <= writtenAt

\* A note that is not ours lapsed a retention after the last renewal's write.
LapsedSince ==
  note # "us" => \A t \in renewed : t - skew - Latency + Retention <= now

\* Between an accepted write and its record the note cannot lapse.
RecordInTime ==
  at = "record" =>
    /\ now <= askedAt + Latency
    /\ outcome \in {"renewed", "claimed"} => note = "us" /\ writtenAt = askedAt

\* Nor can it between the guard and the landing.
PostInTime ==
  post => /\ now <= postedAt + Latency
          /\ postedAt <= writtenAt + Latency + LeaseMaxAge
          /\ note = "us"

LeaseInv == /\ LeaseTypes
            /\ WrittenBefore
            /\ RenewalIsWrite
            /\ LapsedSince
            /\ RecordInTime
            /\ PostInTime
            /\ NeverStrays
----------------------------------------------------------------------------
LEMMA Margins ==
  /\ Latency \in Nat /\ LeaseMaxAge \in Nat /\ Retention \in Nat /\ Tolerance \in Nat
  /\ LeaseMaxAge + 2 * Latency < Retention
BY LeaseAssumption

LEMMA LeaseInit == Init => LeaseInv
BY Margins DEF Init, LeaseInv, LeaseTypes, WrittenBefore, RenewalIsWrite, LapsedSince,
               RecordInTime, PostInTime, NeverStrays, Owner

\* The two guards agree.
LEMMA GatesAgree == SafetyState <=> Owns
<1>1. Owns => SafetyState
  BY DEF Owns, SafetyState, Reasons, Never
<1>2. ASSUME SafetyState PROVE owner = "us" /\ ~readError /\ Fresh(ownerAt, ObsMaxAge)
  <2>1. \A r \in {"stale", "unverified", "unchecked", "unowned", "foreign"} :
          r \notin Reasons
    BY <1>2 DEF SafetyState
  <2> QED
    BY <2>1 DEF Reasons, Never
<1> QED
  BY <1>1, <1>2 DEF Owns, SafetyState

\* The guard's yes is true in every state of the invariant.
LEMMA GuardIsSound == LeaseInv => OwnsIsOurs
<1> SUFFICES ASSUME LeaseInv, Owns, note # "us" PROVE FALSE
  BY GatesAgree DEF OwnsIsOurs
<1>1. PICK t \in renewed : Wall - t \in -Tolerance .. LeaseMaxAge
  BY DEF Owns, LeaseIsLive, Fresh
<1>2. t \in Int /\ now \in Nat /\ skew \in Int
  BY DEF LeaseInv, LeaseTypes
<1>3. t - skew - Latency + Retention <= now
  BY DEF LeaseInv, LapsedSince
<1>4. now + skew - t <= LeaseMaxAge
  BY <1>1, <1>2, Margins DEF Wall
<1> QED
  BY <1>2, <1>3, <1>4, Margins

\* A step that moves neither the note nor what the ledger knows of its renewal.
LEMMA UntouchedStep ==
  ASSUME LeaseInv, askedAt' \in Nat,
         UNCHANGED <<now, note, writtenAt, renewed, skew, post, postedAt, strayed>>,
         at' = "record" => UNCHANGED <<at, askedAt, outcome>>
  PROVE  LeaseInv'
BY DEF LeaseInv, LeaseTypes, WrittenBefore, RenewalIsWrite, LapsedSince, RecordInTime,
       PostInTime, NeverStrays

LEMMA TickStep ==
  ASSUME LeaseInv, Tick
  PROVE  LeaseInv'
<1>1. /\ now' = now + 1
      /\ at = "record" => now < askedAt + Latency
      /\ post => now < postedAt + Latency
      /\ UNCHANGED <<note, writtenAt, renewed, skew, at, askedAt, outcome, post,
                     postedAt, strayed>>
  BY DEF Tick, Pending, ledger, clock, lease, writing
<1> QED
  BY <1>1, Margins DEF LeaseInv, LeaseTypes, WrittenBefore, RenewalIsWrite, LapsedSince,
                       RecordInTime, PostInTime, NeverStrays

LEMMA ClockStep ==
  ASSUME NotBack, LeaseInv, NEW d \in Steps, StepClock(d)
  PROVE  LeaseInv'
<1>1. /\ skew' = skew + d
      /\ UNCHANGED <<now, note, writtenAt, renewed, at, askedAt, outcome, post,
                     postedAt, strayed>>
  BY DEF StepClock, world, ledger, lease, writing
<1>2. d \in Nat
  BY DEF NotBack
<1>3. /\ now \in Nat /\ writtenAt \in Nat /\ skew \in Int
      /\ \A t \in renewed : t \in Int
  BY DEF LeaseInv, LeaseTypes
<1>4. LeaseTypes'
  BY <1>1, <1>2 DEF LeaseInv, LeaseTypes
<1>5. RenewalIsWrite'
  BY <1>1, <1>2, <1>3, Margins DEF LeaseInv, RenewalIsWrite
<1>6. LapsedSince'
  BY <1>1, <1>2, <1>3, Margins DEF LeaseInv, LapsedSince
<1> QED
  BY <1>1, <1>4, <1>5, <1>6
  DEF LeaseInv, WrittenBefore, RecordInTime, PostInTime, NeverStrays

LEMMA ExpireStep ==
  ASSUME LeaseInv, Expire
  PROVE  LeaseInv'
<1>1. /\ note = "us" /\ note' = "nobody"
      /\ now >= writtenAt + Retention
      /\ UNCHANGED <<now, writtenAt, renewed, skew, at, askedAt, outcome, post,
                     postedAt, strayed>>
  BY DEF Expire, ledger, clock, lease, writing
<1>2. /\ now \in Nat /\ writtenAt \in Nat /\ skew \in Int /\ askedAt \in Nat
      /\ postedAt \in Nat /\ \A t \in renewed : t \in Int
  BY DEF LeaseInv, LeaseTypes
<1>3. LapsedSince'
  BY <1>1, <1>2, Margins DEF LeaseInv, RenewalIsWrite, LapsedSince
<1>4. RecordInTime'
  BY <1>1, <1>2, Margins DEF LeaseInv, RecordInTime
<1>5. PostInTime'
  BY <1>1, <1>2, Margins DEF LeaseInv, PostInTime
<1>6. LeaseTypes' /\ WrittenBefore' /\ RenewalIsWrite' /\ NeverStrays'
  BY <1>1 DEF LeaseInv, LeaseTypes, WrittenBefore, RenewalIsWrite, NeverStrays, Owner
<1> QED
  BY <1>3, <1>4, <1>5, <1>6 DEF LeaseInv

LEMMA StrangerStep ==
  ASSUME LeaseInv, Stranger
  PROVE  LeaseInv'
<1>1. /\ note = "nobody" /\ note' \in {"nobody", "other"}
      /\ UNCHANGED <<now, writtenAt, renewed, skew, at, askedAt, outcome, post,
                     postedAt, strayed>>
  BY DEF Stranger, ledger, clock, lease, writing
<1> QED
  BY <1>1 DEF LeaseInv, LeaseTypes, WrittenBefore, RenewalIsWrite, LapsedSince,
              RecordInTime, PostInTime, NeverStrays, Owner

LEMMA LoopStep ==
  ASSUME LeaseInv, Wake \/ ReadOwner
  PROVE  LeaseInv'
<1>1. at' # "record"
  BY DEF Wake, ReadOwner, Finish
<1>2. UNCHANGED <<now, note, writtenAt, renewed, skew, askedAt, post, postedAt, strayed>>
  BY DEF Wake, ReadOwner, RecordFailed, world, ledger, clock, writing
<1> QED
  BY <1>1, <1>2, UntouchedStep DEF LeaseInv, LeaseTypes

LEMMA WriteStep ==
  ASSUME LeaseInv, Write
  PROVE  LeaseInv'
<1>1. /\ at' = "record" /\ askedAt' = now
      /\ UNCHANGED <<now, renewed, skew, post, postedAt, strayed>>
      /\ \/ note' = "us" /\ writtenAt' = now
         \/ UNCHANGED <<note, writtenAt>> /\ outcome' \in {"failed", "unclaimable"}
  BY DEF Write, ledger, clock, writing
<1>2. /\ now \in Nat /\ writtenAt \in Nat /\ skew \in Int /\ postedAt \in Nat
      /\ writtenAt <= now /\ \A t \in renewed : t \in Int
  BY DEF LeaseInv, LeaseTypes, WrittenBefore
<1>3. LeaseTypes' /\ WrittenBefore' /\ NeverStrays'
  BY <1>1, <1>2 DEF LeaseInv, LeaseTypes, WrittenBefore, NeverStrays, Owner
<1>4. RenewalIsWrite' /\ LapsedSince'
  BY <1>1, <1>2, Margins DEF LeaseInv, RenewalIsWrite, LapsedSince
<1>5. RecordInTime'
  BY <1>1, <1>2, Margins DEF RecordInTime
<1>6. PostInTime'
  BY <1>1, <1>2, Margins DEF LeaseInv, PostInTime
<1> QED
  BY <1>3, <1>4, <1>5, <1>6 DEF LeaseInv

LEMMA RecordStep ==
  ASSUME LeaseInv, Record
  PROVE  LeaseInv'
<1>1. /\ at = "record" /\ at' = "observe" /\ askedAt' = 0
      /\ UNCHANGED <<now, note, writtenAt, skew, post, postedAt, strayed>>
      /\ \/ outcome \in {"renewed", "claimed"} /\ renewed' = {now + skew}
         \/ UNCHANGED renewed
  BY DEF Record, RecordRenewed, RecordFailed, Finish, Wall, world, clock, writing
<1>2. CASE UNCHANGED renewed
  BY <1>1, <1>2, UntouchedStep
<1>3. CASE outcome \in {"renewed", "claimed"} /\ renewed' = {now + skew}
  <2>1. /\ now \in Nat /\ writtenAt \in Nat /\ skew \in Int /\ askedAt \in Nat
    BY DEF LeaseInv, LeaseTypes
  <2>2. now <= askedAt + Latency /\ writtenAt = askedAt /\ note = "us"
    BY <1>1, <1>3 DEF LeaseInv, RecordInTime
  <2>3. LeaseTypes'
    BY <1>1, <1>3, <2>1 DEF LeaseInv, LeaseTypes
  <2>4. RenewalIsWrite'
    BY <1>1, <1>3, <2>1, <2>2, Margins DEF RenewalIsWrite
  <2> QED
    BY <1>1, <2>2, <2>3, <2>4
    DEF LeaseInv, WrittenBefore, LapsedSince, RecordInTime, PostInTime, NeverStrays
<1> QED
  BY <1>1, <1>2, <1>3

LEMMA ObserveStep ==
  ASSUME LeaseInv, NEW w \in Watcher, Look(w) \/ Note(w)
  PROVE  LeaseInv'
<1>1. UNCHANGED <<now, note, writtenAt, renewed, skew, askedAt, outcome, post,
                  postedAt, strayed>>
  BY DEF Look, Note, world, ledger, clock, lease, writing
<1>2. at' = "record" => UNCHANGED at
  BY DEF Look, Note, lease
<1> QED
  BY <1>1, <1>2, UntouchedStep DEF LeaseInv, LeaseTypes

LEMMA PublishStep ==
  ASSUME LeaseInv, Publish
  PROVE  LeaseInv'
<1>1. /\ post' = TRUE /\ postedAt' = now /\ Owns
      /\ UNCHANGED <<now, note, writtenAt, renewed, skew, at, askedAt, outcome, strayed>>
  BY DEF Publish, world, ledger, clock, lease
<1>2. note = "us"
  BY <1>1, GuardIsSound DEF OwnsIsOurs
<1>3. PICK t \in renewed : Wall - t \in -Tolerance .. LeaseMaxAge
  BY <1>1 DEF Owns, LeaseIsLive, Fresh
<1>4. t \in Int /\ now \in Nat /\ skew \in Int /\ writtenAt \in Nat
  BY DEF LeaseInv, LeaseTypes
<1>5. t - skew - Latency <= writtenAt /\ now + skew - t <= LeaseMaxAge
  BY <1>3, <1>4, Margins DEF LeaseInv, RenewalIsWrite, Wall
<1>6. PostInTime'
  BY <1>1, <1>2, <1>4, <1>5, Margins DEF PostInTime
<1> QED
  BY <1>1, <1>6 DEF LeaseInv, LeaseTypes, WrittenBefore, RenewalIsWrite, LapsedSince,
                    RecordInTime, NeverStrays

LEMMA LandStep ==
  ASSUME LeaseInv, Land
  PROVE  LeaseInv'
<1>1. /\ post' = FALSE /\ postedAt' = 0 /\ note = "us"
      /\ strayed' = (strayed \/ note # "us")
      /\ UNCHANGED <<now, note, writtenAt, renewed, skew, at, askedAt, outcome>>
  BY DEF Land, LeaseInv, PostInTime, ledger, clock, lease
<1> QED
  BY <1>1 DEF LeaseInv, LeaseTypes, WrittenBefore, RenewalIsWrite, LapsedSince,
              RecordInTime, PostInTime, NeverStrays

LEMMA ProcessStep ==
  ASSUME LeaseInv, Stop \/ Start
  PROVE  LeaseInv'
<1>1. /\ at' # "record"
      /\ UNCHANGED <<now, note, writtenAt, renewed, skew, post, postedAt, strayed>>
  BY DEF Stop, Start, world, ledger, clock, writing
<1>2. askedAt' \in Nat
  BY DEF Stop, Start, LeaseInv, LeaseTypes
<1> QED
  BY <1>1, <1>2, UntouchedStep
----------------------------------------------------------------------------
LEMMA LeaseNext ==
  ASSUME NotBack, LeaseInv, [Next]_vars
  PROVE  LeaseInv'
<1>1. CASE UNCHANGED vars
  BY <1>1, UntouchedStep
  DEF LeaseInv, LeaseTypes, vars, world, ledger, clock, lease, looking, writing
<1>2. CASE \E d \in Steps : StepClock(d)
  BY <1>2, ClockStep
<1>3. CASE \E w \in Watcher : Look(w) \/ Note(w)
  BY <1>3, ObserveStep
<1> QED
  BY <1>1, <1>2, <1>3, TickStep, ExpireStep, StrangerStep, LoopStep, WriteStep,
     RecordStep, PublishStep, LandStep, ProcessStep DEF Next

LEMMA LeaseHolds ==
  ASSUME NotBack
  PROVE  Spec => []LeaseInv
BY LeaseInit, LeaseNext, PTL DEF Spec

\* While the wall clock never steps back, owns_result_room never takes a lapsed or
\* foreign room for this node's own.
THEOREM GuardIsTrue ==
  ASSUME NotBack
  PROVE  Spec => []OwnsIsOurs
BY LeaseHolds, GuardIsSound, PTL

\* ... and what passed publish_reporting's guard lands in a room that is still ours.
THEOREM WritesNeverStray ==
  ASSUME NotBack
  PROVE  Spec => []NeverStrays
<1>1. LeaseInv => NeverStrays
  BY DEF LeaseInv
<1> QED
  BY LeaseHolds, <1>1, PTL
----------------------------------------------------------------------------
(***************************************************************************)
(* The note itself, while the loop runs as it should.  The monotonic       *)
(* deadline alone carries the proof: the wall clock may step either way.   *)
(***************************************************************************)

\* The loop is never late, and an outage ends a renewal before the note would lapse.
InTime == Timely /\ MaxOutage + Renewal < Retention

\* When the note is written again at the latest.
Limit == writtenAt + MaxOutage + Renewal

ClockTypes ==
  /\ now \in Nat /\ writtenAt \in Nat
  /\ skew \in Int
  /\ streak \in Nat
  /\ monoDue \in Int /\ wallDue \in Int /\ wake \in Int
  /\ watch \in [Watcher -> {"idle", "failed"} \cup Owner]

\* Where the loop is, how far the limit is: it wakes by then, and whatever it does then
\* succeeds or fails while an outage may still last.
NoteKept ==
  /\ note = "us"
  /\ at # "down"
  /\ now <= Limit
  /\ at = "sleep" => now <= wake /\ wake <= Limit
  /\ at \in {"sleep", "observe"} => monoDue <= Limit
  /\ at = "observe" => now < Limit
  /\ at = "write" => seen = "us"
  /\ at = "record" => now <= writtenAt + MaxOutage
  /\ watch[LeaseLoop] # "idle" => at = "observe"

KeptInv == ClockTypes /\ NoteKept

LEMMA LeaseConstants ==
  /\ Renewal \in Nat \ {0} /\ RetryFloor \in Nat \ {0} /\ Observation \in Nat \ {0}
  /\ MaxDoublings \in Nat \ {0} /\ Retention \in Nat \ {0}
  /\ MaxOutage \in Nat /\ Latency \in Nat /\ Steps \subseteq Int /\ Timely \in BOOLEAN
  /\ LeaseLoop \in Watcher
BY LeaseAssumption

LEMMA ShorterIs ==
  ASSUME NEW a \in Int, NEW b \in Int
  PROVE  /\ Shorter(a, b) \in {a, b}
         /\ Shorter(a, b) <= a /\ Shorter(a, b) <= b
BY DEF Shorter

\* No back-off is longer than the renewal interval.
LEMMA DelayBounded ==
  ASSUME ClockTypes, NEW result
  PROVE  /\ NewStreak(result) \in Nat
         /\ Delay(result) \in Int
         /\ Delay(result) <= Renewal
<1>1. CASE result = "failed"
  <2>1. NewStreak(result) = Shorter(streak + 1, MaxDoublings)
    BY <1>1 DEF NewStreak
  <2>2. NewStreak(result) \in Nat \ {0}
    BY <2>1, LeaseConstants, ShorterIs DEF ClockTypes
  <2>3. PICK k \in Nat : k = NewStreak(result) - 1
    BY <2>2
  <2>4. RetryFloor * 2 ^ k \in Int
    <3>1. PICK e \in Int : e = 2 ^ k
      OBVIOUS
    <3> QED
      BY <3>1, LeaseConstants
  <2>5. Delay(result) = Shorter(RetryFloor * 2 ^ k, Renewal)
    BY <1>1, <2>3 DEF Delay
  <2> QED
    BY <2>2, <2>4, <2>5, LeaseConstants, ShorterIs
<1>2. CASE result # "failed"
  BY <1>2, LeaseConstants DEF NewStreak, Delay
<1> QED
  BY <1>1, <1>2

LEMMA KeptInit == InTime /\ Init => KeptInv
BY LeaseConstants DEF InTime, Init, KeptInv, ClockTypes, NoteKept, Limit

\* A cycle that is over while an outage may last leaves enough time for the next.
LEMMA FinishKeeps ==
  ASSUME KeptInv, NEW result, Finish(result), at # "observe", now <= writtenAt + MaxOutage,
         UNCHANGED <<now, note, writtenAt, skew, wake, watch>>
  PROVE  KeptInv'
<1>1. /\ streak' = NewStreak(result) /\ monoDue' = now + Delay(result)
      /\ wallDue' = now + skew + Delay(result) /\ at' = "observe"
  BY DEF Finish, Wall
<1>2. /\ NewStreak(result) \in Nat /\ Delay(result) \in Int /\ Delay(result) <= Renewal
  BY DelayBounded DEF KeptInv
<1>3. ClockTypes'
  BY <1>1, <1>2 DEF KeptInv, ClockTypes
<1>4. Limit' = Limit /\ Limit = writtenAt + MaxOutage + Renewal
  BY DEF Limit
<1>5. monoDue' <= Limit /\ now < Limit
  BY <1>1, <1>2, <1>4, LeaseConstants DEF KeptInv, ClockTypes
<1> QED
  BY <1>1, <1>3, <1>4, <1>5 DEF KeptInv, NoteKept

LEMMA TickKeeps == ASSUME InTime, KeptInv, Tick PROVE KeptInv'
<1>1. /\ at = "sleep" /\ now < wake /\ now' = now + 1
      /\ UNCHANGED <<note, writtenAt, skew, at, streak, monoDue, wallDue, wake, watch>>
  BY DEF Tick, Overdue, InTime, KeptInv, NoteKept, ClockTypes, clock, lease, looking
<1> QED
  BY <1>1, LeaseConstants DEF KeptInv, ClockTypes, NoteKept, Limit

LEMMA ClockKeeps ==
  ASSUME KeptInv, NEW d \in Steps, StepClock(d)
  PROVE  KeptInv'
<1>1. /\ skew' = skew + d /\ d \in Int
      /\ UNCHANGED <<now, note, writtenAt, at, seen, streak, monoDue, wallDue, wake,
                     watch>>
  BY LeaseConstants DEF StepClock, world, lease, looking
<1> QED
  BY <1>1 DEF KeptInv, ClockTypes, NoteKept, Limit

\* The note is not old enough to be deleted, so nobody can take it either.
LEMMA StaysOurs == ASSUME InTime, KeptInv PROVE ~Expire /\ ~Stranger
BY LeaseConstants DEF InTime, KeptInv, ClockTypes, NoteKept, Limit, Expire, Stranger

LEMMA WakeKeeps == ASSUME KeptInv, Wake PROVE KeptInv'
<1>1. /\ at = "sleep" /\ at' = IF Due THEN "read" ELSE "observe"
      /\ UNCHANGED <<now, note, writtenAt, skew, streak, monoDue, wallDue, wake, watch>>
  BY DEF Wake, world, clock, looking
<1>2. ~Due => now < monoDue
  BY DEF Due, KeptInv, ClockTypes
<1> QED
  BY <1>1, <1>2, LeaseConstants DEF KeptInv, ClockTypes, NoteKept, Limit

LEMMA ReadKeeps == ASSUME InTime, KeptInv, ReadOwner PROVE KeptInv'
<1>1. at = "read" /\ UNCHANGED <<now, note, writtenAt, skew, wake, watch>>
  BY DEF ReadOwner, clock, looking
<1>2. CASE MayFail /\ Finish("failed")
  <2>1. at # "observe" /\ now <= writtenAt + MaxOutage
    BY <1>2, LeaseConstants DEF ReadOwner, MayFail, InTime, KeptInv, ClockTypes
  <2> QED
    BY <1>1, <1>2, <2>1, FinishKeeps
<1>3. CASE seen' = note /\ at' = "write" /\ UNCHANGED <<streak, monoDue, wallDue>>
  BY <1>1, <1>3 DEF KeptInv, ClockTypes, NoteKept, Limit
<1> QED
  BY <1>2, <1>3 DEF ReadOwner, KeptInv, NoteKept

LEMMA WriteKeeps == ASSUME InTime, KeptInv, Write PROVE KeptInv'
<1>1. /\ note = "us" /\ seen = "us" /\ at = "write" /\ at' = "record" /\ Accepted
      /\ UNCHANGED <<now, skew, streak, monoDue, wallDue, wake, watch>>
  BY DEF Write, clock, looking, KeptInv, NoteKept, Accepted
<1>2. CASE note' = "us" /\ writtenAt' = now
  BY <1>1, <1>2, LeaseConstants DEF KeptInv, ClockTypes, NoteKept, Limit
<1>3. CASE MayFail /\ UNCHANGED <<note, writtenAt>>
  <2>1. now <= writtenAt + MaxOutage
    BY <1>3, LeaseConstants DEF MayFail, InTime, KeptInv, ClockTypes
  <2> QED
    BY <1>1, <1>3, <2>1 DEF KeptInv, ClockTypes, NoteKept, Limit
<1> QED
  BY <1>1, <1>2, <1>3 DEF Write

LEMMA RecordKeeps == ASSUME KeptInv, Record PROVE KeptInv'
<1>1. /\ Finish(outcome) /\ at # "observe" /\ now <= writtenAt + MaxOutage
      /\ UNCHANGED <<now, note, writtenAt, skew, wake, watch>>
  BY DEF Record, KeptInv, NoteKept, world, clock, looking
<1> QED
  BY <1>1, FinishKeeps

\* The loop sleeps no longer than to its monotonic deadline, or a tick.
LEMMA NoteKeeps == ASSUME KeptInv, NEW w \in Watcher, Note(w) PROVE KeptInv'
<1>1. UNCHANGED <<now, note, writtenAt, skew, seen, streak, monoDue, wallDue>>
  BY DEF Note, world, clock
<1>2. /\ watch' = [watch EXCEPT ![w] = "idle"]
      /\ watch' \in [Watcher -> {"idle", "failed"} \cup Owner]
  BY DEF Note, KeptInv, ClockTypes
<1>3. CASE w # LeaseLoop
  <2>1. UNCHANGED <<wake, at>> /\ watch'[LeaseLoop] = watch[LeaseLoop]
    BY <1>2, <1>3, LeaseConstants DEF Note, KeptInv, ClockTypes
  <2> QED
    BY <1>1, <1>2, <2>1 DEF KeptInv, ClockTypes, NoteKept, Limit
<1>4. CASE w = LeaseLoop
  <2>1. Sleep /\ at = "observe" /\ at' = "sleep" /\ watch'[LeaseLoop] = "idle"
    BY <1>2, <1>4 DEF Note, KeptInv, ClockTypes, NoteKept
  <2> DEFINE left == Shorter(monoDue - now, wallDue - Wall)
             rest == IF left < 1 THEN 1 ELSE left
  <2>2. left \in Int /\ left <= monoDue - now
    BY ShorterIs DEF KeptInv, ClockTypes, Wall
  <2>3. rest \in Nat \ {0} /\ (rest <= 1 \/ rest <= monoDue - now)
    BY <2>2 DEF KeptInv, ClockTypes
  <2>4. wake' = now + Shorter(Observation, rest)
    BY <2>1 DEF Sleep
  <2> HIDE DEF left, rest
  <2>5. PICK s \in Nat \ {0} : wake' = now + s /\ s <= rest
    BY <2>3, <2>4, LeaseConstants, ShorterIs
  <2>6. /\ now < Limit /\ monoDue <= Limit /\ Limit \in Int /\ now \in Nat /\ monoDue \in Int
    BY <2>1, LeaseConstants DEF KeptInv, NoteKept, ClockTypes, Limit
  <2>7. wake' \in Int /\ now <= wake' /\ wake' <= Limit
    BY <2>3, <2>5, <2>6
  <2> QED
    BY <1>1, <1>2, <2>1, <2>6, <2>7 DEF KeptInv, ClockTypes, NoteKept, Limit
<1> QED
  BY <1>3, <1>4

LEMMA LookKeeps == ASSUME KeptInv, NEW w \in Watcher, Look(w) PROVE KeptInv'
<1>1. UNCHANGED <<now, note, writtenAt, skew, at, seen, streak, monoDue, wallDue, wake>>
  BY DEF Look, world, clock, lease
<1>2. /\ watch' \in [Watcher -> {"idle", "failed"} \cup Owner]
      /\ watch'[LeaseLoop] # watch[LeaseLoop] => at = "observe"
  BY LeaseConstants DEF Look, KeptInv, ClockTypes, NoteKept, Owner
<1> QED
  BY <1>1, <1>2 DEF KeptInv, ClockTypes, NoteKept, Limit

LEMMA KeptStep == InTime /\ KeptInv /\ [Next]_vars => KeptInv'
<1> SUFFICES ASSUME InTime, KeptInv, [Next]_vars PROVE KeptInv'
  OBVIOUS
<1>1. CASE Publish \/ Land \/ UNCHANGED vars
  <2>1. UNCHANGED <<now, note, writtenAt, skew, at, seen, streak, monoDue, wallDue, wake,
                    watch>>
    BY <1>1 DEF Publish, Land, vars, world, clock, lease, looking
  <2> QED
    BY <2>1 DEF KeptInv, ClockTypes, NoteKept, Limit
<1>2. ~(Stop \/ Start)
  BY DEF Stop, Start, InTime, KeptInv, NoteKept
<1>3. CASE \E d \in Steps : StepClock(d)
  BY <1>3, ClockKeeps
<1>4. CASE \E w \in Watcher : Look(w) \/ Note(w)
  BY <1>4, LookKeeps, NoteKeeps
<1> QED
  BY <1>1, <1>2, <1>3, <1>4, TickKeeps, StaysOurs, WakeKeeps, ReadKeeps, WriteKeeps,
     RecordKeeps DEF Next

\* An upstream that fails for no longer than a renewal less than its retention never
\* costs the node its room: maintain_result_room_ownership, retried by the loop on its
\* back-off, writes the note in time, whatever becomes of the wall clock.
THEOREM OutageIsOutlasted ==
  ASSUME InTime
  PROVE  Spec => []NeverLapses
<1>1. KeptInv => NeverLapses
  BY DEF KeptInv, NoteKept, NeverLapses
<1> QED
  BY <1>1, KeptInit, KeptStep, PTL DEF Spec
=============================================================================
