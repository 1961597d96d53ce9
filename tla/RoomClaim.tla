----------------------------- MODULE RoomClaim -----------------------------
(***************************************************************************)
(* cli/main.py: claim-room, recover-result-room and publish-profile run by *)
(* an operator beside the service's lease loop, one ledger under both.     *)
(* Upstream a d- room is ownable from birth or not at all: a message in a  *)
(* room nobody owns forecloses it.  Answers get lost, a write may land     *)
(* after its caller gave it up, and an ownership note that nobody renews   *)
(* lapses.  One Tick is as long as a guard may stay good; a request takes  *)
(* no more than what is left of it (OwnershipLease models that timing).    *)
(***************************************************************************)
EXTENDS Integers

CONSTANTS Retention,   \* ticks after which the upstream deletes an unwritten note
          LeaseLimit,  \* ticks after which the recorded lease is not live
          MaxTicks,    \* bound on the clock
          MaxFaults    \* bound on lost answers, failed reads and interrupted commands

ClaimAssumption ==
  /\ Retention \in Nat
  /\ LeaseLimit \in Nat
  /\ 0 < LeaseLimit
  /\ LeaseLimit < Retention
  /\ MaxTicks \in Nat
  /\ MaxFaults \in Nat

ASSUME ClaimAssumption

VARIABLES
  note,      \* upstream: who owns the result room
  noteAge,   \* upstream: ticks since that note was written
  born,      \* upstream: the room holds a message
  copies,    \* upstream: this node's attestations in it
  shown,     \* upstream: one of them is in the newest window, which is all a read returns
  late,      \* writes under way whose caller has given them up
  lease,     \* ledger: ticks since the renewal recorded last, LeaseLimit for none or dead
  seen,      \* ledger: owned_room_owner, "error" when the last look failed
  at,        \* [Proc -> Place]: the next step of the command and of the loop
  command,   \* the operator's command
  answer,    \* [Proc -> answer of claim_room]
  verdict,   \* inspect_result_room's, of the recovery under way
  found,     \* publish-profile: does the room hold the attestation already?
  sent,      \* history: the command's attestation left this machine
  report,    \* profile_is_verifiable of the command that ended last (ok, of a recovery)
  landed,    \* history: an attestation has landed
  strayed,   \* history: our own message landed in a room that was not ours
  lateCopy,  \* history: an attestation landed after its command had ended
  unread,    \* history: the second guard let write who had not read what the room held
  behind,    \* history: a read could not show an attestation that the room held
  ticks, faults

upstream == <<note, noteAge, born, copies, shown, late>>
recorded == <<lease, seen>>
locals == <<at, command, answer, verdict, found>>
excuses == <<lateCopy, unread, behind>>
history == <<sent, report, landed, strayed, excuses>>
bounds == <<ticks, faults>>
vars == <<upstream, recorded, locals, history, bounds>>

Proc == {"operator", "loop"}
Owner == {"none", "us", "other"}
Command == {"claim-room", "claim-another", "recover", "recover-attest", "publish-profile"}
Place == {"idle", "owner", "claim", "answer", "inspect", "inspected", "back", "observe",
          "guard", "set_note", "read", "again", "publish", "refresh", "rewrite"}

TypeOK ==
  /\ note \in Owner
  /\ noteAge \in 0 .. Retention
  /\ born \in BOOLEAN
  /\ copies \in 0 .. 2
  /\ shown \in BOOLEAN
  /\ late \subseteq {"claim", "rewrite", "attestation"}
  /\ lease \in 0 .. LeaseLimit
  /\ seen \in Owner \cup {"error"}
  /\ at \in [Proc -> Place]
  /\ command \in Command
  /\ answer \in [Proc -> {"yes", "no", "error"}]
  /\ verdict \in {"owned", "stop", "claimable"}
  /\ found \in {"unread", "no", "yes"}
  /\ sent \in BOOLEAN
  /\ report \in {"none", "true", "false", "null"}
  /\ landed \in BOOLEAN
  /\ strayed \in BOOLEAN
  /\ lateCopy \in BOOLEAN
  /\ unread \in BOOLEAN
  /\ behind \in BOOLEAN
  /\ ticks \in 0 .. MaxTicks
  /\ faults \in 0 .. MaxFaults

Init ==
  /\ note = "none" /\ noteAge = 0 /\ born = FALSE /\ copies = 0 /\ shown = FALSE /\ late = {}
  /\ lease = LeaseLimit /\ seen = "none"
  /\ at = [p \in Proc |-> "idle"] /\ command = "claim-room"
  /\ answer = [p \in Proc |-> "no"] /\ verdict = "stop" /\ found = "unread"
  /\ sent = FALSE /\ report = "none" /\ landed = FALSE /\ strayed = FALSE
  /\ lateCopy = FALSE /\ unread = FALSE /\ behind = FALSE
  /\ ticks = 0 /\ faults = 0

----------------------------------------------------------------------------
(* The upstream, the clock and the stranger. *)

Fault == faults < MaxFaults /\ faults' = faults + 1
NoFault == UNCHANGED faults

\* A claim is accepted from birth, and never over another owner's note.
Accepted == note = "none" /\ ~born

\* A write without if_absent: the owner's own, or a first claim; another's is refused.
Rewritable == note = "us" \/ Accepted

OursNow == note' = "us" /\ noteAge' = 0

\* Our attestation arrives: refused for a room of another's, and the birth of
\* an open room where there is no owner.
AttestationLands ==
  \/ note = "other" /\ UNCHANGED <<born, copies, shown, landed, strayed>>
  \/ /\ note # "other"
     /\ born' = TRUE /\ shown' = TRUE /\ landed' = TRUE
     /\ copies' = IF copies < 2 THEN copies + 1 ELSE copies
     /\ \/ note = "us" /\ UNCHANGED strayed
        \/ note = "none" /\ strayed' = TRUE

\* What an abandoned write does when it lands after all.
LandLate ==
  \/ \E w \in {"claim", "rewrite"} \cap late :
        /\ late' = late \ {w}
        /\ \/ w = "claim" /\ Accepted /\ OursNow
           \/ w = "rewrite" /\ Rewritable /\ OursNow
           \/ w = "claim" /\ ~Accepted /\ UNCHANGED <<note, noteAge>>
           \/ w = "rewrite" /\ ~Rewritable /\ UNCHANGED <<note, noteAge>>
        /\ UNCHANGED <<born, copies, shown, recorded, locals, history, bounds>>
  \/ /\ "attestation" \in late
     /\ late' = late \ {"attestation"}
     /\ AttestationLands
     /\ lateCopy' = TRUE
     /\ UNCHANGED <<note, noteAge, recorded, locals, sent, report, unread, behind, bounds>>

InFlight ==
  \/ late # {}
  \/ \E p \in Proc : at[p] = "answer" /\ answer[p] = "yes"

\* Time passes; a note unwritten for a retention is deleted, and so is an idle room.
Tick ==
  /\ ~InFlight
  /\ ticks < MaxTicks
  /\ ticks' = ticks + 1
  /\ lease' = IF lease < LeaseLimit THEN lease + 1 ELSE lease
  /\ IF note # "none" /\ noteAge + 1 >= Retention
     THEN note' = "none" /\ noteAge' = 0
     ELSE /\ UNCHANGED note
          /\ noteAge' = IF note = "none" THEN 0 ELSE noteAge + 1
  /\ \/ UNCHANGED <<born, copies, shown>>
     \/ born' = FALSE /\ copies' = 0 /\ shown' = FALSE
  /\ UNCHANGED <<late, seen, locals, history, faults>>

\* Messages enough push what the room held out of the window that a read returns.
Written == born' = TRUE /\ (UNCHANGED shown \/ shown' = FALSE)

\* Anyone may claim a name that is free, or write into a room that is open.
Stranger ==
  /\ note = "none"
  /\ \/ ~born /\ note' = "other" /\ noteAge' = 0 /\ UNCHANGED <<born, shown>>
     \/ Written /\ UNCHANGED <<note, noteAge>>
  /\ UNCHANGED <<copies, late, recorded, locals, history, bounds>>

----------------------------------------------------------------------------
(* Steps the commands and the loop share. *)

Goto(p, place) == at' = [at EXCEPT ![p] = place]

\* The request of claim_room: answered, or its outcome unknown to the caller.
SendClaim(p) ==
  /\ at[p] = "claim"
  /\ Goto(p, "answer")
  /\ \/ /\ p = "operator" /\ command = "claim-another"
        /\ \E a \in {"yes", "no"} : answer' = [answer EXCEPT ![p] = a]
        /\ NoFault /\ UNCHANGED upstream
     \/ /\ p = "operator" => command # "claim-another"
        /\ \/ /\ Accepted /\ OursNow
              /\ \/ answer' = [answer EXCEPT ![p] = "yes"] /\ NoFault
                 \/ answer' = [answer EXCEPT ![p] = "error"] /\ Fault
              /\ UNCHANGED late
           \/ /\ ~Accepted
              /\ answer' = [answer EXCEPT ![p] = "no"]
              /\ NoFault /\ UNCHANGED <<note, noteAge, late>>
           \/ /\ Fault
              /\ answer' = [answer EXCEPT ![p] = "error"]
              /\ late' \in {late, late \cup {"claim"}}
              /\ UNCHANGED <<note, noteAge>>
        /\ UNCHANGED <<born, copies, shown>>
  /\ UNCHANGED <<recorded, command, verdict, found, history, ticks>>

\* Slip: whichever room was claimed, the result room's lease is live.
RecordAnyLease(p) == lease' = 0

\* Slip: the write is made and not recorded.
NotRecorded(p) == UNCHANGED lease

\* record_lease_outcome(room, renewed=True): a lease on one room says nothing about another.
RecordLease(p) ==
  lease' = IF p = "operator" /\ command = "claim-another" THEN lease ELSE 0

\* Slip: a failure recorded as a renewal.
FailedAsRenewed == lease' = 0

\* renewed=False: one failure more, and the lease is dead at the limit.
RecordFailed == lease' \in {lease, LeaseLimit}

\* A claim or a renewal and its record are one step to the callers.  A claim that is
\* refused ("no") is no failure to renew, a renewal that is refused ("error") is one.
TakeAnswer(p) ==
  /\ at[p] = "answer"
  /\ \/ answer[p] = "yes" /\ RecordLease(p)
     \/ answer[p] = "no" /\ UNCHANGED lease
     \/ answer[p] = "error" /\ IF p = "loop" THEN RecordFailed ELSE UNCHANGED lease
  /\ Goto(p, IF p = "operator" /\ command \in {"recover", "recover-attest"}
             THEN "back" ELSE "idle")
  /\ answer' = [answer EXCEPT ![p] = "no"]
  /\ UNCHANGED <<upstream, seen, command, verdict, found, history, bounds>>

\* observe_reachability: a failed look leaves the owner and records the error.
Looked == \/ seen' = note /\ NoFault
          \/ seen' = "error" /\ Fault

Owns == seen = "us" /\ lease < LeaseLimit

----------------------------------------------------------------------------
(* The service: the lease loop, the mailbox loop's look, and its receipts. *)

LoopReads ==
  /\ at["loop"] = "idle"
  /\ \/ /\ note = "us" /\ Goto("loop", "refresh") /\ NoFault /\ UNCHANGED lease
     \/ /\ note = "none" /\ Goto("loop", "claim") /\ NoFault /\ UNCHANGED lease
     \/ /\ Fault /\ RecordFailed /\ UNCHANGED at
  /\ UNCHANGED <<upstream, seen, command, answer, verdict, found, history, ticks>>

\* refresh_room_ownership reads the owner again, and goes on with what is ours.
RefreshReads ==
  /\ at["loop"] = "refresh"
  /\ \/ note = "us" /\ Goto("loop", "rewrite") /\ NoFault /\ UNCHANGED lease
     \/ note # "us" /\ Goto("loop", "idle") /\ NoFault /\ RecordFailed
     \/ Fault /\ Goto("loop", "idle") /\ RecordFailed
  /\ UNCHANGED <<upstream, seen, command, answer, verdict, found, history, ticks>>

\* Its POST, with no if_absent: the note may have lapsed since, or be another's.
Rewrite ==
  /\ at["loop"] = "rewrite"
  /\ Goto("loop", "answer")
  /\ \/ /\ Rewritable /\ OursNow
        /\ \/ answer' = [answer EXCEPT !["loop"] = "yes"] /\ NoFault
           \/ answer' = [answer EXCEPT !["loop"] = "error"] /\ Fault
        /\ UNCHANGED late
     \/ /\ ~Rewritable
        /\ answer' = [answer EXCEPT !["loop"] = "error"]
        /\ NoFault /\ UNCHANGED <<note, noteAge, late>>
     \/ /\ Fault
        /\ answer' = [answer EXCEPT !["loop"] = "error"]
        /\ late' \in {late, late \cup {"rewrite"}}
        /\ UNCHANGED <<note, noteAge>>
  /\ UNCHANGED <<born, copies, shown, recorded, command, verdict, found, history, ticks>>

LoopLooks ==
  /\ Looked
  /\ UNCHANGED <<upstream, lease, locals, history, ticks>>

\* publish_audit_copy: the receipts that share the room with the attestation.
Receipts ==
  /\ Owns
  /\ note # "other"
  /\ Written
  /\ strayed' = (strayed \/ note = "none")
  /\ UNCHANGED <<note, noteAge, copies, late, recorded, locals, sent, report, landed,
                 excuses, bounds>>

----------------------------------------------------------------------------
(* The operator's commands. *)

Begin(c) ==
  /\ at["operator"] = "idle"
  /\ command' = c
  /\ Goto("operator", IF c = "publish-profile" THEN "set_note"
                      ELSE IF c \in {"recover", "recover-attest"} THEN "inspect" ELSE "owner")
  /\ sent' = FALSE /\ report' = "none"
  /\ UNCHANGED <<upstream, recorded, answer, verdict, found, landed, strayed, excuses, bounds>>

End == Goto("operator", "idle")

\* An upstream error that is not caught, or the operator's Ctrl-C.
Interrupt ==
  /\ at["operator"] # "idle"
  /\ Fault
  /\ End /\ found' = "unread" /\ verdict' = "stop"
  /\ answer' = [answer EXCEPT !["operator"] = "no"]
  /\ UNCHANGED <<upstream, recorded, command, history, ticks>>

\* claim-room stops before an owner; of another room this model knows nothing.
ReadOwner ==
  /\ at["operator"] = "owner"
  /\ IF command = "claim-room" /\ note # "none" THEN End ELSE Goto("operator", "claim")
  /\ UNCHANGED <<upstream, recorded, command, answer, verdict, found, history, bounds>>

\* inspect_result_room, first of its two reads: the owner.
InspectOwner ==
  /\ at["operator"] = "inspect"
  /\ Goto("operator", "inspected")
  /\ verdict' = IF note = "us" THEN "owned" ELSE IF note = "other" THEN "stop" ELSE "claimable"
  /\ UNCHANGED <<upstream, recorded, command, answer, found, history, bounds>>

\* The second: does the room hold a message?  The command goes on from one verdict.
InspectRoom ==
  /\ at["operator"] = "inspected"
  /\ IF verdict = "claimable" /\ ~born THEN Goto("operator", "claim") ELSE End
  /\ verdict' = "stop"
  /\ UNCHANGED <<upstream, recorded, command, answer, found, history, bounds>>

\* The read-back after the one claim: what counts is the owner that is read.
ReadBack ==
  /\ at["operator"] = "back"
  /\ IF note = "us" THEN Goto("operator", "observe") ELSE End
  /\ UNCHANGED <<upstream, recorded, command, answer, verdict, found, history, bounds>>

Observe ==
  /\ at["operator"] = "observe"
  /\ Looked
  /\ Goto("operator", "guard")
  /\ UNCHANGED <<upstream, lease, command, answer, verdict, found, history, ticks>>

Conclude(v) == End /\ report' = v /\ found' = "unread"

\* The answer when nothing was sent on purpose.
Refused == Conclude("false")

\* recover-result-room: stop without the guard's yes, or without --attest.
GuardRecover ==
  /\ at["operator"] = "guard"
  /\ command \in {"recover", "recover-attest"}
  /\ IF Owns /\ command = "recover-attest" THEN Goto("operator", "set_note") ELSE End
  /\ UNCHANGED <<upstream, recorded, command, answer, verdict, found, history, bounds>>

\* publish-profile, the first guard: only a room that it owns is read.
GuardPublish ==
  /\ at["operator"] = "guard"
  /\ command = "publish-profile"
  /\ Goto("operator", IF Owns THEN "read" ELSE "again")
  /\ UNCHANGED <<upstream, recorded, command, answer, verdict, found, history, bounds>>

\* The note is written first; recovery publishes next, the profile command looks first.
SetNote ==
  /\ at["operator"] = "set_note"
  /\ Goto("operator", IF command = "publish-profile" THEN "observe" ELSE "publish")
  /\ UNCHANGED <<upstream, recorded, command, answer, verdict, found, history, bounds>>

\* Slip: the room is not asked whether it holds the attestation already.
NotAsked == FALSE

Attested == shown

\* Is this profile attested already?  A failed read is no answer, and refuses.
ReadRoom ==
  /\ at["operator"] = "read"
  /\ \/ /\ NoFault
        /\ \/ Attested /\ found' = "yes"
           \/ ~Attested /\ found' = "no"
        /\ \/ copies > 0 /\ ~shown /\ behind' = TRUE
           \/ (copies = 0 \/ shown) /\ UNCHANGED behind
        /\ Goto("operator", "again") /\ UNCHANGED report
     \/ /\ Fault
        /\ Refused
        /\ UNCHANGED behind
  /\ UNCHANGED <<upstream, recorded, command, answer, verdict, sent, landed, strayed,
                 lateCopy, unread, ticks>>

\* The second guard asks for itself, and lets through whom the first did not let read.
GuardAgain ==
  /\ at["operator"] = "again"
  /\ \/ found = "yes" /\ Conclude("true") /\ UNCHANGED unread
     \/ found # "yes" /\ ~Owns /\ Refused /\ UNCHANGED unread
     \/ /\ found # "yes" /\ Owns
        /\ Goto("operator", "publish")
        /\ \/ found = "unread" /\ copies > 0 /\ unread' = TRUE
           \/ (found = "no" \/ copies = 0) /\ UNCHANGED unread
        /\ UNCHANGED <<report, found>>
  /\ UNCHANGED <<upstream, recorded, command, answer, verdict, sent, landed, strayed,
                 lateCopy, behind, bounds>>

\* Slip: no sequence number, nothing written.
UnconfirmedIsNo == "false"

\* What is said of a write with no answer, which may have landed: publish-profile does
\* not know, recovery (ok = seq is not None) has but one word for it and for a write that
\* was refused.
Unconfirmed == IF command = "publish-profile" THEN "null" ELSE "false"

\* publish_reporting, guarded at the sink, whoever calls it: the two callers differ in
\* what they say of an unconfirmed write.
Publish ==
  /\ at["operator"] = "publish"
  /\ \/ /\ ~Owns
        /\ Refused
        /\ UNCHANGED <<upstream, sent, landed, strayed, faults>>
     \/ /\ Owns
        /\ sent' = TRUE
        /\ UNCHANGED <<note, noteAge>>
        /\ \/ /\ note # "other" /\ AttestationLands /\ UNCHANGED late
              /\ \/ Conclude("true") /\ NoFault
                 \/ Conclude(Unconfirmed) /\ Fault
           \/ /\ Conclude(Unconfirmed) /\ Fault
              /\ late' \in {late, late \cup {"attestation"}}
              /\ UNCHANGED <<born, copies, shown, landed, strayed>>
  /\ UNCHANGED <<recorded, command, answer, verdict, excuses, ticks>>

----------------------------------------------------------------------------
Service == LoopReads \/ SendClaim("loop") \/ TakeAnswer("loop") \/ RefreshReads \/ Rewrite

Operator ==
  \/ \E c \in Command : Begin(c)
  \/ SendClaim("operator") \/ TakeAnswer("operator")
  \/ ReadOwner \/ InspectOwner \/ InspectRoom \/ ReadBack \/ Observe
  \/ GuardRecover \/ GuardPublish \/ SetNote \/ ReadRoom \/ GuardAgain \/ Publish
  \/ Interrupt

Next == Service \/ LoopLooks \/ Receipts \/ Operator \/ LandLate \/ Tick \/ Stranger

Spec == Init /\ [][Next]_vars

\* The service's loops come round again whatever the operator does.
FairSpec == Spec /\ WF_vars(Service) /\ WF_vars(LoopLooks)

----------------------------------------------------------------------------
(* Properties. *)

\* No command, no retry of one and no receipt goes into a room that is not this node's:
\* that would create an open room and foreclose ever owning it (the loss of 2026-08-28).
NeverForeclosed == ~strayed

\* A lease that the ledger calls live is one: the note is ours, whoever recorded it,
\* whatever lapsed or was taken between the owner's read and the write without if_absent.
LeaseIsTrue == lease < LeaseLimit => note = "us"

\* publish-profile's three answers: true, an attestation landed in the room; false, none
\* left this machine; null, nobody knows (main.py:224-228).  Recovery has the first only.
ReportIsTrue ==
  /\ report = "false" /\ command = "publish-profile" => ~sent
  /\ report = "true" => landed

\* An operator who retries writes a second attestation only where the code cannot see
\* the first: it landed after its command had ended (main.py:267-271), newer messages had
\* pushed it out of the window, or the room was not read at all.
AttestedOnce == copies > 1 => lateCopy \/ unread \/ behind

\* A retry reads the room first and will not write a second one (main.py:349-351).
RetryReadsFirst == copies > 1 => lateCopy \/ behind

\* A claim whose answer was lost is not lost: recover-result-room calls it owned and
\* does nothing, but the service renews what it reads as its own, and the guard opens.
ClaimIsNoticed == [](note = "us" => <>(Owns \/ note # "us"))
============================================================================
