-------------------------- MODULE RoomClaimProofs --------------------------
(***************************************************************************)
(* For any retention and any shorter lease limit, any number of commands,  *)
(* faults, ticks and strangers: nothing of this node's lands in a room     *)
(* that is not its own, a lease the ledger calls live is one, what         *)
(* publish-profile answers is so, and a second attestation is written only *)
(* where the first could not be, or was not, read.                         *)
(***************************************************************************)
EXTENDS RoomClaim, TLAPS

Recovery == {"recover", "recover-attest"}

\* The guard stands for what it should: a live record is of a write to a note that is
\* still ours, a write just answered is too, and so is one whose attestation is under way.
GuardIsTrue ==
  /\ lease < LeaseLimit => note = "us" /\ noteAge <= lease
  /\ \A p \in Proc :
       /\ at[p] = "answer" /\ answer[p] = "yes"
       /\ p = "operator" => command # "claim-another"
       => note = "us" /\ noteAge = 0
  /\ "attestation" \in late => note = "us"

\* What the operator's command knows of the room, and when it may still write.
CommandIsCareful ==
  /\ copies > 0 => born /\ landed
  /\ shown => landed
  /\ found = "yes" => landed
  /\ found # "unread" => at["operator"] \in {"again", "publish"}
  /\ at["operator"] # "idle" => ~sent
  /\ at["operator"] \in {"read", "again"} => command = "publish-profile"
  /\ at["operator"] = "owner" => command \notin Recovery
  /\ at["operator"] = "set_note" => command \in Recovery \cup {"publish-profile"}

\* A second attestation is in the room, or under way, only with one of the excuses.
FewCopies ==
  \/ lateCopy \/ unread \/ behind
  \/ copies = 0
  \/ /\ copies = 1
     /\ at["operator"] # "publish"
     /\ ~(at["operator"] = "again" /\ found = "no")
     /\ ~(command \in Recovery /\ at["operator"] \in
            {"claim", "answer", "back", "observe", "guard", "set_note"})

ClaimTypes ==
  /\ noteAge \in Nat
  /\ lease \in Nat
  /\ copies \in Nat
  /\ at \in [Proc -> Place]
  /\ answer \in [Proc -> {"yes", "no", "error"}]

ClaimInv ==
  /\ ClaimTypes
  /\ GuardIsTrue
  /\ CommandIsCareful
  /\ FewCopies
  /\ NeverForeclosed
  /\ ReportIsTrue

----------------------------------------------------------------------------
LEMMA Limits ==
  /\ Retention \in Nat /\ LeaseLimit \in Nat /\ MaxTicks \in Nat /\ MaxFaults \in Nat
  /\ 0 < LeaseLimit /\ LeaseLimit < Retention
BY ClaimAssumption DEF ClaimAssumption

LEMMA ClaimInit == Init => ClaimInv
<1> SUFFICES ASSUME Init PROVE ClaimInv
  OBVIOUS
<1>1. ClaimTypes
  BY Limits DEF Init, ClaimTypes, Proc, Place
<1>2. GuardIsTrue
  BY Limits, SMTT(30) DEF Init, GuardIsTrue, Proc
<1>3. CommandIsCareful /\ FewCopies
  BY Limits, SMTT(30) DEF Init, CommandIsCareful, FewCopies, Proc, Recovery
<1>4. NeverForeclosed /\ ReportIsTrue
  BY DEF Init, NeverForeclosed, ReportIsTrue
<1> QED
  BY <1>1, <1>2, <1>3, <1>4 DEF ClaimInv

LEMMA ClaimStep ==
  ASSUME ClaimInv, Next
  PROVE  ClaimInv'
<1> USE Limits DEF Goto, OursNow, Accepted, Rewritable, Owns, End, Conclude, Refused,
      Written, Proc, Place, upstream, recorded, locals, excuses, history, bounds
<1>1. CASE LoopReads
  <2>1. ClaimTypes'
    BY <1>1
    DEF LoopReads, RecordFailed, ClaimInv, ClaimTypes
  <2>2. GuardIsTrue'
    BY <1>1
    DEF LoopReads, RecordFailed, ClaimInv, ClaimTypes, GuardIsTrue
  <2>3. CommandIsCareful'
    BY <1>1
    DEF LoopReads, RecordFailed, ClaimInv, ClaimTypes, CommandIsCareful, Recovery
  <2>4. FewCopies'
    BY <1>1
    DEF LoopReads, RecordFailed, ClaimInv, ClaimTypes, CommandIsCareful, FewCopies, Recovery
  <2>5. NeverForeclosed' /\ ReportIsTrue'
    BY <1>1
    DEF LoopReads, RecordFailed, ClaimInv, ClaimTypes, GuardIsTrue, CommandIsCareful,
      NeverForeclosed, ReportIsTrue
  <2> QED BY <2>1, <2>2, <2>3, <2>4, <2>5 DEF ClaimInv
<1>2. ASSUME NEW p \in Proc, SendClaim(p) PROVE ClaimInv'
  <2>1. ClaimTypes'
    BY <1>2
    DEF SendClaim, ClaimInv, ClaimTypes
  <2>2. GuardIsTrue'
    BY <1>2
    DEF SendClaim, ClaimInv, ClaimTypes, GuardIsTrue
  <2>3. CommandIsCareful'
    BY <1>2
    DEF SendClaim, ClaimInv, ClaimTypes, CommandIsCareful, Recovery
  <2>4. FewCopies'
    BY <1>2
    DEF SendClaim, ClaimInv, ClaimTypes, CommandIsCareful, FewCopies, Recovery
  <2>5. NeverForeclosed' /\ ReportIsTrue'
    BY <1>2
    DEF SendClaim, ClaimInv, ClaimTypes, GuardIsTrue, CommandIsCareful,
      NeverForeclosed, ReportIsTrue
  <2> QED BY <2>1, <2>2, <2>3, <2>4, <2>5 DEF ClaimInv
<1>3. ASSUME NEW p \in Proc, TakeAnswer(p) PROVE ClaimInv'
  <2>1. ClaimTypes'
    BY <1>3
    DEF TakeAnswer, RecordLease, RecordFailed, ClaimInv, ClaimTypes
  <2>2. GuardIsTrue'
    BY <1>3
    DEF TakeAnswer, RecordLease, RecordFailed, ClaimInv, ClaimTypes, GuardIsTrue
  <2>3. CommandIsCareful'
    BY <1>3
    DEF TakeAnswer, RecordLease, RecordFailed, ClaimInv, ClaimTypes, CommandIsCareful, Recovery
  <2>4. FewCopies'
    BY <1>3
    DEF TakeAnswer, RecordLease, RecordFailed, ClaimInv, ClaimTypes, CommandIsCareful, FewCopies, Recovery
  <2>5. NeverForeclosed' /\ ReportIsTrue'
    BY <1>3
    DEF TakeAnswer, RecordLease, RecordFailed, ClaimInv, ClaimTypes, GuardIsTrue, CommandIsCareful,
      NeverForeclosed, ReportIsTrue
  <2> QED BY <2>1, <2>2, <2>3, <2>4, <2>5 DEF ClaimInv
<1>4. CASE RefreshReads
  <2>1. ClaimTypes'
    BY <1>4
    DEF RefreshReads, RecordFailed, ClaimInv, ClaimTypes
  <2>2. GuardIsTrue'
    BY <1>4
    DEF RefreshReads, RecordFailed, ClaimInv, ClaimTypes, GuardIsTrue
  <2>3. CommandIsCareful'
    BY <1>4
    DEF RefreshReads, RecordFailed, ClaimInv, ClaimTypes, CommandIsCareful, Recovery
  <2>4. FewCopies'
    BY <1>4
    DEF RefreshReads, RecordFailed, ClaimInv, ClaimTypes, CommandIsCareful, FewCopies, Recovery
  <2>5. NeverForeclosed' /\ ReportIsTrue'
    BY <1>4
    DEF RefreshReads, RecordFailed, ClaimInv, ClaimTypes, GuardIsTrue, CommandIsCareful,
      NeverForeclosed, ReportIsTrue
  <2> QED BY <2>1, <2>2, <2>3, <2>4, <2>5 DEF ClaimInv
<1>5. CASE Rewrite
  <2>1. ClaimTypes'
    BY <1>5
    DEF Rewrite, ClaimInv, ClaimTypes
  <2>2. GuardIsTrue'
    BY <1>5
    DEF Rewrite, ClaimInv, ClaimTypes, GuardIsTrue
  <2>3. CommandIsCareful'
    BY <1>5
    DEF Rewrite, ClaimInv, ClaimTypes, CommandIsCareful, Recovery
  <2>4. FewCopies'
    BY <1>5
    DEF Rewrite, ClaimInv, ClaimTypes, CommandIsCareful, FewCopies, Recovery
  <2>5. NeverForeclosed' /\ ReportIsTrue'
    BY <1>5
    DEF Rewrite, ClaimInv, ClaimTypes, GuardIsTrue, CommandIsCareful,
      NeverForeclosed, ReportIsTrue
  <2> QED BY <2>1, <2>2, <2>3, <2>4, <2>5 DEF ClaimInv
<1>6. CASE LoopLooks
  <2>1. ClaimTypes'
    BY <1>6
    DEF LoopLooks, Looked, ClaimInv, ClaimTypes
  <2>2. GuardIsTrue'
    BY <1>6
    DEF LoopLooks, Looked, ClaimInv, ClaimTypes, GuardIsTrue
  <2>3. CommandIsCareful'
    BY <1>6
    DEF LoopLooks, Looked, ClaimInv, ClaimTypes, CommandIsCareful, Recovery
  <2>4. FewCopies'
    BY <1>6
    DEF LoopLooks, Looked, ClaimInv, ClaimTypes, CommandIsCareful, FewCopies, Recovery
  <2>5. NeverForeclosed' /\ ReportIsTrue'
    BY <1>6
    DEF LoopLooks, Looked, ClaimInv, ClaimTypes, GuardIsTrue, CommandIsCareful,
      NeverForeclosed, ReportIsTrue
  <2> QED BY <2>1, <2>2, <2>3, <2>4, <2>5 DEF ClaimInv
<1>7. CASE Receipts
  <2>1. ClaimTypes'
    BY <1>7
    DEF Receipts, ClaimInv, ClaimTypes
  <2>2. GuardIsTrue'
    BY <1>7
    DEF Receipts, ClaimInv, ClaimTypes, GuardIsTrue
  <2>3. CommandIsCareful'
    BY <1>7
    DEF Receipts, ClaimInv, ClaimTypes, CommandIsCareful, Recovery
  <2>4. FewCopies'
    BY <1>7
    DEF Receipts, ClaimInv, ClaimTypes, CommandIsCareful, FewCopies, Recovery
  <2>5. NeverForeclosed' /\ ReportIsTrue'
    BY <1>7
    DEF Receipts, ClaimInv, ClaimTypes, GuardIsTrue, CommandIsCareful,
      NeverForeclosed, ReportIsTrue
  <2> QED BY <2>1, <2>2, <2>3, <2>4, <2>5 DEF ClaimInv
<1>8. ASSUME NEW c \in Command, Begin(c) PROVE ClaimInv'
  <2>1. ClaimTypes'
    BY <1>8
    DEF Begin, Command, ClaimInv, ClaimTypes
  <2>2. GuardIsTrue'
    BY <1>8
    DEF Begin, Command, ClaimInv, ClaimTypes, GuardIsTrue
  <2>3. CommandIsCareful'
    BY <1>8
    DEF Begin, Command, ClaimInv, ClaimTypes, CommandIsCareful, Recovery
  <2>4. FewCopies'
    BY <1>8
    DEF Begin, Command, ClaimInv, ClaimTypes, CommandIsCareful, FewCopies, Recovery
  <2>5. NeverForeclosed' /\ ReportIsTrue'
    BY <1>8
    DEF Begin, Command, ClaimInv, ClaimTypes, GuardIsTrue, CommandIsCareful,
      NeverForeclosed, ReportIsTrue
  <2> QED BY <2>1, <2>2, <2>3, <2>4, <2>5 DEF ClaimInv
<1>9. CASE ReadOwner
  <2>1. ClaimTypes'
    BY <1>9
    DEF ReadOwner, ClaimInv, ClaimTypes
  <2>2. GuardIsTrue'
    BY <1>9
    DEF ReadOwner, ClaimInv, ClaimTypes, GuardIsTrue
  <2>3. CommandIsCareful'
    BY <1>9
    DEF ReadOwner, ClaimInv, ClaimTypes, CommandIsCareful, Recovery
  <2>4. FewCopies'
    BY <1>9
    DEF ReadOwner, ClaimInv, ClaimTypes, CommandIsCareful, FewCopies, Recovery
  <2>5. NeverForeclosed' /\ ReportIsTrue'
    BY <1>9
    DEF ReadOwner, ClaimInv, ClaimTypes, GuardIsTrue, CommandIsCareful,
      NeverForeclosed, ReportIsTrue
  <2> QED BY <2>1, <2>2, <2>3, <2>4, <2>5 DEF ClaimInv
<1>10. CASE InspectOwner
  <2>1. ClaimTypes'
    BY <1>10
    DEF InspectOwner, ClaimInv, ClaimTypes
  <2>2. GuardIsTrue'
    BY <1>10
    DEF InspectOwner, ClaimInv, ClaimTypes, GuardIsTrue
  <2>3. CommandIsCareful'
    BY <1>10
    DEF InspectOwner, ClaimInv, ClaimTypes, CommandIsCareful, Recovery
  <2>4. FewCopies'
    BY <1>10
    DEF InspectOwner, ClaimInv, ClaimTypes, CommandIsCareful, FewCopies, Recovery
  <2>5. NeverForeclosed' /\ ReportIsTrue'
    BY <1>10
    DEF InspectOwner, ClaimInv, ClaimTypes, GuardIsTrue, CommandIsCareful,
      NeverForeclosed, ReportIsTrue
  <2> QED BY <2>1, <2>2, <2>3, <2>4, <2>5 DEF ClaimInv
<1>11. CASE InspectRoom
  <2>1. ClaimTypes'
    BY <1>11
    DEF InspectRoom, ClaimInv, ClaimTypes
  <2>2. GuardIsTrue'
    BY <1>11
    DEF InspectRoom, ClaimInv, ClaimTypes, GuardIsTrue
  <2>3. CommandIsCareful'
    BY <1>11
    DEF InspectRoom, ClaimInv, ClaimTypes, CommandIsCareful, Recovery
  <2>4. FewCopies'
    BY <1>11
    DEF InspectRoom, ClaimInv, ClaimTypes, CommandIsCareful, FewCopies, Recovery
  <2>5. NeverForeclosed' /\ ReportIsTrue'
    BY <1>11
    DEF InspectRoom, ClaimInv, ClaimTypes, GuardIsTrue, CommandIsCareful,
      NeverForeclosed, ReportIsTrue
  <2> QED BY <2>1, <2>2, <2>3, <2>4, <2>5 DEF ClaimInv
<1>12. CASE ReadBack
  <2>1. ClaimTypes'
    BY <1>12
    DEF ReadBack, ClaimInv, ClaimTypes
  <2>2. GuardIsTrue'
    BY <1>12
    DEF ReadBack, ClaimInv, ClaimTypes, GuardIsTrue
  <2>3. CommandIsCareful'
    BY <1>12
    DEF ReadBack, ClaimInv, ClaimTypes, CommandIsCareful, Recovery
  <2>4. FewCopies'
    BY <1>12
    DEF ReadBack, ClaimInv, ClaimTypes, CommandIsCareful, FewCopies, Recovery
  <2>5. NeverForeclosed' /\ ReportIsTrue'
    BY <1>12
    DEF ReadBack, ClaimInv, ClaimTypes, GuardIsTrue, CommandIsCareful,
      NeverForeclosed, ReportIsTrue
  <2> QED BY <2>1, <2>2, <2>3, <2>4, <2>5 DEF ClaimInv
<1>13. CASE Observe
  <2>1. ClaimTypes'
    BY <1>13
    DEF Observe, Looked, ClaimInv, ClaimTypes
  <2>2. GuardIsTrue'
    BY <1>13
    DEF Observe, Looked, ClaimInv, ClaimTypes, GuardIsTrue
  <2>3. CommandIsCareful'
    BY <1>13
    DEF Observe, Looked, ClaimInv, ClaimTypes, CommandIsCareful, Recovery
  <2>4. FewCopies'
    BY <1>13
    DEF Observe, Looked, ClaimInv, ClaimTypes, CommandIsCareful, FewCopies, Recovery
  <2>5. NeverForeclosed' /\ ReportIsTrue'
    BY <1>13
    DEF Observe, Looked, ClaimInv, ClaimTypes, GuardIsTrue, CommandIsCareful,
      NeverForeclosed, ReportIsTrue
  <2> QED BY <2>1, <2>2, <2>3, <2>4, <2>5 DEF ClaimInv
<1>14. CASE GuardRecover
  <2>1. ClaimTypes'
    BY <1>14
    DEF GuardRecover, ClaimInv, ClaimTypes
  <2>2. GuardIsTrue'
    BY <1>14
    DEF GuardRecover, ClaimInv, ClaimTypes, GuardIsTrue
  <2>3. CommandIsCareful'
    BY <1>14
    DEF GuardRecover, ClaimInv, ClaimTypes, CommandIsCareful, Recovery
  <2>4. FewCopies'
    BY <1>14
    DEF GuardRecover, ClaimInv, ClaimTypes, CommandIsCareful, FewCopies, Recovery
  <2>5. NeverForeclosed' /\ ReportIsTrue'
    BY <1>14
    DEF GuardRecover, ClaimInv, ClaimTypes, GuardIsTrue, CommandIsCareful,
      NeverForeclosed, ReportIsTrue
  <2> QED BY <2>1, <2>2, <2>3, <2>4, <2>5 DEF ClaimInv
<1>15. CASE GuardPublish
  <2>1. ClaimTypes'
    BY <1>15
    DEF GuardPublish, ClaimInv, ClaimTypes
  <2>2. GuardIsTrue'
    BY <1>15
    DEF GuardPublish, ClaimInv, ClaimTypes, GuardIsTrue
  <2>3. CommandIsCareful'
    BY <1>15
    DEF GuardPublish, ClaimInv, ClaimTypes, CommandIsCareful, Recovery
  <2>4. FewCopies'
    BY <1>15
    DEF GuardPublish, ClaimInv, ClaimTypes, CommandIsCareful, FewCopies, Recovery
  <2>5. NeverForeclosed' /\ ReportIsTrue'
    BY <1>15
    DEF GuardPublish, ClaimInv, ClaimTypes, GuardIsTrue, CommandIsCareful,
      NeverForeclosed, ReportIsTrue
  <2> QED BY <2>1, <2>2, <2>3, <2>4, <2>5 DEF ClaimInv
<1>16. CASE SetNote
  <2>1. ClaimTypes'
    BY <1>16
    DEF SetNote, ClaimInv, ClaimTypes
  <2>2. GuardIsTrue'
    BY <1>16
    DEF SetNote, ClaimInv, ClaimTypes, GuardIsTrue
  <2>3. CommandIsCareful'
    BY <1>16
    DEF SetNote, ClaimInv, ClaimTypes, CommandIsCareful, Recovery
  <2>4. FewCopies'
    BY <1>16
    DEF SetNote, ClaimInv, ClaimTypes, CommandIsCareful, FewCopies, Recovery
  <2>5. NeverForeclosed' /\ ReportIsTrue'
    BY <1>16
    DEF SetNote, ClaimInv, ClaimTypes, GuardIsTrue, CommandIsCareful,
      NeverForeclosed, ReportIsTrue
  <2> QED BY <2>1, <2>2, <2>3, <2>4, <2>5 DEF ClaimInv
<1>17. CASE Interrupt
  <2>1. ClaimTypes'
    BY <1>17
    DEF Interrupt, ClaimInv, ClaimTypes
  <2>2. GuardIsTrue'
    BY <1>17
    DEF Interrupt, ClaimInv, ClaimTypes, GuardIsTrue
  <2>3. CommandIsCareful'
    BY <1>17
    DEF Interrupt, ClaimInv, ClaimTypes, CommandIsCareful, Recovery
  <2>4. FewCopies'
    BY <1>17
    DEF Interrupt, ClaimInv, ClaimTypes, CommandIsCareful, FewCopies, Recovery
  <2>5. NeverForeclosed' /\ ReportIsTrue'
    BY <1>17
    DEF Interrupt, ClaimInv, ClaimTypes, GuardIsTrue, CommandIsCareful,
      NeverForeclosed, ReportIsTrue
  <2> QED BY <2>1, <2>2, <2>3, <2>4, <2>5 DEF ClaimInv
<1>18. CASE ReadRoom
  <2>1. ClaimTypes'
    BY <1>18
    DEF ReadRoom, Attested, ClaimInv, ClaimTypes
  <2>2. GuardIsTrue'
    BY <1>18
    DEF ReadRoom, Attested, ClaimInv, ClaimTypes, GuardIsTrue
  <2>3. CommandIsCareful'
    BY <1>18
    DEF ReadRoom, Attested, ClaimInv, ClaimTypes, CommandIsCareful, Recovery
  <2>4. FewCopies'
    BY <1>18
    DEF ReadRoom, Attested, ClaimInv, ClaimTypes, CommandIsCareful, FewCopies, Recovery
  <2>5. NeverForeclosed' /\ ReportIsTrue'
    BY <1>18
    DEF ReadRoom, Attested, ClaimInv, ClaimTypes, GuardIsTrue, CommandIsCareful,
      NeverForeclosed, ReportIsTrue
  <2> QED BY <2>1, <2>2, <2>3, <2>4, <2>5 DEF ClaimInv
<1>19. CASE GuardAgain
  <2>1. ClaimTypes'
    BY <1>19
    DEF GuardAgain, ClaimInv, ClaimTypes
  <2>2. GuardIsTrue'
    BY <1>19
    DEF GuardAgain, ClaimInv, ClaimTypes, GuardIsTrue
  <2>3. CommandIsCareful'
    BY <1>19
    DEF GuardAgain, ClaimInv, ClaimTypes, CommandIsCareful, Recovery
  <2>4. FewCopies'
    BY <1>19
    DEF GuardAgain, ClaimInv, ClaimTypes, CommandIsCareful, FewCopies, Recovery
  <2>5. NeverForeclosed' /\ ReportIsTrue'
    BY <1>19
    DEF GuardAgain, ClaimInv, ClaimTypes, GuardIsTrue, CommandIsCareful,
      NeverForeclosed, ReportIsTrue
  <2> QED BY <2>1, <2>2, <2>3, <2>4, <2>5 DEF ClaimInv
<1>20. CASE Publish
  <2>1. ClaimTypes'
    BY <1>20
    DEF Publish, AttestationLands, Unconfirmed, ClaimInv, ClaimTypes
  <2>2. GuardIsTrue'
    BY <1>20
    DEF Publish, AttestationLands, Unconfirmed, ClaimInv, ClaimTypes, GuardIsTrue
  <2>3. CommandIsCareful'
    BY <1>20
    DEF Publish, AttestationLands, Unconfirmed, ClaimInv, ClaimTypes, CommandIsCareful, Recovery
  <2>4. FewCopies'
    BY <1>20
    DEF Publish, AttestationLands, Unconfirmed, ClaimInv, ClaimTypes, CommandIsCareful, FewCopies, Recovery
  <2>5. NeverForeclosed' /\ ReportIsTrue'
    BY <1>20
    DEF Publish, AttestationLands, Unconfirmed, ClaimInv, ClaimTypes, GuardIsTrue, CommandIsCareful,
      NeverForeclosed, ReportIsTrue
  <2> QED BY <2>1, <2>2, <2>3, <2>4, <2>5 DEF ClaimInv
<1>21. CASE LandLate
  <2>1. ClaimTypes'
    BY <1>21
    DEF LandLate, AttestationLands, ClaimInv, ClaimTypes
  <2>2. GuardIsTrue'
    BY <1>21
    DEF LandLate, AttestationLands, ClaimInv, ClaimTypes, GuardIsTrue
  <2>3. CommandIsCareful'
    BY <1>21
    DEF LandLate, AttestationLands, ClaimInv, ClaimTypes, CommandIsCareful, Recovery
  <2>4. FewCopies'
    BY <1>21
    DEF LandLate, AttestationLands, ClaimInv, ClaimTypes, CommandIsCareful, FewCopies, Recovery
  <2>5. NeverForeclosed' /\ ReportIsTrue'
    BY <1>21
    DEF LandLate, AttestationLands, ClaimInv, ClaimTypes, GuardIsTrue, CommandIsCareful,
      NeverForeclosed, ReportIsTrue
  <2> QED BY <2>1, <2>2, <2>3, <2>4, <2>5 DEF ClaimInv
<1>22. CASE Tick
  <2>1. ClaimTypes'
    BY <1>22
    DEF Tick, InFlight, ClaimInv, ClaimTypes
  <2>2. GuardIsTrue'
    BY <1>22
    DEF Tick, InFlight, ClaimInv, ClaimTypes, GuardIsTrue
  <2>3. CommandIsCareful'
    BY <1>22
    DEF Tick, InFlight, ClaimInv, ClaimTypes, CommandIsCareful, Recovery
  <2>4. FewCopies'
    BY <1>22
    DEF Tick, InFlight, ClaimInv, ClaimTypes, CommandIsCareful, FewCopies, Recovery
  <2>5. NeverForeclosed' /\ ReportIsTrue'
    BY <1>22
    DEF Tick, InFlight, ClaimInv, ClaimTypes, GuardIsTrue, CommandIsCareful,
      NeverForeclosed, ReportIsTrue
  <2> QED BY <2>1, <2>2, <2>3, <2>4, <2>5 DEF ClaimInv
<1>23. CASE Stranger
  <2>1. ClaimTypes'
    BY <1>23
    DEF Stranger, ClaimInv, ClaimTypes
  <2>2. GuardIsTrue'
    BY <1>23
    DEF Stranger, ClaimInv, ClaimTypes, GuardIsTrue
  <2>3. CommandIsCareful'
    BY <1>23
    DEF Stranger, ClaimInv, ClaimTypes, CommandIsCareful, Recovery
  <2>4. FewCopies'
    BY <1>23
    DEF Stranger, ClaimInv, ClaimTypes, CommandIsCareful, FewCopies, Recovery
  <2>5. NeverForeclosed' /\ ReportIsTrue'
    BY <1>23
    DEF Stranger, ClaimInv, ClaimTypes, GuardIsTrue, CommandIsCareful,
      NeverForeclosed, ReportIsTrue
  <2> QED BY <2>1, <2>2, <2>3, <2>4, <2>5 DEF ClaimInv
<1> QED
  BY <1>1, <1>2, <1>3, <1>4, <1>5, <1>6, <1>7, <1>8, <1>9, <1>10, <1>11, <1>12,
     <1>13, <1>14, <1>15, <1>16, <1>17, <1>18, <1>19, <1>20, <1>21, <1>22, <1>23
  DEF Next, Service, Operator

LEMMA ClaimStutters ==
  ASSUME ClaimInv, UNCHANGED vars
  PROVE  ClaimInv'
BY DEF ClaimInv, ClaimTypes, GuardIsTrue, CommandIsCareful, FewCopies, NeverForeclosed,
  ReportIsTrue, vars, upstream, recorded, locals, excuses, history, bounds

LEMMA ClaimAlways == Spec => []ClaimInv
<1>1. ClaimInv /\ [Next]_vars => ClaimInv'
  BY ClaimStep, ClaimStutters
<1> QED
  BY ClaimInit, <1>1, PTL DEF Spec

----------------------------------------------------------------------------
\* publish-profile and recover-result-room, retried as often as the operator likes, and
\* the receipts beside them foreclose nothing: the sink's guard stands for a note that is ours.
THEOREM NothingForeclosed == Spec => []NeverForeclosed
BY ClaimAlways, PTL DEF ClaimInv

\* Neither a claim of another room, nor a renewal that was refused after its owner read,
\* nor a lost answer makes the ledger call a lease live that is not.
THEOREM LiveLeaseIsOurs == Spec => []LeaseIsTrue
<1>1. ClaimInv => LeaseIsTrue
  BY DEF ClaimInv, GuardIsTrue, LeaseIsTrue
<1> QED
  BY ClaimAlways, <1>1, PTL

\* profile_is_verifiable is what happened to the attestation.
THEOREM AnswersAreTrue == Spec => []ReportIsTrue
BY ClaimAlways, PTL DEF ClaimInv

\* A retry writes no second attestation beside one that it read, or could have read.
THEOREM OneAttestation == Spec => []AttestedOnce
<1>1. ClaimInv => AttestedOnce
  BY DEF ClaimInv, ClaimTypes, FewCopies, AttestedOnce
<1> QED
  BY ClaimAlways, <1>1, PTL
============================================================================
