------------------------- MODULE AuditCopiesProofs -------------------------
(***************************************************************************)
(* What the ledger calls published is public, for any jobs, any number of  *)
(* HTTP callers beside the loop, any faults and any number of crashes.     *)
(***************************************************************************)
EXTENDS AuditCopies, FiniteSetTheorems, SequenceTheorems, WellFoundedInduction, TLAPS

----------------------------------------------------------------------------
(* The inductive invariant. *)

\* Where a POST landed, the receipt it carried is.
LandedIsCopy ==
  \A t \in Task : landed[t] # 0 =>
    /\ step[t] = "wire"
    /\ landed[t] \in 1 .. Len(room)
    /\ room[landed[t]] = CopyOf(target[t])

\* Nobody publishes a receipt that does not exist.
NoneBeforeReceipt ==
  \A c \in Caller : audit[jobOf[c]] = "none" => step[c] = "idle"

PublicInv == TypeOK /\ PublishedIsInRoom /\ LandedIsCopy /\ NoneBeforeReceipt
----------------------------------------------------------------------------
LEMMA AppendFacts ==
  ASSUME NEW s \in Seq(Copy), NEW c \in Copy
  PROVE  /\ Append(s, c) \in Seq(Copy)
         /\ Len(Append(s, c)) = Len(s) + 1
         /\ Len(s) \in Nat
         /\ \A i \in 1 .. Len(s) : Append(s, c)[i] = s[i]
         /\ Append(s, c)[Len(s) + 1] = c
OBVIOUS

LEMMA CopyType ==
  ASSUME NEW j \in Job
  PROVE  CopyOf(j) \in Copy
BY DEF CopyOf, Copy

LEMMA FunctionIsSeq ==
  ASSUME NEW S, NEW n \in Nat, NEW f \in [1 .. n -> S]
  PROVE  f \in Seq(S)
BY SeqDef, Zenon

LEMMA PublicInit == Init => PublicInv
<1> SUFFICES ASSUME Init PROVE PublicInv
  OBVIOUS
<1>1. PICK old \in [1 .. Cardinality(Foreign) -> Foreign] :
        room = [i \in DOMAIN old |-> [job |-> old[i], genuine |-> FALSE]]
  BY DEF Init
<1>2. Cardinality(Foreign) \in Nat
  BY AuditAssumption, FS_Subset, FS_CardinalityType
<1>3. room \in [1 .. Cardinality(Foreign) -> Copy]
  BY <1>1, AuditAssumption DEF Copy
<1>4. room \in Seq(Copy)
  BY <1>2, <1>3, FunctionIsSeq
<1>5. Len(room) \in Nat
  BY <1>4
<1>6. (CHOOSE j \in Job : TRUE) \in Job
  BY AuditAssumption
<1>7. TypeOK
  <2>1. target \in [Task -> Job]
    BY <1>6 DEF Init
  <2>2. cursor \in 0 .. Len(room) /\ readTo \in 0 .. Len(room)
        /\ landed \in [Task -> 0 .. Len(room)]
    <3>1. cursor = 0 /\ readTo = 0 /\ landed = [t \in Task |-> 0]
      BY DEF Init
    <3> QED
      BY <1>5, <3>1
  <2>3. queue \in Seq(Job) /\ late \subseteq Job /\ crashes \in 0 .. MaxCrashes
    BY AuditAssumption DEF Init
  <2>4. /\ audit \in [Job -> {"none", "owed", "published", "quarantined"}]
        /\ seqOf \in [Job -> Nat] /\ attempts \in [Job -> Nat]
        /\ born \in [Job -> Nat] /\ owns \in BOOLEAN
        /\ step \in [Task -> {"idle", "announce", "wire"}]
        /\ at \in {"poll", "sync", "mark", "cursor", "fetch", "rows"}
    BY DEF Init
  <2> QED
    BY <1>4, <2>1, <2>2, <2>3, <2>4 DEF TypeOK
<1>8. PublishedIsInRoom /\ LandedIsCopy /\ NoneBeforeReceipt
  BY AuditAssumption DEF Init, PublishedIsInRoom, LandedIsCopy, NoneBeforeReceipt, Task
<1> QED
  BY <1>7, <1>8 DEF PublicInv

----------------------------------------------------------------------------
(* The steps, one lemma for each action. *)

\* Only the loop and the guard move.
LEMMA QuietStep ==
  ASSUME PublicInv, UNCHANGED <<audit, seqOf, attempts, born, room, late, publish,
                                crashes>>,
         owns' \in BOOLEAN,
         at' \in {"poll", "sync", "mark", "cursor", "fetch", "rows"},
         readTo' \in 0 .. Len(room), cursor' \in 0 .. Len(room),
         queue' \in Seq(Job)
  PROVE  PublicInv'
<1>1. TypeOK'
  BY DEF PublicInv, TypeOK, publish
<1>2. PublishedIsInRoom'
  BY DEF PublicInv, PublishedIsInRoom
<1>3. LandedIsCopy'
  BY DEF PublicInv, LandedIsCopy, publish
<1>4. NoneBeforeReceipt'
  BY DEF PublicInv, NoneBeforeReceipt, publish
<1> QED
  BY <1>1, <1>2, <1>3, <1>4 DEF PublicInv

LEMMA LoopQuiet ==
  ASSUME PublicInv, Reconcile \/ ReadRoom \/ SetCursor \/ Observe
  PROVE  PublicInv'
<1>0. TypeOK
  BY DEF PublicInv
<1>1. Len(room) \in Nat /\ readTo \in 0 .. Len(room) /\ cursor \in 0 .. Len(room)
  BY <1>0 DEF TypeOK
<1>2. CASE Reconcile
  BY <1>0, <1>2, QuietStep DEF Reconcile, TypeOK, ledger, upstream, publish
<1>3. CASE ReadRoom
  BY <1>0, <1>1, <1>3, QuietStep DEF ReadRoom, TypeOK, ledger, upstream, publish
<1>4. CASE SetCursor
  BY <1>0, <1>1, <1>4, QuietStep DEF SetCursor, LastRead, TypeOK, upstream, publish
<1>5. CASE Observe
  BY <1>0, <1>5, QuietStep DEF Observe, TypeOK, ledger, upstream, publish, loop
<1> QED
  BY <1>2, <1>3, <1>4, <1>5

LEMMA FetchStep ==
  ASSUME PublicInv, FetchRows
  PROVE  PublicInv'
<1>0. TypeOK
  BY DEF PublicInv
<1>1. PICK n \in 0 .. Limit : \E q \in [1 .. n -> Awaiting] : queue' = q
  BY DEF FetchRows
<1>2. n \in Nat /\ queue' \in [1 .. n -> Job]
  BY <1>1, AuditAssumption DEF Awaiting
<1>3. queue' \in Seq(Job)
  BY <1>2, FunctionIsSeq
<1> QED
  BY <1>0, <1>3, QuietStep DEF FetchRows, TypeOK, ledger, upstream, publish

\* The announcer's target may change while it waits for no answer.
LEMMA AnnounceStep ==
  ASSUME PublicInv, NEW T \in SUBSET Task, NEW j \in Job, Announce(T, j),
         \A t \in T : step[t] = "idle",
         \A c \in Caller \cap T : audit'[jobOf[c]] # "none",
         UNCHANGED <<room, landed>>
  PROVE  /\ step' \in [Task -> {"idle", "announce", "wire"}]
         /\ target' \in [Task -> Job]
         /\ LandedIsCopy'
         /\ \A c \in Caller : audit'[jobOf[c]] = "none" => step'[c] = step[c]
<1>0. TypeOK /\ LandedIsCopy
  BY DEF PublicInv
<1>1. /\ step' \in [Task -> {"idle", "announce", "wire"}]
      /\ target' \in [Task -> Job]
  BY <1>0 DEF Announce, TypeOK
<1>2. ASSUME NEW t \in Task, landed'[t] # 0
      PROVE  /\ step'[t] = "wire"
             /\ landed'[t] \in 1 .. Len(room')
             /\ room'[landed'[t]] = CopyOf(target'[t])
  <2>1. step[t] = "wire" /\ landed[t] \in 1 .. Len(room)
        /\ room[landed[t]] = CopyOf(target[t])
    BY <1>0, <1>2 DEF LandedIsCopy
  <2>2. step'[t] = step[t] /\ target'[t] = target[t]
    BY <2>1 DEF Announce
  <2> QED
    BY <2>1, <2>2
<1>3. LandedIsCopy'
  BY <1>2 DEF LandedIsCopy
<1>4. \A c \in Caller : audit'[jobOf[c]] = "none" => step'[c] = step[c]
  BY DEF Announce, Task
<1> QED
  BY <1>1, <1>3, <1>4

LEMMA FinishStep ==
  ASSUME PublicInv, NEW j \in Job, Finish(j)
  PROVE  PublicInv'
<1> DEFINE waiting == {c \in Caller : jobOf[c] = j}
<1>0. TypeOK /\ PublishedIsInRoom /\ NoneBeforeReceipt
  BY DEF PublicInv
<1>1. PICK T \in SUBSET Task : /\ Announce(T, j)
                               /\ Loop \in T => step[Loop] = "idle"
                               /\ \A c \in T \ {Loop} : c \in Caller /\ jobOf[c] = j
  <2>1. CASE j \in Mail
    <3>1. Announce(waiting \cup {Loop}, j) /\ step[Loop] = "idle"
      BY <2>1 DEF Finish
    <3> QED
      BY <3>1, AuditAssumption DEF Task
  <2>2. CASE j \notin Mail
    <3>1. Announce(waiting, j)
      BY <2>2 DEF Finish
    <3> QED
      BY <3>1, AuditAssumption DEF Task
  <2> QED
    BY <2>1, <2>2
<1>2. /\ audit[j] = "none"
      /\ audit' = [audit EXCEPT ![j] = "owed"]
      /\ born' = [born EXCEPT ![j] = Cardinality(Recorded)]
      /\ UNCHANGED <<seqOf, attempts, cursor, upstream, owns, landed, loop, crashes>>
  BY DEF Finish
<1> HIDE DEF waiting
<1>1a. T \subseteq Task
  BY <1>1
<1>1b. /\ Loop \in T => step[Loop] = "idle"
      /\ \A c \in T \ {Loop} : c \in Caller /\ jobOf[c] = j
  BY <1>1
<1>3. \A t \in T : step[t] = "idle"
  <2> SUFFICES ASSUME NEW t \in T PROVE step[t] = "idle"
    OBVIOUS
  <2>1. CASE t = Loop
    BY <1>1b, <2>1
  <2>2. CASE t # Loop
    <3>1. t \in Caller /\ jobOf[t] = j
      BY <1>1b, <2>2
    <3> QED
      BY <1>0, <1>2, <3>1, Zenon DEF NoneBeforeReceipt
  <2> QED
    BY <2>1, <2>2
<1>4. \A c \in Caller \cap T : audit'[jobOf[c]] # "none"
  <2> SUFFICES ASSUME NEW c \in Caller, c \in T PROVE audit'[jobOf[c]] # "none"
    OBVIOUS
  <2>1. jobOf[c] = j
    BY <1>1b, AuditAssumption
  <2> QED
    BY <1>0, <1>2, <2>1 DEF TypeOK
<1>5. /\ step' \in [Task -> {"idle", "announce", "wire"}]
      /\ target' \in [Task -> Job]
      /\ LandedIsCopy'
      /\ \A c \in Caller : audit'[jobOf[c]] = "none" => step'[c] = step[c]
  <2>1. UNCHANGED <<room, landed>>
    BY <1>2 DEF upstream
  <2> QED
    BY <1>1, <1>1a, <1>3, <1>4, <2>1, AnnounceStep
<1>6. Cardinality(Recorded) \in Nat
  BY AuditAssumption, FS_Subset, FS_CardinalityType DEF Recorded
<1>7. TypeOK'
  BY <1>0, <1>2, <1>5, <1>6 DEF TypeOK, upstream, loop
<1>8. PublishedIsInRoom'
  BY <1>0, <1>2 DEF PublishedIsInRoom, TypeOK, upstream
<1>9. NoneBeforeReceipt'
  BY <1>0, <1>2, <1>5, AuditAssumption DEF NoneBeforeReceipt, TypeOK
<1> QED
  BY <1>5, <1>7, <1>8, <1>9 DEF PublicInv

\* An attempt is noted: nothing that was published is claimed anew.
LEMMA NoteAttemptFacts ==
  ASSUME PublicInv, NEW j \in Job, NoteAttempt(j)
  PROVE  /\ audit' \in [Job -> {"none", "owed", "published", "quarantined"}]
         /\ attempts' \in [Job -> Nat]
         /\ seqOf' = seqOf
         /\ \A k \in Job : audit'[k] = "published" => audit[k] = "published"
         /\ \A k \in Job : audit'[k] = "none" => audit[k] = "none"
BY DEF PublicInv, TypeOK, NoteAttempt

LEMMA SendStep ==
  ASSUME PublicInv, NEW t \in Task, Send(t)
  PROVE  PublicInv'
<1>0. TypeOK /\ PublishedIsInRoom /\ LandedIsCopy /\ NoneBeforeReceipt
  BY DEF PublicInv
<1>1. target[t] \in Job
  BY <1>0 DEF TypeOK
<1>2. /\ step[t] = "announce"
      /\ UNCHANGED <<born, cursor, upstream, owns, target, landed, loop, crashes>>
      /\ step' = [step EXCEPT ![t] = "idle"] \/ step' = [step EXCEPT ![t] = "wire"]
      /\ UNCHANGED <<audit, seqOf, attempts>> \/ NoteAttempt(target[t])
  BY DEF Send, Unsendable
<1>3. /\ audit' \in [Job -> {"none", "owed", "published", "quarantined"}]
      /\ attempts' \in [Job -> Nat]
      /\ seqOf' = seqOf
      /\ \A k \in Job : audit'[k] = "published" => audit[k] = "published"
      /\ \A k \in Job : audit'[k] = "none" => audit[k] = "none"
  <2>1. CASE UNCHANGED <<audit, seqOf, attempts>>
    BY <1>0, <2>1 DEF TypeOK
  <2>2. CASE NoteAttempt(target[t])
    BY <1>1, <2>2, NoteAttemptFacts
  <2> QED
    BY <1>2, <2>1, <2>2
<1>4. TypeOK'
  BY <1>0, <1>2, <1>3 DEF TypeOK, upstream, loop
<1>5. PublishedIsInRoom'
  BY <1>0, <1>2, <1>3 DEF PublishedIsInRoom, upstream
<1>6. LandedIsCopy'
  BY <1>0, <1>2 DEF LandedIsCopy, TypeOK, upstream
<1>7. ASSUME NEW c \in Caller, audit'[jobOf[c]] = "none"
      PROVE  step'[c] = "idle"
  <2>1. c \in Task /\ jobOf[c] \in Job
    BY AuditAssumption DEF Task
  <2>2. step[c] = "idle"
    BY <1>0, <1>3, <1>7, <2>1 DEF NoneBeforeReceipt
  <2>3. step \in [Task -> {"idle", "announce", "wire"}]
    BY <1>0 DEF TypeOK
  <2> QED
    BY <1>2, <2>1, <2>2, <2>3
<1> QED
  BY <1>4, <1>5, <1>6, <1>7 DEF PublicInv, NoneBeforeReceipt

\* The room only grows.
LEMMA RoomStep ==
  ASSUME PublicInv, NEW j \in Job, room' = Append(room, CopyOf(j)),
         UNCHANGED <<ledger, owns, step, target, loop, crashes>>,
         late' \subseteq Job,
         landed' \in [Task -> 0 .. Len(room) + 1],
         \A t \in Task : \/ landed'[t] = landed[t]
                         \/ /\ landed'[t] = Len(room) + 1
                            /\ step[t] = "wire" /\ target[t] = j
  PROVE  PublicInv'
<1>0. TypeOK /\ PublishedIsInRoom /\ LandedIsCopy /\ NoneBeforeReceipt
  BY DEF PublicInv
<1>1. room \in Seq(Copy) /\ CopyOf(j) \in Copy
  BY <1>0, CopyType DEF TypeOK
<1>2. /\ room' \in Seq(Copy)
      /\ Len(room') = Len(room) + 1
      /\ Len(room) \in Nat
      /\ \A i \in 1 .. Len(room) : room'[i] = room[i]
      /\ room'[Len(room) + 1] = CopyOf(j)
  BY <1>1, AppendFacts
<1>3. TypeOK'
  BY <1>0, <1>2 DEF TypeOK, ledger, loop
<1>4. PublishedIsInRoom'
  BY <1>0, <1>2 DEF PublishedIsInRoom, ledger
<1>5. LandedIsCopy'
  BY <1>0, <1>2 DEF LandedIsCopy
<1>6. NoneBeforeReceipt'
  BY <1>0 DEF NoneBeforeReceipt, ledger
<1> QED
  BY <1>3, <1>4, <1>5, <1>6 DEF PublicInv

LEMMA LandStep ==
  ASSUME PublicInv, NEW t \in Task, Land(t)
  PROVE  PublicInv'
<1>1. TypeOK
  BY DEF PublicInv
<1>2. target[t] \in Job /\ Len(room) \in Nat
  BY <1>1 DEF TypeOK
<1>3. landed' \in [Task -> 0 .. Len(room) + 1]
  BY <1>1, <1>2 DEF Land, TypeOK
<1>4. \A u \in Task : \/ landed'[u] = landed[u]
                      \/ /\ landed'[u] = Len(room) + 1
                         /\ step[u] = "wire" /\ target[u] = target[t]
  BY <1>1 DEF Land, TypeOK
<1>5. /\ room' = Append(room, CopyOf(target[t]))
      /\ UNCHANGED <<ledger, owns, step, target, loop, crashes>>
      /\ late' \subseteq Job
  BY <1>1 DEF Land, TypeOK
<1> QED
  BY <1>2, <1>3, <1>4, <1>5, RoomStep

LEMMA LandLateStep ==
  ASSUME PublicInv, NEW j \in Job, LandLate(j)
  PROVE  PublicInv'
<1>1. TypeOK
  BY DEF PublicInv
<1>2. Len(room) \in Nat
  BY <1>1 DEF TypeOK
<1>3. landed' \in [Task -> 0 .. Len(room) + 1] /\ late' \subseteq Job
  BY <1>1, <1>2 DEF LandLate, TypeOK, publish
<1>4. /\ room' = Append(room, CopyOf(j))
      /\ UNCHANGED <<ledger, owns, step, target, loop, crashes>>
      /\ \A u \in Task : landed'[u] = landed[u]
  BY DEF LandLate, publish
<1> QED
  BY <1>3, <1>4, RoomStep

\* Waiting ends for the tasks of T, and nothing that is published was not in the room.
LEMMA GiveUpStep ==
  ASSUME PublicInv, NEW T \in SUBSET Task,
         step' = [t \in Task |-> IF t \in T THEN "idle" ELSE step[t]],
         landed' = [t \in Task |-> IF t \in T THEN 0 ELSE landed[t]],
         UNCHANGED <<room, target, seqOf, born, cursor, audit, attempts, owns>>,
         late' \in {late, Abandoned(T)},
         at' \in {"poll", "sync", "mark", "cursor", "fetch", "rows"},
         readTo' \in 0 .. Len(room), queue' \in Seq(Job),
         crashes' \in 0 .. MaxCrashes
  PROVE  PublicInv'
<1>0. TypeOK /\ PublishedIsInRoom /\ LandedIsCopy /\ NoneBeforeReceipt
  BY DEF PublicInv
<1>1. late' \subseteq Job
  BY <1>0 DEF TypeOK, Abandoned
<1>2. /\ step' \in [Task -> {"idle", "announce", "wire"}]
      /\ landed' \in [Task -> 0 .. Len(room)]
  <2>1. Len(room) \in Nat
    BY <1>0 DEF TypeOK
  <2> QED
    BY <1>0, <2>1 DEF TypeOK
<1>3. TypeOK'
  BY <1>0, <1>1, <1>2 DEF TypeOK
<1>4. PublishedIsInRoom'
  BY <1>0 DEF PublishedIsInRoom
<1>5. LandedIsCopy'
  BY <1>0 DEF LandedIsCopy
<1>6. NoneBeforeReceipt'
  BY <1>0 DEF NoneBeforeReceipt, Task
<1> QED
  BY <1>3, <1>4, <1>5, <1>6 DEF PublicInv

LEMMA HangupStep ==
  ASSUME PublicInv, NEW c \in Caller, Hangup(c)
  PROVE  PublicInv'
<1>0. TypeOK
  BY DEF PublicInv
<1>1. /\ step' = [t \in Task |-> IF t \in {c} THEN "idle" ELSE step[t]]
      /\ landed' = [t \in Task |-> IF t \in {c} THEN 0 ELSE landed[t]]
  BY <1>0 DEF Hangup, TypeOK
<1>2. /\ UNCHANGED <<room, target, seqOf, born, cursor, audit, attempts, owns>>
      /\ late' = Abandoned({c})
      /\ UNCHANGED <<at, readTo, queue, crashes>>
  BY DEF Hangup, ledger, loop
<1>3. {c} \in SUBSET Task
  BY DEF Task
<1> QED
  BY <1>0, <1>1, <1>2, <1>3, GiveUpStep DEF TypeOK

LEMMA CrashStep ==
  ASSUME PublicInv, Crash
  PROVE  PublicInv'
<1>0. TypeOK
  BY DEF PublicInv
<1>1. /\ step' = [t \in Task |-> IF t \in Task THEN "idle" ELSE step[t]]
      /\ landed' = [t \in Task |-> IF t \in Task THEN 0 ELSE landed[t]]
  BY DEF Crash
<1>2. /\ UNCHANGED <<room, target, seqOf, born, cursor, audit, attempts, owns>>
      /\ late' = Abandoned(Task)
      /\ at' = "poll" /\ readTo' = 0 /\ queue' = <<>>
      /\ crashes < MaxCrashes /\ crashes' = crashes + 1
  BY DEF Crash, ledger
<1>3. Len(room) \in Nat /\ crashes \in 0 .. MaxCrashes
  BY <1>0 DEF TypeOK
<1>4. /\ at' \in {"poll", "sync", "mark", "cursor", "fetch", "rows"}
      /\ readTo' \in 0 .. Len(room) /\ queue' \in Seq(Job)
      /\ crashes' \in 0 .. MaxCrashes
  BY <1>2, <1>3, AuditAssumption
<1> QED
  BY <1>1, <1>2, <1>4, GiveUpStep

LEMMA ConfirmStep ==
  ASSUME PublicInv, NEW t \in Task, Confirm(t)
  PROVE  PublicInv'
<1>0. TypeOK /\ PublishedIsInRoom /\ LandedIsCopy /\ NoneBeforeReceipt
  BY DEF PublicInv
<1>1. target[t] \in Job /\ Len(room) \in Nat
  BY <1>0 DEF TypeOK
<1>2. /\ step[t] = "wire"
      /\ step' = [step EXCEPT ![t] = "idle"]
      /\ landed' = [landed EXCEPT ![t] = 0]
      /\ UNCHANGED <<born, cursor, room, owns, target, loop, crashes>>
      /\ \/ /\ landed[t] # 0
            /\ audit' = [audit EXCEPT ![target[t]] = "published"]
            /\ seqOf' = [seqOf EXCEPT ![target[t]] = landed[t]]
            /\ UNCHANGED <<attempts, late>>
         \/ /\ NoteAttempt(target[t])
            /\ late' = Abandoned({t})
  BY Zenon DEF Confirm
<1>3. /\ audit' \in [Job -> {"none", "owed", "published", "quarantined"}]
      /\ attempts' \in [Job -> Nat]
      /\ seqOf' \in [Job -> Nat]
      /\ late' \subseteq Job
      /\ \A k \in Job : audit'[k] = "none" => audit[k] = "none"
      /\ PublishedIsInRoom'
  <2>1. CASE /\ landed[t] # 0
             /\ audit' = [audit EXCEPT ![target[t]] = "published"]
             /\ seqOf' = [seqOf EXCEPT ![target[t]] = landed[t]]
             /\ UNCHANGED <<attempts, late>>
    <3>1. landed[t] \in 1 .. Len(room) /\ room[landed[t]] = CopyOf(target[t])
      BY <1>0, <2>1 DEF LandedIsCopy
    <3>2. PublishedIsInRoom'
      BY <1>0, <1>2, <2>1, <3>1 DEF PublishedIsInRoom, TypeOK
    <3> QED
      BY <1>0, <1>1, <2>1, <3>1, <3>2 DEF TypeOK
  <2>2. CASE NoteAttempt(target[t]) /\ late' = Abandoned({t})
    <3>1. /\ audit' \in [Job -> {"none", "owed", "published", "quarantined"}]
          /\ attempts' \in [Job -> Nat]
          /\ seqOf' = seqOf
          /\ \A k \in Job : audit'[k] = "published" => audit[k] = "published"
          /\ \A k \in Job : audit'[k] = "none" => audit[k] = "none"
      BY <1>1, <2>2, NoteAttemptFacts
    <3>2. late' \subseteq Job
      BY <1>0, <2>2 DEF Abandoned, TypeOK
    <3>3. PublishedIsInRoom'
      BY <1>0, <1>2, <3>1 DEF PublishedIsInRoom
    <3> QED
      BY <1>0, <3>1, <3>2, <3>3 DEF TypeOK
  <2> QED
    BY <1>2, <2>1, <2>2
<1>4. TypeOK'
  <2>1. /\ step' \in [Task -> {"idle", "announce", "wire"}]
        /\ landed' \in [Task -> 0 .. Len(room)]
    BY <1>0, <1>1, <1>2 DEF TypeOK
  <2>2. UNCHANGED <<born, cursor, room, owns, target, at, readTo, queue, crashes>>
    BY <1>2 DEF loop
  <2> QED
    BY <1>0, <1>3, <2>1, <2>2 DEF TypeOK
<1>5. LandedIsCopy'
  BY <1>0, <1>2 DEF LandedIsCopy, TypeOK
<1>6. NoneBeforeReceipt'
  BY <1>0, <1>2, <1>3, AuditAssumption DEF NoneBeforeReceipt, TypeOK, Task
<1> QED
  BY <1>3, <1>4, <1>5, <1>6 DEF PublicInv

\* What mark_published took the room's word for is in the room.
LEMMA SightFacts ==
  ASSUME TypeOK, NEW j \in Job, NEW i \in cursor + 1 .. readTo, Sight(j, i)
  PROVE  i \in 1 .. Len(room) /\ room[i] = CopyOf(j)
<1>1. i \in 1 .. Len(room)
  BY DEF TypeOK
<1>2. room[i] \in Copy
  BY <1>1 DEF TypeOK
<1>3. room[i].job = j /\ room[i].genuine
  BY DEF Sight, LastSight
<1> QED
  BY <1>1, <1>2, <1>3 DEF Copy, CopyOf

LEMMA MarkStep ==
  ASSUME PublicInv, MarkPublished
  PROVE  PublicInv'
<1>0. TypeOK /\ PublishedIsInRoom /\ LandedIsCopy /\ NoneBeforeReceipt
  BY DEF PublicInv
<1>1. /\ audit' = [j \in Job |-> IF j \in Seen THEN "published" ELSE audit[j]]
      /\ seqOf' = [j \in Job |-> IF j \in Seen
                                 THEN CHOOSE i \in cursor + 1 .. readTo : Sight(j, i)
                                 ELSE seqOf[j]]
      /\ at' = "cursor"
      /\ UNCHANGED <<attempts, born, cursor, upstream, owns, publish, readTo, queue,
                     crashes>>
  BY DEF MarkPublished
<1>2. ASSUME NEW j \in Job, j \in Seen
      PROVE  seqOf'[j] \in 1 .. Len(room) /\ room[seqOf'[j]] = CopyOf(j)
  <2>1. \E i \in cursor + 1 .. readTo : Sight(j, i)
    BY <1>2 DEF Seen
  <2>2. seqOf'[j] = CHOOSE i \in cursor + 1 .. readTo : Sight(j, i)
    BY <1>1, <1>2
  <2>3. seqOf'[j] \in cursor + 1 .. readTo /\ Sight(j, seqOf'[j])
    BY <2>1, <2>2, Zenon
  <2> QED
    BY <1>0, <2>3, SightFacts
<1>3. \A j \in Job : j \notin Seen => seqOf'[j] = seqOf[j] /\ audit'[j] = audit[j]
  BY <1>1
<1>4. seqOf' \in [Job -> Nat]
  <2>1. \A j \in Job : seqOf'[j] \in Nat
    BY <1>0, <1>2, <1>3 DEF TypeOK
  <2>2. seqOf' = [j \in Job |-> seqOf'[j]]
    BY <1>1
  <2> QED
    BY <2>1, <2>2
<1>5. TypeOK'
  BY <1>0, <1>1, <1>4 DEF TypeOK, upstream, publish
<1>6. PublishedIsInRoom'
  BY <1>0, <1>1, <1>2, <1>3 DEF PublishedIsInRoom, upstream
<1>7. LandedIsCopy'
  BY <1>0, <1>1 DEF LandedIsCopy, upstream, publish
<1>8. NoneBeforeReceipt'
  BY <1>0, <1>1, AuditAssumption DEF NoneBeforeReceipt, publish
<1> QED
  BY <1>5, <1>6, <1>7, <1>8 DEF PublicInv

LEMMA NextRowStep ==
  ASSUME PublicInv, NextRow
  PROVE  PublicInv'
<1>0. TypeOK /\ PublishedIsInRoom /\ LandedIsCopy /\ NoneBeforeReceipt
  BY DEF PublicInv
<1>1. /\ step[Loop] = "idle"
      /\ UNCHANGED <<seqOf, attempts, born, cursor, upstream, owns, landed, readTo,
                     crashes>>
      /\ \/ at' = "poll" /\ UNCHANGED <<queue, audit, step, target>>
         \/ /\ queue # <<>>
            /\ audit' = [audit EXCEPT ![Head(queue)] = "quarantined"]
            /\ queue' = Tail(queue)
            /\ UNCHANGED <<at, step, target>>
         \/ /\ queue # <<>>
            /\ Announce({Loop}, Head(queue))
            /\ queue' = Tail(queue)
            /\ UNCHANGED <<at, audit>>
  BY Zenon DEF NextRow
<1>2. CASE at' = "poll" /\ UNCHANGED <<queue, audit, step, target>>
  BY <1>0, <1>1, <1>2, QuietStep DEF TypeOK, upstream, publish
<1>3. ASSUME queue # <<>> PROVE Head(queue) \in Job /\ Tail(queue) \in Seq(Job)
  BY <1>0, <1>3 DEF TypeOK
<1>4. CASE /\ queue # <<>>
           /\ audit' = [audit EXCEPT ![Head(queue)] = "quarantined"]
           /\ queue' = Tail(queue)
           /\ UNCHANGED <<at, step, target>>
  <2>1. Head(queue) \in Job /\ Tail(queue) \in Seq(Job)
    BY <1>3, <1>4
  <2>2. TypeOK'
    BY <1>0, <1>1, <1>4, <2>1 DEF TypeOK, upstream
  <2>3. PublishedIsInRoom'
    BY <1>0, <1>1, <1>4 DEF PublishedIsInRoom, TypeOK, upstream
  <2>4. LandedIsCopy'
    BY <1>0, <1>1, <1>4 DEF LandedIsCopy, upstream
  <2>5. NoneBeforeReceipt'
    BY <1>0, <1>1, <1>4, AuditAssumption DEF NoneBeforeReceipt, TypeOK
  <2> QED
    BY <2>2, <2>3, <2>4, <2>5 DEF PublicInv
<1>5. CASE /\ queue # <<>>
           /\ Announce({Loop}, Head(queue))
           /\ queue' = Tail(queue)
           /\ UNCHANGED <<at, audit>>
  <2>1. Head(queue) \in Job /\ Tail(queue) \in Seq(Job)
    BY <1>3, <1>5
  <2>2. {Loop} \in SUBSET Task /\ \A c \in Caller \cap {Loop} : FALSE
    BY AuditAssumption DEF Task
  <2>3. UNCHANGED <<room, landed, late>>
    BY <1>1 DEF upstream
  <2>4. /\ step' \in [Task -> {"idle", "announce", "wire"}]
        /\ target' \in [Task -> Job]
        /\ LandedIsCopy'
        /\ \A c \in Caller : audit'[jobOf[c]] = "none" => step'[c] = step[c]
    BY <1>1, <1>5, <2>1, <2>2, <2>3, AnnounceStep
  <2>5. TypeOK'
    BY <1>0, <1>1, <1>5, <2>1, <2>3, <2>4 DEF TypeOK
  <2>6. PublishedIsInRoom'
    BY <1>0, <1>1, <1>5, <2>3 DEF PublishedIsInRoom
  <2>7. NoneBeforeReceipt'
    BY <1>0, <1>5, <2>4 DEF NoneBeforeReceipt
  <2> QED
    BY <2>4, <2>5, <2>6, <2>7 DEF PublicInv
<1> QED
  BY <1>1, <1>2, <1>4, <1>5
----------------------------------------------------------------------------
LEMMA PublicNext ==
  ASSUME PublicInv, [Next]_vars
  PROVE  PublicInv'
<1>1. CASE \E j \in Job : Finish(j) \/ LandLate(j)
  BY <1>1, FinishStep, LandLateStep
<1>2. CASE \E t \in Task : Send(t) \/ Land(t) \/ Confirm(t)
  BY <1>2, SendStep, LandStep, ConfirmStep
<1>3. CASE \E c \in Caller : Hangup(c)
  BY <1>3, HangupStep
<1>4. CASE LoopStep
  BY <1>4, LoopQuiet, MarkStep, FetchStep, NextRowStep DEF LoopStep
<1>5. CASE Observe
  BY <1>5, LoopQuiet
<1>6. CASE Crash
  BY <1>6, CrashStep
<1>7. CASE UNCHANGED vars
  BY <1>7, QuietStep DEF PublicInv, TypeOK, vars, ledger, upstream, publish, loop
<1> QED
  BY <1>1, <1>2, <1>3, <1>4, <1>5, <1>6, <1>7 DEF Next

\* Every variable keeps its type: the ledger's columns, the room, the loop's
\* place and what each task waits for (the rows and tasks of service/node.py).
THEOREM AuditTypes == Spec => []TypeOK
<1>1. PublicInv => TypeOK
  BY DEF PublicInv
<1> QED
  BY PublicInit, PublicNext, <1>1, PTL DEF Spec

\* "Publicly auditable" is true: the receipt of a row marked published is in the
\* room at the row's audit_seq, whether the node saw its own POST or found it in
\* the room (publish_reporting, sync_owned_room, mark_published).
THEOREM PublicClaimIsTrue == Spec => []PublishedIsInRoom
<1>1. PublicInv => PublishedIsInRoom
  BY DEF PublicInv
<1> QED
  BY PublicInit, PublicNext, <1>1, PTL DEF Spec
\* The statements that touch audit_seq and audit_state, two publishers beside each other.
LEMMA EvidenceStep ==
  ASSUME PublicInv, SeqIsEvidence, [Next]_vars
  PROVE  SeqIsEvidence'
<1>0. TypeOK /\ LandedIsCopy
  BY DEF PublicInv
<1>1. ASSUME UNCHANGED <<audit, seqOf, room>> PROVE SeqIsEvidence'
  BY <1>1 DEF SeqIsEvidence
<1>2. ASSUME NEW j \in Job, UNCHANGED <<audit, seqOf>>, room' = Append(room, CopyOf(j))
      PROVE  SeqIsEvidence'
  <2>1. /\ Len(room) \in Nat /\ Len(room') = Len(room) + 1
        /\ \A i \in 1 .. Len(room) : room'[i] = room[i]
    BY <1>0, <1>2, CopyType, AppendFacts DEF TypeOK
  <2> QED
    BY <1>2, <2>1 DEF SeqIsEvidence
<1>3. ASSUME NEW j \in Job, NoteAttempt(j), UNCHANGED room PROVE SeqIsEvidence'
  BY <1>0, <1>3 DEF NoteAttempt, SeqIsEvidence, TypeOK
<1>4. ASSUME NEW j \in Job, Finish(j) PROVE SeqIsEvidence'
  BY <1>0, <1>4 DEF Finish, SeqIsEvidence, TypeOK, upstream
<1>5. ASSUME NEW t \in Task, Confirm(t) PROVE SeqIsEvidence'
  <2>1. target[t] \in Job /\ UNCHANGED room
    BY <1>0, <1>5 DEF TypeOK, Confirm
  <2>2. CASE NoteAttempt(target[t])
    BY <1>3, <2>1, <2>2
  <2>3. CASE /\ landed[t] # 0
             /\ audit' = [audit EXCEPT ![target[t]] = "published"]
             /\ seqOf' = [seqOf EXCEPT ![target[t]] = landed[t]]
    <3>1. landed[t] \in 1 .. Len(room) /\ room[landed[t]] = CopyOf(target[t])
      BY <1>0, <2>3 DEF LandedIsCopy
    <3> QED
      BY <1>0, <2>1, <2>3, <3>1 DEF SeqIsEvidence, TypeOK
  <2> QED
    BY <1>5, <2>2, <2>3 DEF Confirm
<1>6. ASSUME NEW t \in Task, Send(t) PROVE SeqIsEvidence'
  <2>1. target[t] \in Job /\ UNCHANGED room
    BY <1>0, <1>6 DEF TypeOK, Send, upstream
  <2>2. NoteAttempt(target[t]) \/ UNCHANGED <<audit, seqOf>>
    BY <1>6 DEF Send, Unsendable
  <2> QED
    BY <1>1, <1>3, <2>1, <2>2
<1>7. CASE MarkPublished
  <2>1. ASSUME NEW j \in Job, j \in Seen
        PROVE  /\ audit'[j] = "published"
               /\ seqOf'[j] \in 1 .. Len(room) /\ room[seqOf'[j]] = CopyOf(j)
    <3>1. \E i \in cursor + 1 .. readTo : Sight(j, i)
      BY <2>1 DEF Seen
    <3>2. /\ seqOf'[j] = CHOOSE i \in cursor + 1 .. readTo : Sight(j, i)
          /\ audit'[j] = "published"
      BY <1>7, <2>1 DEF MarkPublished
    <3>3. seqOf'[j] \in cursor + 1 .. readTo /\ Sight(j, seqOf'[j])
      BY <3>1, <3>2, Zenon
    <3> QED
      BY <1>0, <3>2, <3>3, SightFacts
  <2>2. ASSUME NEW j \in Job, j \notin Seen
        PROVE  audit'[j] = audit[j] /\ seqOf'[j] = seqOf[j]
    BY <1>7, <2>2 DEF MarkPublished
  <2>3. UNCHANGED room
    BY <1>7 DEF MarkPublished, upstream
  <2> QED
    BY <2>1, <2>2, <2>3 DEF SeqIsEvidence
<1>8. CASE NextRow
  <2>1. /\ UNCHANGED <<seqOf, room>>
        /\ \/ UNCHANGED audit
           \/ queue # <<>> /\ audit' = [audit EXCEPT ![Head(queue)] = "quarantined"]
    BY <1>8 DEF NextRow, upstream
  <2>2. queue # <<>> => Head(queue) \in Job
    BY <1>0 DEF TypeOK
  <2> QED
    BY <1>0, <2>1, <2>2 DEF SeqIsEvidence, TypeOK
<1>9. ASSUME NEW j \in Job, LandLate(j) PROVE SeqIsEvidence'
  BY <1>2, <1>9 DEF LandLate, ledger
<1>10. ASSUME NEW t \in Task, Land(t) PROVE SeqIsEvidence'
  <2>1. target[t] \in Job
    BY <1>0 DEF TypeOK
  <2> QED
    BY <1>2, <1>10, <2>1 DEF Land, ledger
<1>11. ASSUME NEW c \in Caller, Hangup(c) PROVE SeqIsEvidence'
  BY <1>1, <1>11 DEF Hangup, ledger
<1>12. CASE Reconcile \/ ReadRoom \/ SetCursor \/ FetchRows \/ Observe
  BY <1>1, <1>12 DEF Reconcile, ReadRoom, SetCursor, FetchRows, Observe, ledger, upstream
<1>13. CASE Crash \/ UNCHANGED vars
  BY <1>1, <1>13 DEF Crash, vars, ledger, upstream
<1> QED
  BY <1>4, <1>5, <1>6, <1>7, <1>8, <1>9, <1>10, <1>11, <1>12, <1>13 DEF Next, LoopStep

\* A late failure of one publisher never unmakes what another has made public: an
\* audit_seq, once stored, is of a copy in the room, and its row is not queued again.
THEOREM EvidenceStays == Spec => []SeqIsEvidence
<1>1. Init => SeqIsEvidence
  BY DEF Init, SeqIsEvidence
<1>2. PublicInv /\ SeqIsEvidence /\ [Next]_vars => (PublicInv /\ SeqIsEvidence)'
  BY PublicNext, EvidenceStep
<1> QED
  BY PublicInit, <1>1, <1>2, PTL DEF Spec
----------------------------------------------------------------------------
(***************************************************************************)
(* A copy that landed is recognised.  Nothing behind the cursor is owed,   *)
(* because a cycle marks what it read before it moves the cursor there,    *)
(* and a row that is not owed never is again.                              *)
(***************************************************************************)

\* A copy is posted of a receipt that exists.
RowBeforeCopy ==
  /\ \A i \in 1 .. Len(room) : room[i].genuine => audit[room[i].job] # "none"
  /\ \A t \in Task : step[t] # "idle" => audit[target[t]] # "none"
  /\ \A j \in late : audit[j] # "none"
  /\ \A k \in 1 .. Len(queue) : audit[queue[k]] # "none"

\* What this key posted in another life comes before everything it posts now.
ForeignFirst ==
  \A i, k \in 1 .. Len(room) : i < k /\ room[i].genuine => room[k].genuine

\* Between the mark and the cursor the whole batch is settled.
BatchMarked ==
  at = "cursor" =>
    \A i \in cursor + 1 .. readTo : room[i].genuine => audit[room[i].job] # "owed"

Recognised == RowBeforeCopy /\ ForeignFirst /\ BatchMarked /\ OwedCopyIsAhead

LEMMA HasLargest ==
  ASSUME NEW n \in Nat, NEW T, T \subseteq 0 .. n, T # {}
  PROVE  \E x \in T : \A y \in T : y <= x
<1> DEFINE U == {k \in Nat : k <= n /\ n - k \in T}
           R == OpToRel(<, Nat)
<1>1. U # {} /\ U \subseteq Nat
  <2>1. PICK x \in T : x \in 0 .. n
    OBVIOUS
  <2>2. n - x \in Nat /\ n - x <= n /\ n - (n - x) = x
    BY <2>1
  <2> QED
    BY <2>1, <2>2
<1>2. PICK k \in U : \A l \in U : ~(<<l, k>> \in R)
  <2>1. IsWellFoundedOn(R, Nat)
    BY NatLessThanWellFounded
  <2> HIDE DEF U, R
  <2> QED
    BY <1>1, <2>1, WFMin
<1>3. \A l \in U : ~(l < k)
  BY <1>1, <1>2 DEF OpToRel
<1>4. ASSUME NEW y \in T PROVE y <= n - k
  <2>1. y \in 0 .. n /\ n - y \in U
    <3>1. y \in 0 .. n
      OBVIOUS
    <3>2. n - y \in Nat /\ n - y <= n /\ n - (n - y) = y
      BY <3>1
    <3> QED
      BY <3>1, <3>2
  <2>2. ~(n - y < k) /\ k \in Nat
    BY <1>1, <1>3, <2>1
  <2> QED
    BY <2>1, <2>2
<1> QED
  BY <1>4

LEMMA RecognisedInit == Init => Recognised
<1> SUFFICES ASSUME Init PROVE Recognised
  OBVIOUS
<1>1. PublicInv
  BY PublicInit
<1>2. PICK old \in [1 .. Cardinality(Foreign) -> Foreign] :
        room = [i \in DOMAIN old |-> [job |-> old[i], genuine |-> FALSE]]
  BY DEF Init
<1>3. Cardinality(Foreign) \in Nat
  BY AuditAssumption, FS_Subset, FS_CardinalityType
<1>4. room \in [1 .. Cardinality(Foreign) -> Copy]
  BY <1>2, AuditAssumption DEF Copy
<1>5. DOMAIN room = 1 .. Len(room)
  BY <1>1 DEF PublicInv, TypeOK
<1>6. \A i \in 1 .. Len(room) : ~room[i].genuine
  BY <1>2, <1>5
<1>7. RowBeforeCopy
  <2>1. late = {} /\ queue = <<>> /\ \A t \in Task : step[t] = "idle"
    BY DEF Init
  <2>2. \A k \in 1 .. Len(queue) : FALSE
    BY <2>1
  <2> QED
    BY <1>6, <2>1, <2>2 DEF RowBeforeCopy
<1>8. ForeignFirst
  BY <1>6 DEF ForeignFirst
<1>9. BatchMarked /\ OwedCopyIsAhead
  BY DEF Init, BatchMarked, OwedCopyIsAhead
<1> QED
  BY <1>7, <1>8, <1>9 DEF Recognised

\* The states of a row: a receipt does not vanish, and is owed at first only.
LEMMA AuditMoves ==
  ASSUME PublicInv, [Next]_vars, NEW j \in Job
  PROVE  /\ audit[j] # "none" => audit'[j] # "none"
         /\ audit'[j] = "owed" => audit[j] \in {"none", "owed"}
<1> DEFINE Goal == /\ audit[j] # "none" => audit'[j] # "none"
                   /\ audit'[j] = "owed" => audit[j] \in {"none", "owed"}
<1>1. TypeOK
  BY DEF PublicInv
<1>2. ASSUME NEW i \in Job, audit' = [audit EXCEPT ![i] = "published"]
                         \/ audit' = [audit EXCEPT ![i] = "quarantined"]
      PROVE  Goal
  BY <1>1, <1>2 DEF TypeOK
<1>3. ASSUME NEW i \in Job, NoteAttempt(i) PROVE Goal
  BY <1>2, <1>3 DEF NoteAttempt
<1>4. ASSUME NEW i \in Job, Finish(i) PROVE Goal
  BY <1>1, <1>4 DEF Finish, TypeOK
<1>5. ASSUME NEW t \in Task, Send(t) \/ Confirm(t) PROVE Goal
  <2>1. target[t] \in Job
    BY <1>1 DEF TypeOK
  <2>2. \/ UNCHANGED audit
        \/ NoteAttempt(target[t])
        \/ audit' = [audit EXCEPT ![target[t]] = "published"]
    BY <1>5 DEF Send, Confirm, Unsendable
  <2> QED
    BY <1>2, <1>3, <2>1, <2>2
<1>6. CASE MarkPublished
  BY <1>6 DEF MarkPublished
<1>7. CASE NextRow
  <2>1. \/ UNCHANGED audit
        \/ queue # <<>> /\ audit' = [audit EXCEPT ![Head(queue)] = "quarantined"]
    BY <1>7, Zenon DEF NextRow
  <2>2. queue # <<>> => Head(queue) \in Job
    BY <1>1 DEF TypeOK
  <2> QED
    BY <1>2, <2>1, <2>2
<1> QED
  BY <1>4, <1>5, <1>6, <1>7 DEF Next, LoopStep, LandLate, Land, Hangup, Reconcile,
     ReadRoom, SetCursor, FetchRows, Observe, Crash, vars, ledger

\* What the room gains is a copy of a receipt that exists.
LEMMA RoomGrows ==
  ASSUME PublicInv, RowBeforeCopy, [Next]_vars
  PROVE  \/ UNCHANGED room
         \/ \E j \in Job : audit[j] # "none" /\ room' = Append(room, CopyOf(j))
<1>1. TypeOK
  BY DEF PublicInv
<1>2. ASSUME NEW t \in Task, Land(t)
      PROVE  \E j \in Job : audit[j] # "none" /\ room' = Append(room, CopyOf(j))
  BY <1>1, <1>2 DEF Land, RowBeforeCopy, TypeOK
<1>3. ASSUME NEW j \in Job, LandLate(j)
      PROVE  audit[j] # "none" /\ room' = Append(room, CopyOf(j))
  BY <1>3 DEF LandLate, RowBeforeCopy
<1> QED
  BY <1>2, <1>3 DEF Next, LoopStep, Finish, Send, Confirm, Hangup, Reconcile, ReadRoom,
     MarkPublished, SetCursor, FetchRows, NextRow, Observe, Crash, vars, upstream

LEMMA RoomExtends ==
  ASSUME PublicInv, RowBeforeCopy, [Next]_vars
  PROVE  /\ Len(room) \in Nat /\ Len(room') \in {Len(room), Len(room) + 1}
         /\ \A i \in 1 .. Len(room) : room'[i] = room[i] /\ room[i] \in Copy
         /\ \A i \in 1 .. Len(room') : i \notin 1 .. Len(room) =>
              /\ i = Len(room) + 1
              /\ room'[i].genuine
              /\ room'[i].job \in Job
              /\ audit[room'[i].job] # "none"
<1>1. room \in Seq(Copy) /\ Len(room) \in Nat
  BY DEF PublicInv, TypeOK
<1>2. CASE UNCHANGED room
  BY <1>1, <1>2
<1>3. ASSUME NEW j \in Job, audit[j] # "none", room' = Append(room, CopyOf(j))
      PROVE  /\ Len(room') = Len(room) + 1
             /\ \A i \in 1 .. Len(room) : room'[i] = room[i]
             /\ room'[Len(room) + 1] = [job |-> j, genuine |-> TRUE]
  BY <1>1, <1>3, CopyType, AppendFacts DEF CopyOf
<1>4. CASE \E j \in Job : audit[j] # "none" /\ room' = Append(room, CopyOf(j))
  <2>1. PICK j \in Job : audit[j] # "none" /\ room' = Append(room, CopyOf(j))
    BY <1>4
  <2>2. /\ Len(room') = Len(room) + 1
        /\ \A i \in 1 .. Len(room) : room'[i] = room[i]
        /\ room'[Len(room) + 1] = [job |-> j, genuine |-> TRUE]
    BY <1>3, <2>1
  <2>3. \A i \in 1 .. Len(room') : i \notin 1 .. Len(room) => i = Len(room) + 1
    BY <1>1, <2>2
  <2>4. \A i \in 1 .. Len(room) : room[i] \in Copy
    BY <1>1
  <2> QED
    BY <1>1, <2>1, <2>2, <2>3, <2>4
<1> QED
  BY <1>2, <1>4, RoomGrows

\* A task begins to publish what is recorded, or keeps its target.
LEMMA TargetsRecorded ==
  ASSUME PublicInv, RowBeforeCopy, [Next]_vars, NEW t \in Task, step'[t] # "idle"
  PROVE  audit'[target'[t]] # "none"
<1>1. TypeOK
  BY DEF PublicInv
<1>2. CASE step[t] # "idle" /\ target'[t] = target[t]
  <2>1. target[t] \in Job /\ audit[target[t]] # "none"
    BY <1>1, <1>2 DEF TypeOK, RowBeforeCopy
  <2> QED
    BY <1>2, <2>1, AuditMoves
<1>3. ASSUME NEW j \in Job, Finish(j), ~(step[t] # "idle" /\ target'[t] = target[t])
      PROVE  audit'[target'[t]] # "none"
  <2>1. target'[t] = j /\ audit'[j] = "owed"
    BY <1>1, <1>3 DEF Finish, Announce, TypeOK
  <2> QED
    BY <2>1
<1>4. ASSUME NextRow, ~(step[t] # "idle" /\ target'[t] = target[t])
      PROVE  audit'[target'[t]] # "none"
  <2>1. \/ UNCHANGED <<step, target>>
        \/ queue # <<>> /\ Announce({Loop}, Head(queue)) /\ UNCHANGED audit
    BY <1>4, Zenon DEF NextRow
  <2>2. queue # <<>> /\ target'[t] = Head(queue) /\ UNCHANGED audit
    BY <1>1, <1>4, <2>1 DEF Announce, TypeOK
  <2>3. 1 \in 1 .. Len(queue) /\ Head(queue) = queue[1]
    BY <1>1, <2>2 DEF TypeOK
  <2> QED
    BY <2>2, <2>3 DEF RowBeforeCopy
<1>5. ASSUME NEW u \in Task, Send(u) \/ Confirm(u) \/ Hangup(u)
      PROVE  step[t] # "idle" /\ target'[t] = target[t]
  <2>1. target' = target
    BY <1>5 DEF Send, Confirm, Hangup
  <2>2. \/ step' = [step EXCEPT ![u] = "idle"]
        \/ step[u] = "announce" /\ step' = [step EXCEPT ![u] = "wire"]
    <3>1. CASE Send(u)
      BY <3>1, Zenon DEF Send
    <3>2. CASE Confirm(u) \/ Hangup(u)
      BY <3>2, Zenon DEF Confirm, Hangup
    <3> QED
      BY <1>5, <3>1, <3>2
  <2> QED
    BY <1>1, <2>1, <2>2 DEF TypeOK
<1>6. CASE Crash
  BY <1>6 DEF Crash
<1>7. ASSUME UNCHANGED <<step, target>> PROVE step[t] # "idle" /\ target'[t] = target[t]
  BY <1>7
<1>8. ASSUME NEW c \in Caller PROVE c \in Task
  BY DEF Task
<1> QED
  BY <1>2, <1>3, <1>4, <1>5, <1>6, <1>7, <1>8 DEF Next, LoopStep, LandLate, Land,
     Reconcile, ReadRoom, MarkPublished, SetCursor, FetchRows, Observe, vars, publish

LEMMA LateRecorded ==
  ASSUME PublicInv, RowBeforeCopy, [Next]_vars, NEW j \in late'
  PROVE  j \in Job /\ audit'[j] # "none"
<1>1. TypeOK
  BY DEF PublicInv
<1>2. CASE j \in late
  BY <1>1, <1>2, AuditMoves DEF RowBeforeCopy, TypeOK
<1>3. ASSUME NEW T \in SUBSET Task, late' = Abandoned(T), j \notin late
      PROVE  j \in Job /\ audit'[j] # "none"
  <2>1. PICK t \in T : step[t] = "wire" /\ j = target[t]
    BY <1>3 DEF Abandoned
  <2>2. j \in Job /\ audit[j] # "none"
    BY <1>1, <2>1 DEF TypeOK, RowBeforeCopy
  <2> QED
    BY <2>2, AuditMoves
<1>4. ASSUME NEW t \in Task, Confirm(t) \/ Hangup(t) PROVE late' = late \/ late' = Abandoned({t})
  BY <1>4 DEF Confirm, Hangup
<1>5. ASSUME NEW i \in Job, LandLate(i) PROVE j \in late
  BY <1>5 DEF LandLate
<1>6. CASE Crash
  BY <1>2, <1>3, <1>6 DEF Crash
<1>7. CASE \E t \in Task : Confirm(t) \/ Hangup(t)
  BY <1>2, <1>3, <1>4, <1>7
<1>8. \A c \in Caller : c \in Task
  BY DEF Task
<1> QED
  BY <1>2, <1>5, <1>6, <1>7, <1>8 DEF Next, LoopStep, Finish, Send, Land, Reconcile,
     ReadRoom, MarkPublished, SetCursor, FetchRows, NextRow, Observe, vars, upstream

LEMMA QueueRecorded ==
  ASSUME PublicInv, RowBeforeCopy, [Next]_vars, NEW k \in 1 .. Len(queue')
  PROVE  audit'[queue'[k]] # "none"
<1>1. TypeOK /\ queue \in Seq(Job)
  BY DEF PublicInv, TypeOK
<1>2. ASSUME NEW i \in 1 .. Len(queue) PROVE audit'[queue[i]] # "none"
  BY <1>1, AuditMoves DEF RowBeforeCopy
<1>3. CASE queue' = queue
  BY <1>2, <1>3
<1>4. CASE FetchRows
  <2>1. PICK n \in 0 .. Limit : \E q \in [1 .. n -> Awaiting] : queue' = q
    BY <1>4 DEF FetchRows
  <2>2. queue' \in [1 .. n -> Awaiting] /\ n \in Nat
    BY <2>1, AuditAssumption
  <2>3. Len(queue') = n
    BY <2>2, FunctionIsSeq
  <2>4. queue'[k] \in Awaiting /\ audit' = audit
    BY <1>4, <2>2, <2>3 DEF FetchRows, ledger
  <2> QED
    BY <2>4 DEF Awaiting
<1>5. CASE queue # <<>> /\ queue' = Tail(queue)
  <2>1. k + 1 \in 1 .. Len(queue) /\ queue'[k] = queue[k + 1]
    BY <1>1, <1>5
  <2> QED
    BY <1>2, <2>1
<1>6. NextRow => queue' = queue \/ (queue # <<>> /\ queue' = Tail(queue))
  BY Zenon DEF NextRow
<1>7. CASE Crash
  BY <1>7 DEF Crash
<1> QED
  BY <1>3, <1>4, <1>5, <1>6, <1>7 DEF Next, LoopStep, Finish, LandLate, Send, Land,
     Confirm, Hangup, Reconcile, ReadRoom, MarkPublished, SetCursor, Observe, vars, loop

LEMMA RowBeforeCopyStep ==
  ASSUME PublicInv, RowBeforeCopy, [Next]_vars
  PROVE  RowBeforeCopy'
<1>1. ASSUME NEW i \in 1 .. Len(room'), room'[i].genuine
      PROVE  audit'[room'[i].job] # "none"
  <2>1. CASE i \in 1 .. Len(room)
    <3>1. room'[i] = room[i] /\ room[i].job \in Job
      BY <2>1, RoomExtends DEF Copy
    <3> QED
      BY <1>1, <2>1, <3>1, AuditMoves DEF RowBeforeCopy
  <2>2. CASE i \notin 1 .. Len(room)
    BY <2>2, RoomExtends, AuditMoves
  <2> QED
    BY <2>1, <2>2
<1> QED
  BY <1>1, TargetsRecorded, LateRecorded, QueueRecorded DEF RowBeforeCopy

LEMMA ForeignFirstStep ==
  ASSUME PublicInv, RowBeforeCopy, ForeignFirst, [Next]_vars
  PROVE  ForeignFirst'
<1> SUFFICES ASSUME NEW i \in 1 .. Len(room'), NEW k \in 1 .. Len(room'),
                    i < k, room'[i].genuine
             PROVE  room'[k].genuine
  BY DEF ForeignFirst
<1>1. CASE k \in 1 .. Len(room)
  <2>1. i \in 1 .. Len(room)
    BY <1>1, RoomExtends
  <2> QED
    BY <1>1, <2>1, RoomExtends DEF ForeignFirst
<1>2. CASE k \notin 1 .. Len(room)
  BY <1>2, RoomExtends
<1> QED
  BY <1>1, <1>2

\* Where the loop goes: the cursor and the end of the batch move in their own steps.
LEMMA LoopMoves ==
  ASSUME [Next]_vars
  PROVE  /\ UNCHANGED cursor \/ SetCursor
         /\ at' = "cursor" => MarkPublished \/ UNCHANGED <<at, readTo, cursor>>
<1>1. CASE \E t \in Task : Send(t) \/ Land(t) \/ Confirm(t) \/ Hangup(t)
  BY <1>1 DEF Send, Land, Confirm, Hangup, ledger, loop
<1>2. CASE \E j \in Job : Finish(j) \/ LandLate(j)
  BY <1>2 DEF Finish, LandLate, ledger, loop
<1>3. CASE Reconcile \/ ReadRoom \/ FetchRows \/ Observe \/ Crash
  BY <1>3 DEF Reconcile, ReadRoom, FetchRows, Observe, Crash, ledger, loop
<1>4. CASE SetCursor
  BY <1>4 DEF SetCursor
<1>5. CASE MarkPublished
  BY <1>5 DEF MarkPublished
<1>6. CASE NextRow
  <2>1. UNCHANGED cursor /\ (at' = "poll" \/ UNCHANGED at) /\ UNCHANGED readTo
    BY <1>6, Zenon DEF NextRow
  <2> QED
    BY <2>1
<1>7. CASE UNCHANGED vars
  BY <1>7 DEF vars, ledger, loop
<1>8. \A c \in Caller : c \in Task
  BY DEF Task
<1> QED
  BY <1>1, <1>2, <1>3, <1>4, <1>5, <1>6, <1>7, <1>8 DEF Next, LoopStep

\* A copy in the batch is recognised by the mark: it, or a later one of the same row.
LEMMA BatchIsMarked ==
  ASSUME PublicInv, RowBeforeCopy, ForeignFirst, MarkPublished,
         NEW i \in cursor + 1 .. readTo, room[i].genuine
  PROVE  audit'[room[i].job] = "published"
<1> DEFINE j == room[i].job
           T == {k \in cursor + 1 .. readTo : room[k].job = j}
<1>1. /\ cursor \in Nat /\ readTo \in Nat /\ Len(room) \in Nat
      /\ readTo <= Len(room) /\ room \in Seq(Copy)
  BY DEF PublicInv, TypeOK
<1>2. i \in 1 .. Len(room) /\ j \in Job
  <2>1. i \in 1 .. Len(room)
    BY <1>1
  <2>2. room[i] \in Copy
    BY <1>1, <2>1
  <2> QED
    BY <2>1, <2>2 DEF Copy
<1>3. PICK k \in T : \A l \in T : l <= k
  <2>1. T \subseteq 0 .. readTo /\ i \in T
    BY <1>1
  <2> HIDE DEF T
  <2> QED
    BY <1>1, <2>1, HasLargest
<1>4. k \in cursor + 1 .. readTo /\ room[k].job = j /\ i <= k
  BY <1>3
<1>5. room[k].genuine
  <2>1. k \in 1 .. Len(room)
    BY <1>1, <1>4
  <2> QED
    BY <1>2, <1>4, <2>1 DEF ForeignFirst
<1>6. Sight(j, k)
  <2>1. ASSUME NEW l \in k + 1 .. readTo PROVE room[l].job # j
    BY <1>1, <1>3, <1>4, <2>1
  <2> QED
    BY <1>4, <1>5, <2>1 DEF Sight, LastSight
<1>7. audit[j] # "none"
  BY <1>2 DEF RowBeforeCopy
<1>8. j \in Seen \/ audit[j] = "published"
  BY <1>2, <1>4, <1>6, <1>7 DEF Seen, Recorded
<1> QED
  BY <1>2, <1>8 DEF MarkPublished

LEMMA BatchMarkedStep ==
  ASSUME PublicInv, RowBeforeCopy, ForeignFirst, BatchMarked, [Next]_vars
  PROVE  BatchMarked'
<1> SUFFICES ASSUME at' = "cursor", NEW i \in cursor' + 1 .. readTo', room'[i].genuine
             PROVE  audit'[room'[i].job] # "owed"
  BY DEF BatchMarked
<1>1. /\ cursor \in Nat /\ readTo \in Nat /\ Len(room) \in Nat
      /\ readTo <= Len(room)
  BY DEF PublicInv, TypeOK
<1>2. CASE MarkPublished
  BY <1>2, BatchIsMarked DEF MarkPublished, upstream
<1>3. CASE UNCHANGED <<at, readTo, cursor>>
  <2>1. i \in cursor + 1 .. readTo /\ i \in 1 .. Len(room)
    BY <1>1, <1>3
  <2>2. room'[i] = room[i] /\ room[i].job \in Job
    BY <2>1, RoomExtends DEF Copy
  <2>3. audit[room[i].job] \notin {"none", "owed"}
    BY <1>3, <2>1, <2>2 DEF BatchMarked, RowBeforeCopy
  <2> QED
    BY <2>2, <2>3, AuditMoves
<1> QED
  BY <1>2, <1>3, LoopMoves

LEMMA AheadStep ==
  ASSUME PublicInv, RowBeforeCopy, BatchMarked, OwedCopyIsAhead, [Next]_vars
  PROVE  OwedCopyIsAhead'
<1> SUFFICES ASSUME NEW i \in 1 .. cursor', room'[i].genuine
             PROVE  audit'[room'[i].job] # "owed"
  BY DEF OwedCopyIsAhead
<1>1. /\ cursor \in Nat /\ readTo \in Nat /\ Len(room) \in Nat
      /\ readTo <= Len(room) /\ cursor <= Len(room)
  BY DEF PublicInv, TypeOK
<1>2. CASE UNCHANGED cursor
  <2>1. i \in 1 .. cursor /\ i \in 1 .. Len(room)
    BY <1>1, <1>2
  <2>2. room'[i] = room[i] /\ room[i].job \in Job
    BY <2>1, RoomExtends DEF Copy
  <2>3. audit[room[i].job] \notin {"none", "owed"}
    BY <2>1, <2>2 DEF OwedCopyIsAhead, RowBeforeCopy
  <2> QED
    BY <2>2, <2>3, AuditMoves
<1>3. CASE SetCursor
  <2>1. /\ at = "cursor"
        /\ cursor' = IF readTo > cursor THEN readTo ELSE cursor
        /\ UNCHANGED <<room, audit>>
    BY <1>3 DEF SetCursor, LastRead, upstream
  <2>2. i \in 1 .. cursor \/ i \in cursor + 1 .. readTo
    BY <1>1, <2>1
  <2> QED
    BY <2>1, <2>2 DEF OwedCopyIsAhead, BatchMarked
<1> QED
  BY <1>2, <1>3, LoopMoves

\* A copy that landed while its row still says owed is ahead of the cursor, whoever
\* posted it, whatever crashed and whichever read of the room failed: the next pass
\* recognises it (sync_owned_room before reconcile_audit_copies' posting).
THEOREM LandedIsRecognised == Spec => []OwedCopyIsAhead
<1>1. Init => PublicInv /\ Recognised
  BY PublicInit, RecognisedInit
<1>2. PublicInv /\ Recognised /\ [Next]_vars => (PublicInv /\ Recognised)'
  BY PublicNext, RowBeforeCopyStep, ForeignFirstStep, BatchMarkedStep, AheadStep
     DEF Recognised
<1>3. PublicInv /\ Recognised => OwedCopyIsAhead
  BY DEF Recognised
<1> QED
  BY <1>1, <1>2, <1>3, PTL DEF Spec
----------------------------------------------------------------------------
(***************************************************************************)
(* The loop by itself, a room that can be read, and no POST that lands     *)
(* after it was given up on: what is announced is not in the room.  A new  *)
(* receipt was never posted, and the rows of a batch were fetched when     *)
(* whatever the room holds was no longer owed.  A cycle that could not     *)
(* read the room could not write to it either, and owns_result_room does   *)
(* not change its answer while nothing is awaited.                         *)
(***************************************************************************)
LoopAlone == Caller = {} /\ Faults = {}

InRoom(j) == \E i \in 1 .. Len(room) : room[i] = CopyOf(j)

\* Whatever the loop has announced, or will of this batch, can be sent.
MaySend == at # "rows" \/ owns \/ step[Loop] = "wire"

LoopPlace ==
  /\ late = {}
  /\ step[Loop] # "wire" => landed[Loop] = 0
  /\ at \in {"sync", "mark", "cursor", "fetch"} => step[Loop] = "idle"
  /\ at \in {"mark", "cursor"} => readTo = Len(room)

\* When the batch is fetched under ownership, what is in the room is not owed.
RoomKnown ==
  at = "cursor" \/ (at = "fetch" /\ owns) =>
    \A i \in 1 .. Len(room) : room[i].genuine => audit[room[i].job] # "owed"

TargetNew ==
  step[Loop] # "idle" =>
    /\ audit[target[Loop]] # "published"
    /\ landed[Loop] = 0 /\ MaySend => ~InRoom(target[Loop])

QueueNew ==
  at = "rows" =>
    /\ \A k \in 1 .. Len(queue) : /\ audit[queue[k]] = "owed"
                                  /\ step[Loop] # "idle" => queue[k] # target[Loop]
                                  /\ MaySend => ~InRoom(queue[k])
    /\ \A k, l \in 1 .. Len(queue) : queue[k] = queue[l] => k = l

OneLoop == LoopPlace /\ RoomKnown /\ TargetNew /\ QueueNew

LEMMA OneLoopInit == Init => OneLoop
<1> SUFFICES ASSUME Init PROVE OneLoop
  OBVIOUS
<1>1. late = {} /\ step[Loop] = "idle" /\ landed[Loop] = 0 /\ at = "poll"
  BY DEF Init, Task
<1> QED
  BY <1>1 DEF OneLoop, LoopPlace, RoomKnown, TargetNew, QueueNew

LEMMA LoopTypes ==
  ASSUME LoopAlone, PublicInv, LoopPlace
  PROVE  /\ Task = {Loop} /\ late = {}
         /\ \A T : Abandoned(T) = late
         /\ target[Loop] \in Job
         /\ step[Loop] \in {"idle", "announce", "wire"}
         /\ queue \in Seq(Job) /\ Len(queue) \in Nat
         /\ room \in Seq(Copy) /\ Len(room) \in Nat
         /\ audit \in [Job -> {"none", "owed", "published", "quarantined"}]
         /\ step \in [Task -> {"idle", "announce", "wire"}]
         /\ target \in [Task -> Job]
         /\ landed \in [Task -> 0 .. Len(room)]
BY AuditAssumption DEF LoopAlone, PublicInv, TypeOK, LoopPlace, Abandoned, Task

\* A receipt that is new was never posted.
LEMMA FinishAlone ==
  ASSUME LoopAlone, PublicInv, RowBeforeCopy, OneLoop, NEW j \in Job, Finish(j)
  PROVE  OneLoop'
<1>1. /\ Task = {Loop} /\ audit \in [Job -> {"none", "owed", "published", "quarantined"}]
      /\ target[Loop] \in Job /\ queue \in Seq(Job)
  BY LoopTypes DEF OneLoop
<1>2. /\ audit[j] = "none" /\ audit' = [audit EXCEPT ![j] = "owed"]
      /\ UNCHANGED <<late, room, landed, at, readTo, queue, owns>>
      /\ at \notin {"mark", "cursor", "fetch"}
      /\ \/ /\ at = "poll"
            /\ step'[Loop] = "announce" /\ target'[Loop] = j
            /\ step[Loop] = "idle"
         \/ UNCHANGED <<step[Loop], target[Loop]>>
  <2>1. {c \in Caller : jobOf[c] = j} = {}
    BY DEF LoopAlone
  <2> QED
    BY <1>1, <2>1 DEF Finish, LoopFree, Announce, upstream, loop
<1>3. ~InRoom(j)
  BY <1>2 DEF InRoom, RowBeforeCopy, CopyOf
<1>4. \A i \in Job : InRoom(i)' <=> InRoom(i)
  BY <1>2 DEF InRoom
<1>5. LoopPlace'
  BY <1>2 DEF OneLoop, LoopPlace
<1>6. RoomKnown'
  BY <1>2 DEF RoomKnown
<1>7. TargetNew'
  <2>1. CASE at = "poll" /\ step'[Loop] = "announce" /\ target'[Loop] = j
    BY <1>1, <1>2, <1>3, <1>4, <2>1 DEF TargetNew
  <2>2. CASE UNCHANGED <<step[Loop], target[Loop]>>
    BY <1>1, <1>2, <1>4, <2>2 DEF OneLoop, TargetNew, MaySend
  <2> QED
    BY <1>2, <2>1, <2>2
<1>8. QueueNew'
  <2> SUFFICES ASSUME at = "rows" PROVE QueueNew'
    BY <1>2 DEF QueueNew
  <2>1. UNCHANGED <<step[Loop], target[Loop]>>
    BY <1>2
  <2>2. \A k \in 1 .. Len(queue) : queue[k] \in Job
    BY <1>1
  <2> QED
    BY <1>1, <1>2, <1>4, <2>1, <2>2 DEF OneLoop, QueueNew, MaySend
<1> QED
  BY <1>5, <1>6, <1>7, <1>8 DEF OneLoop

\* The row a task publishes is noted, sent or not.
LEMMA SendAlone ==
  ASSUME LoopAlone, PublicInv, OneLoop, Send(Loop)
  PROVE  OneLoop'
<1>1. /\ Task = {Loop} /\ audit \in [Job -> {"none", "owed", "published", "quarantined"}]
      /\ target[Loop] \in Job /\ queue \in Seq(Job)
      /\ step \in [Task -> {"idle", "announce", "wire"}]
  BY LoopTypes DEF OneLoop
<1>2. /\ step[Loop] = "announce"
      /\ UNCHANGED <<late, room, landed, at, readTo, queue, owns, target>>
      /\ \/ /\ step'[Loop] = "idle" /\ ~owns
            /\ UNCHANGED audit
         \/ /\ step'[Loop] = "idle" /\ owns
            /\ \A i \in Job : i # target[Loop] => audit'[i] = audit[i]
         \/ /\ step'[Loop] = "wire" /\ owns
            /\ UNCHANGED audit
  BY <1>1 DEF Send, Unsendable, NoteAttempt, upstream, loop
<1>3. at \in {"poll", "rows"}
  BY <1>2 DEF OneLoop, LoopPlace, PublicInv, TypeOK
<1>4. \A i \in Job : InRoom(i)' <=> InRoom(i)
  BY <1>2 DEF InRoom
<1>5. LoopPlace'
  BY <1>2, <1>3 DEF OneLoop, LoopPlace
<1>6. RoomKnown'
  BY <1>2, <1>3 DEF RoomKnown
<1>7. TargetNew'
  BY <1>1, <1>2, <1>4 DEF OneLoop, TargetNew, MaySend
<1>8. QueueNew'
  <2>1. \A k \in 1 .. Len(queue) : queue[k] \in Job
    BY <1>1
  <2> QED
    BY <1>1, <1>2, <1>4, <2>1 DEF OneLoop, QueueNew, MaySend
<1> QED
  BY <1>5, <1>6, <1>7, <1>8 DEF OneLoop

\* What lands was not there.
LEMMA LandAlone ==
  ASSUME LoopAlone, PublicInv, OneLoop, CopiedOnce, Land(Loop)
  PROVE  OneLoop' /\ CopiedOnce'
<1>1. /\ Task = {Loop} /\ target[Loop] \in Job /\ queue \in Seq(Job)
      /\ room \in Seq(Copy) /\ Len(room) \in Nat
      /\ landed \in [Task -> 0 .. Len(room)]
  BY LoopTypes DEF OneLoop
<1>2. /\ step[Loop] = "wire" /\ landed[Loop] = 0
      /\ room' = Append(room, CopyOf(target[Loop]))
      /\ landed'[Loop] = Len(room) + 1
      /\ UNCHANGED <<audit, late, owns, step, target, at, readTo, queue>>
  BY <1>1 DEF Land, ledger, loop
<1>3. at \in {"poll", "rows"}
  BY <1>2 DEF OneLoop, LoopPlace, PublicInv, TypeOK
<1>4. ~InRoom(target[Loop])
  BY <1>2 DEF OneLoop, TargetNew, MaySend
<1>5. /\ Len(room') = Len(room) + 1
      /\ room'[Len(room) + 1] = CopyOf(target[Loop])
      /\ \A i \in 1 .. Len(room) : room'[i] = room[i]
      /\ DOMAIN room' = 1 .. Len(room) + 1 /\ DOMAIN room = 1 .. Len(room)
  BY <1>1, <1>2, CopyType, AppendFacts
<1>6. \A i \in Job : i # target[Loop] => (InRoom(i)' <=> InRoom(i))
  <2> SUFFICES ASSUME NEW i \in Job, i # target[Loop] PROVE InRoom(i)' <=> InRoom(i)
    OBVIOUS
  <2>1. CopyOf(i) # CopyOf(target[Loop])
    BY DEF CopyOf
  <2>2. InRoom(i)' <=> \E k \in 1 .. Len(room) + 1 : room'[k] = CopyOf(i)
    BY <1>5 DEF InRoom, CopyOf
  <2>3. \A k \in 1 .. Len(room) + 1 : k = Len(room) + 1 \/ k \in 1 .. Len(room)
    BY <1>1
  <2>4. \A k \in 1 .. Len(room) : k \in 1 .. Len(room) + 1
    BY <1>1
  <2> QED
    BY <1>5, <2>1, <2>2, <2>3, <2>4 DEF InRoom
<1>7. LoopPlace' /\ RoomKnown'
  BY <1>1, <1>2, <1>3 DEF OneLoop, LoopPlace, RoomKnown
<1>8. TargetNew'
  BY <1>1, <1>2 DEF OneLoop, TargetNew
<1>9. QueueNew'
  <2>1. \A k \in 1 .. Len(queue) : queue[k] \in Job
    BY <1>1
  <2> QED
    BY <1>2, <1>6, <2>1 DEF OneLoop, QueueNew, MaySend
<1>10. CopiedOnce'
  <2> SUFFICES ASSUME NEW i \in 1 .. Len(room) + 1, NEW k \in 1 .. Len(room) + 1,
                      room'[i].genuine, room'[k] = room'[i]
               PROVE  i = k
    BY <1>5 DEF CopiedOnce
  <2>1. CASE i \in 1 .. Len(room) /\ k \in 1 .. Len(room)
    BY <1>5, <2>1 DEF CopiedOnce
  <2>2. CASE i = Len(room) + 1 /\ k \in 1 .. Len(room)
    BY <1>4, <1>5, <2>2 DEF InRoom
  <2>3. CASE k = Len(room) + 1 /\ i \in 1 .. Len(room)
    BY <1>4, <1>5, <2>3 DEF InRoom
  <2> QED
    BY <1>1, <2>1, <2>2, <2>3
<1> QED
  BY <1>7, <1>8, <1>9, <1>10 DEF OneLoop

LEMMA ConfirmAlone ==
  ASSUME LoopAlone, PublicInv, OneLoop, Confirm(Loop)
  PROVE  OneLoop'
<1>1. /\ Task = {Loop} /\ audit \in [Job -> {"none", "owed", "published", "quarantined"}]
      /\ target[Loop] \in Job /\ queue \in Seq(Job)
      /\ step \in [Task -> {"idle", "announce", "wire"}]
      /\ landed \in [Task -> 0 .. Len(room)]
      /\ Abandoned({Loop}) = late
  BY LoopTypes DEF OneLoop
<1>2. /\ step[Loop] = "wire" /\ step'[Loop] = "idle" /\ landed'[Loop] = 0
      /\ UNCHANGED <<late, room, at, readTo, queue, owns, target>>
      /\ \A i \in Job : i # target[Loop] => audit'[i] = audit[i]
  BY <1>1 DEF Confirm, NoteAttempt, loop
<1>3. at \in {"poll", "rows"}
  BY <1>2 DEF OneLoop, LoopPlace, PublicInv, TypeOK
<1>4. \A i \in Job : InRoom(i)' <=> InRoom(i)
  BY <1>2 DEF InRoom
<1>5. LoopPlace' /\ RoomKnown' /\ TargetNew'
  BY <1>2, <1>3 DEF OneLoop, LoopPlace, RoomKnown, TargetNew
<1>6. QueueNew'
  <2>1. \A k \in 1 .. Len(queue) : queue[k] \in Job
    BY <1>1
  <2> QED
    BY <1>2, <1>4, <2>1 DEF OneLoop, QueueNew, MaySend
<1> QED
  BY <1>5, <1>6 DEF OneLoop

\* A row of the batch is taken out of it, and tried.
LEMMA NextRowAlone ==
  ASSUME LoopAlone, PublicInv, OneLoop, NextRow
  PROVE  OneLoop'
<1>1. /\ Task = {Loop} /\ audit \in [Job -> {"none", "owed", "published", "quarantined"}]
      /\ queue \in Seq(Job) /\ Len(queue) \in Nat
      /\ step \in [Task -> {"idle", "announce", "wire"}]
  BY LoopTypes DEF OneLoop
<1>2. /\ at = "rows" /\ step[Loop] = "idle"
      /\ UNCHANGED <<late, room, landed, readTo, owns>>
  BY DEF NextRow, upstream
<1>3. \A i \in Job : InRoom(i)' <=> InRoom(i)
  BY <1>2 DEF InRoom
<1>4. CASE queue = <<>>
  <2>1. at' = "poll" /\ UNCHANGED <<audit, step, target>>
    BY <1>4 DEF NextRow
  <2> QED
    BY <1>2, <2>1 DEF OneLoop, LoopPlace, RoomKnown, TargetNew, QueueNew
<1>5. CASE queue # <<>>
  <2> DEFINE h == Head(queue)
  <2>1. /\ h \in Job /\ h = queue[1] /\ 1 \in 1 .. Len(queue)
        /\ Tail(queue) \in Seq(Job) /\ Len(Tail(queue)) = Len(queue) - 1
        /\ \A k \in 1 .. Len(queue) - 1 : /\ k + 1 \in 1 .. Len(queue)
                                          /\ Tail(queue)[k] = queue[k + 1]
                                          /\ queue[k + 1] \in Job
    BY <1>1, <1>5
  <2>2. /\ queue' = Tail(queue) /\ at' = "rows"
        /\ \A i \in Job : i # h => audit'[i] = audit[i]
        /\ \/ UNCHANGED <<step, target>>
           \/ /\ step'[Loop] = "announce" /\ target'[Loop] = h
              /\ UNCHANGED audit
    BY <1>1, <1>2, <1>5 DEF NextRow, Announce
  <2> HIDE DEF h
  <2>3. /\ audit[h] = "owed"
        /\ owns => ~InRoom(h)
        /\ \A k \in 1 .. Len(queue) - 1 : /\ queue[k + 1] # h
                                          /\ audit[queue[k + 1]] = "owed"
                                          /\ owns => ~InRoom(queue[k + 1])
        /\ \A k, l \in 1 .. Len(queue) - 1 : queue[k + 1] = queue[l + 1] => k = l
    <3>1. /\ \A k \in 1 .. Len(queue) : /\ audit[queue[k]] = "owed"
                                        /\ owns => ~InRoom(queue[k])
          /\ \A k, l \in 1 .. Len(queue) : queue[k] = queue[l] => k = l
      BY <1>2 DEF OneLoop, QueueNew, MaySend
    <3>2. \A k \in 1 .. Len(queue) - 1 : k \in Nat /\ k + 1 # 1
      BY <1>1
    <3>3. \A k, l \in 1 .. Len(queue) - 1 : k + 1 = l + 1 => k = l
      BY <1>1
    <3> QED
      BY <2>1, <3>1, <3>2, <3>3
  <2>4. LoopPlace' /\ RoomKnown'
    BY <1>2, <2>2 DEF OneLoop, LoopPlace, RoomKnown
  <2>5. TargetNew'
    BY <1>2, <1>3, <2>1, <2>2, <2>3 DEF TargetNew, MaySend
  <2>6. QueueNew'
    <3>1. \A k \in 1 .. Len(queue) - 1 :
            /\ audit'[queue[k + 1]] = "owed"
            /\ step'[Loop] # "idle" => queue[k + 1] # target'[Loop]
            /\ owns => ~InRoom(queue[k + 1])
      BY <1>2, <2>1, <2>2, <2>3
    <3>2. \A k \in 1 .. Len(queue) - 1 : InRoom(queue[k])' <=> InRoom(queue[k + 1])
      BY <1>2, <2>1, <2>2 DEF InRoom, CopyOf
    <3>3. MaySend' <=> owns
      BY <1>2, <2>2 DEF MaySend
    <3> QED
      BY <1>2, <2>1, <2>2, <2>3, <3>1, <3>2, <3>3 DEF QueueNew
  <2> QED
    BY <2>4, <2>5, <2>6 DEF OneLoop
<1> QED
  BY <1>4, <1>5

\* A batch holds each owed row once.
LEMMA FetchAlone ==
  ASSUME LoopAlone, PublicInv, OneLoop, FetchRows
  PROVE  OneLoop'
<1>1. /\ audit \in [Job -> {"none", "owed", "published", "quarantined"}]
      /\ attempts \in [Job -> Nat] /\ born \in [Job -> Nat]
  BY DEF PublicInv, TypeOK
<1>2. /\ at = "fetch" /\ at' = "rows" /\ step[Loop] = "idle"
      /\ UNCHANGED <<audit, late, room, landed, readTo, owns, step, target>>
  BY DEF FetchRows, ledger, upstream, publish, OneLoop, LoopPlace
<1>3. PICK n \in 0 .. Limit :
        \E q \in [1 .. n -> Awaiting] : IsBatch(q) /\ queue' = q
  BY DEF FetchRows
<1>4. PICK q \in [1 .. n -> Awaiting] : IsBatch(q) /\ queue' = q
  BY <1>3
<1>5. n \in Nat /\ Len(queue') = n /\ DOMAIN q = 1 .. n
  <2>1. n \in Nat
    BY AuditAssumption
  <2>2. q \in [1 .. n -> Job]
    BY DEF Awaiting
  <2>3. q \in Seq(Job) /\ Len(q) = n
    BY <2>1, <2>2, FunctionIsSeq
  <2> QED
    BY <1>4, <2>1, <2>3
<1>6. \A k \in 1 .. n : queue'[k] \in Job /\ audit[queue'[k]] = "owed"
  BY <1>4 DEF Awaiting
<1>7. \A k, l \in 1 .. n : queue'[k] = queue'[l] => k = l
  <2> SUFFICES ASSUME NEW k \in 1 .. n, NEW l \in 1 .. n, k < l PROVE q[k] # q[l]
    BY <1>4, <1>5
  <2>1. Before(q[k], q[l])
    BY <1>4, <1>5 DEF IsBatch
  <2>2. q[k] \in Job /\ q[l] \in Job
    BY DEF Awaiting
  <2> QED
    BY <1>1, <2>1, <2>2 DEF Before
<1>8. owns => \A k \in 1 .. n : ~InRoom(queue'[k])
  BY <1>2, <1>6 DEF OneLoop, RoomKnown, InRoom, CopyOf
<1>9. QueueNew'
  <2>1. \A k \in 1 .. n : InRoom(queue[k])' <=> InRoom(queue'[k])
    BY <1>2 DEF InRoom, CopyOf
  <2>2. MaySend' <=> owns
    BY <1>2 DEF MaySend
  <2>3. \A k \in 1 .. n : /\ audit'[queue'[k]] = "owed"
                          /\ MaySend' => ~InRoom(queue[k])'
    BY <1>2, <1>6, <1>8, <2>1, <2>2
  <2> QED
    BY <1>2, <1>5, <1>7, <2>3 DEF QueueNew
<1>10. LoopPlace' /\ RoomKnown' /\ TargetNew'
  BY <1>2 DEF OneLoop, LoopPlace, RoomKnown, TargetNew
<1> QED
  BY <1>9, <1>10 DEF OneLoop

\* The room is read to its end, and marked, before the batch is fetched.
LEMMA MarkAlone ==
  ASSUME LoopAlone, PublicInv, Recognised, OneLoop, MarkPublished
  PROVE  OneLoop'
<1>1. /\ at = "mark" /\ at' = "cursor" /\ step[Loop] = "idle"
      /\ UNCHANGED <<late, room, landed, readTo, cursor, owns, step, target, queue>>
      /\ readTo = Len(room)
  BY DEF MarkPublished, upstream, publish, OneLoop, LoopPlace
<1>2. /\ cursor \in Nat /\ Len(room) \in Nat
      /\ \A i \in 1 .. Len(room) : room[i].job \in Job
  <2>1. room \in Seq(Copy) /\ Len(room) \in Nat /\ cursor \in 0 .. Len(room)
    BY DEF PublicInv, TypeOK
  <2>2. \A i \in 1 .. Len(room) : room[i] \in Copy
    BY <2>1
  <2> QED
    BY <2>1, <2>2 DEF Copy
<1>3. [Next]_vars
  BY DEF Next, LoopStep
<1>4. BatchMarked'
  BY <1>3, BatchMarkedStep DEF Recognised
<1>5. \A i \in 1 .. Len(room) : room[i].genuine => audit'[room[i].job] # "owed"
  <2> SUFFICES ASSUME NEW i \in 1 .. Len(room), room[i].genuine
               PROVE  audit'[room[i].job] # "owed"
    OBVIOUS
  <2>1. CASE i \in cursor + 1 .. readTo
    BY <1>1, <1>4, <2>1 DEF BatchMarked
  <2>2. CASE i \in 1 .. cursor
    <3>1. audit[room[i].job] \notin {"none", "owed"}
      BY <2>2 DEF Recognised, OwedCopyIsAhead, RowBeforeCopy
    <3> QED
      BY <1>2, <1>3, <3>1, AuditMoves
  <2> QED
    BY <1>1, <1>2, <2>1, <2>2
<1> QED
  BY <1>1, <1>5 DEF OneLoop, LoopPlace, RoomKnown, TargetNew, QueueNew

LEMMA OthersAlone ==
  ASSUME LoopAlone, PublicInv, OneLoop,
         Reconcile \/ ReadRoom \/ SetCursor \/ Observe \/ Crash \/ UNCHANGED vars
  PROVE  OneLoop'
<1> USE DEF OneLoop, LoopPlace, RoomKnown, TargetNew, QueueNew, MaySend, InRoom
<1>1. CASE Reconcile
  BY <1>1 DEF Reconcile, ledger, upstream, publish
<1>2. CASE ReadRoom
  BY <1>2 DEF ReadRoom, LoopAlone, ledger, upstream, publish
<1>3. CASE SetCursor
  BY <1>3 DEF SetCursor, upstream, publish
<1>4. CASE Observe
  BY <1>4 DEF Observe, LoopFree, ledger, upstream, publish, loop
<1>5. CASE Crash
  <2>1. late' = {} /\ step'[Loop] = "idle" /\ landed'[Loop] = 0 /\ at' = "poll"
    BY <1>5, LoopTypes DEF Crash
  <2> QED
    BY <2>1
<1>6. CASE UNCHANGED vars
  BY <1>6 DEF vars, ledger, upstream, publish, loop
<1> QED
  BY <1>1, <1>2, <1>3, <1>4, <1>5, <1>6

LEMMA OneLoopStep ==
  ASSUME LoopAlone, PublicInv, Recognised, OneLoop, CopiedOnce, [Next]_vars
  PROVE  OneLoop' /\ CopiedOnce'
<1>1. Task = {Loop} /\ late = {}
  BY LoopTypes DEF OneLoop
<1>2. CASE Land(Loop)
  BY <1>2, LandAlone
<1>3. CASE \/ \E j \in Job : Finish(j)
           \/ Send(Loop) \/ Confirm(Loop) \/ LoopStep \/ Observe \/ Crash
           \/ UNCHANGED vars
  <2>1. CopiedOnce'
    BY <1>3 DEF Finish, Send, Confirm, LoopStep, Reconcile, ReadRoom, MarkPublished,
       SetCursor, FetchRows, NextRow, Observe, Crash, vars, upstream, CopiedOnce
  <2>2. OneLoop'
    BY <1>3, FinishAlone, SendAlone, ConfirmAlone, NextRowAlone, FetchAlone, MarkAlone,
       OthersAlone DEF LoopStep, Recognised
  <2> QED
    BY <2>1, <2>2
<1> QED
  BY <1>1, <1>2, <1>3 DEF Next, LoopAlone, LandLate

LEMMA Alone ==
  ASSUME LoopAlone
  PROVE  Spec => [](PublicInv /\ OneLoop /\ CopiedOnce)
<1>1. Init => PublicInv /\ Recognised /\ OneLoop /\ CopiedOnce
  <2> SUFFICES ASSUME Init PROVE CopiedOnce
    BY PublicInit, RecognisedInit, OneLoopInit
  <2> QED
    BY DEF Init, CopiedOnce
<1>2. /\ PublicInv /\ Recognised /\ OneLoop /\ CopiedOnce
      /\ [Next]_vars
      => (PublicInv /\ Recognised /\ OneLoop /\ CopiedOnce)'
  BY PublicNext, RowBeforeCopyStep, ForeignFirstStep, BatchMarkedStep, AheadStep,
     OneLoopStep DEF Recognised
<1> QED
  BY <1>1, <1>2, PTL DEF Spec

\* While one loop publishes to a room it can read, and no POST lands late, no receipt is
\* posted twice: not by a POST that was not confirmed, nor by a crash before its record.
THEOREM PostedOnce == ASSUME LoopAlone PROVE Spec => []CopiedOnce
BY Alone, PTL
=============================================================================
