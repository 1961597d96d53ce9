------------------------- MODULE SignedWritesProofs -------------------------
(***************************************************************************)
(* What holds of signed writes for any writes, any losses, delays and      *)
(* crashes, and any clock: a nonce may rewind here.                        *)
(***************************************************************************)
EXTENDS SignedWrites, FiniteSetTheorems, TLAPS

----------------------------------------------------------------------------
(* The inductive invariant. *)

Typed == /\ room \in Seq(Request \cup {Stranger})
         /\ last \in Nat
         /\ late \subseteq Request
         /\ now \in Nat /\ mark \in Nat /\ stored \in Nat
         /\ at \in [Write -> {"idle", "send", "wait", "read", "confirmed", "failed", "gone"}]
         /\ nonce \in [Write -> Nat]
         /\ seqOf \in [Write -> Nat]

\* The key's messages are in the room in the order of their nonces, up to the last one.
InOrder ==
  \A i, k \in DOMAIN room :
    room[i] # Stranger /\ room[k] # Stranger /\ i < k => room[i].nonce < room[k].nonce
UpToLast == \A i \in DOMAIN room : room[i] # Stranger => room[i].nonce <= last

\* Every message of a write carries the nonce the write was given when it began.
OfItsWrite(r) == at[r.write] # "idle" /\ r.nonce = nonce[r.write]
SignedOnce == /\ \A i \in DOMAIN room : room[i] # Stranger => OfItsWrite(room[i])
              /\ \A r \in late : OfItsWrite(r)

\* What is read back was accepted.
Accepted == \A w \in Write : at[w] = "read" => \E i \in DOMAIN room : room[i] = Mine(w)

Upstream == Typed /\ InOrder /\ UpToLast /\ SignedOnce
IInv == Upstream /\ Accepted /\ ConfirmedIsStored
----------------------------------------------------------------------------
LEMMA Init0 == Init => IInv
BY DEF Init, IInv, Upstream, Typed, InOrder, UpToLast, SignedOnce, Accepted, ConfirmedIsStored

LEMMA NextNonceType == ASSUME Typed PROVE NextNonce \in Nat
BY DEF Typed, NextNonce, Highest, Floor

LEMMA TypedStep == Upstream /\ [Next]_vars => Typed'
<1> SUFFICES ASSUME Upstream, [Next]_vars PROVE Typed'
  OBVIOUS
<1> USE WritesAssumption DEF Upstream, Typed, upstream, clock, process, ledger
<1>1. ASSUME NEW r \in Request, Arrive(r)
      PROVE  room' \in Seq(Request \cup {Stranger}) /\ last' \in Nat
  <2>1. r.nonce \in Nat
    BY DEF Request
  <2>2. CASE r.nonce > last
    <3>1. room' = Append(room, r) /\ last' = r.nonce
      BY <1>1, <2>2 DEF Arrive
    <3>2. room \in Seq(Request \cup {Stranger}) /\ r \in Request \cup {Stranger}
      OBVIOUS
    <3> QED
      BY <2>1, <3>1, <3>2
  <2>3. CASE ~(r.nonce > last)
    BY <1>1, <2>3 DEF Arrive
  <2> QED
    BY <2>2, <2>3
<1>2. ASSUME NEW w \in Write PROVE Mine(w) \in Request
  BY DEF Mine, Request
<1>3. CASE Tick \/ \E by \in 1 .. MaxBack : StepBack(by)
  <2>1. UNCHANGED <<room, last, late, mark, stored, at, nonce, seqOf>>
    BY <1>3 DEF Tick, StepBack
  <2>2. MaxBack \in Nat /\ now \in Nat
    OBVIOUS
  <2>3. now' \in Nat
    BY <1>3, <2>2 DEF Tick, StepBack
  <2> QED
    BY <2>1, <2>3
<1>4. CASE Others
  BY <1>4 DEF Others
<1>5. ASSUME NEW r \in late, Deliver(r) PROVE Typed'
  BY <1>1, <1>5 DEF Deliver
<1>6. ASSUME NEW w \in Write, Say(w) PROVE Typed'
  BY <1>6, NextNonceType DEF Say
<1>7. ASSUME NEW w \in Write, Post(w) \/ Error(w) PROVE Typed'
  BY <1>1, <1>2, <1>7 DEF Post, Error, Sent
<1>8. ASSUME NEW w \in Write, Lose(w) PROVE Typed'
  BY <1>1, <1>2, <1>8 DEF Lose, Sent
<1>9. ASSUME NEW w \in Write, Retry(w) \/ GiveUp(w) \/ Unconfirmed(w) PROVE Typed'
  BY <1>9 DEF Retry, GiveUp, Unconfirmed, SameBytes
<1>10. ASSUME NEW w \in Write, Confirm(w) PROVE Typed'
  <2>1. seqOf' \in [Write -> Nat]
    BY <1>10 DEF Confirm, Recent
  <2> QED
    BY <1>10, <2>1 DEF Confirm, Highest
<1>11. CASE Crash
  BY <1>2, <1>11 DEF Crash
<1>12. CASE UNCHANGED vars
  BY <1>12 DEF vars
<1> QED
  BY <1>3, <1>4, <1>5, <1>6, <1>7, <1>8, <1>9, <1>10, <1>11, <1>12 DEF Next, WriteStep

\* The room after one more message: a stranger's, or ours under a higher nonce.
LEMMA ArriveKeeps ==
  ASSUME Upstream, NEW r \in Request, Arrive(r) \/ UNCHANGED <<room, last>>
  PROVE  /\ InOrder' /\ UpToLast'
         /\ DOMAIN room \subseteq DOMAIN room'
         /\ \A i \in DOMAIN room : room'[i] = room[i]
         /\ \A i \in DOMAIN room' : room'[i] = r \/ (i \in DOMAIN room /\ room'[i] = room[i])
<1>1. CASE UNCHANGED <<room, last>>
  BY <1>1 DEF Upstream, InOrder, UpToLast
<1>2. CASE r.nonce > last /\ room' = Append(room, r) /\ last' = r.nonce
  <2> DEFINE n == Len(room)
  <2>1. /\ n \in Nat /\ DOMAIN room = 1 .. n /\ DOMAIN room' = 1 .. n + 1
        /\ room'[n + 1] = r
        /\ \A i \in 1 .. n : room'[i] = room[i] /\ room[i] \in Request \cup {Stranger}
    BY <1>2 DEF Upstream, Typed
  <2>2. last \in Nat /\ r.nonce \in Nat
    BY DEF Upstream, Typed, Request
  <2>3. \A i \in 1 .. n : room[i] # Stranger => room[i].nonce \in Nat /\ room[i].nonce < r.nonce
    <3> SUFFICES ASSUME NEW i \in 1 .. n, room[i] # Stranger
                 PROVE  room[i].nonce \in Nat /\ room[i].nonce < r.nonce
      OBVIOUS
    <3>1. room[i].nonce \in Nat
      BY <2>1 DEF Request
    <3>2. room[i].nonce <= last
      BY <2>1 DEF Upstream, UpToLast
    <3> QED
      BY <1>2, <2>2, <3>1, <3>2
  <2>4. UpToLast'
    <3> SUFFICES ASSUME NEW i \in 1 .. n + 1, room'[i] # Stranger
                 PROVE  room'[i].nonce <= r.nonce
      BY <1>2, <2>1 DEF UpToLast
    <3>1. CASE i = n + 1
      BY <2>1, <2>2, <3>1
    <3>2. CASE i \in 1 .. n
      BY <2>1, <2>2, <2>3, <3>2
    <3> QED
      BY <2>1, <3>1, <3>2
  <2>5. ASSUME NEW i \in 1 .. n + 1, NEW k \in 1 .. n + 1, i < k,
               room'[i] # Stranger, room'[k] # Stranger
        PROVE  room'[i].nonce < room'[k].nonce
    <3>1. i \in 1 .. n
      BY <2>1, <2>5
    <3>2. CASE k = n + 1
      BY <2>1, <2>3, <2>5, <3>1, <3>2
    <3>3. CASE k \in 1 .. n
      BY <2>1, <2>5, <3>1, <3>3 DEF Upstream, InOrder
    <3> QED
      BY <2>1, <3>2, <3>3
  <2> QED
    BY <2>1, <2>4, <2>5 DEF InOrder
<1> QED
  BY <1>1, <1>2 DEF Arrive


LEMMA SignedOnceStep == Upstream /\ [Next]_vars => (InOrder /\ UpToLast /\ SignedOnce)'
<1> SUFFICES ASSUME Upstream, [Next]_vars PROVE (InOrder /\ UpToLast /\ SignedOnce)'
  OBVIOUS
<1> DEFINE Goal == InOrder' /\ UpToLast' /\ SignedOnce'
<1> USE DEF Upstream
<1>1. \A i \in DOMAIN room : room[i] \in Request \cup {Stranger}
  BY DEF Typed
\* What is in the room or on its way keeps its nonce, for its write has begun.
<1>2. ASSUME UNCHANGED <<room, last>>,
             \A r \in Request : OfItsWrite(r) => OfItsWrite(r)',
             \A r \in late' : r \in late \/ OfItsWrite(r)'
      PROVE  Goal
  BY <1>1, <1>2 DEF InOrder, UpToLast, SignedOnce, Typed
<1>3. ASSUME NEW r \in Request, Arrive(r) \/ UNCHANGED <<room, last>>, OfItsWrite(r)',
             \A q \in Request : OfItsWrite(q) => OfItsWrite(q)',
             \A q \in late' : q \in late \/ q = r
      PROVE  Goal
  <2>1. InOrder' /\ UpToLast'
    BY <1>3, ArriveKeeps
  <2>2. \A i \in DOMAIN room' : room'[i] = r \/ (i \in DOMAIN room /\ room'[i] = room[i])
    BY <1>3, ArriveKeeps
  <2>3. SignedOnce'
    BY <1>1, <1>3, <2>2 DEF SignedOnce, Typed
  <2> QED
    BY <2>1, <2>3
<1>4. CASE Tick \/ (\E by \in 1 .. MaxBack : StepBack(by)) \/ UNCHANGED vars
  BY <1>2, <1>4 DEF Tick, StepBack, vars, upstream, process, OfItsWrite
<1>5. CASE Others
  <2> DEFINE n == Len(room)
  <2>1. /\ n \in Nat /\ DOMAIN room = 1 .. n /\ DOMAIN room' = 1 .. n + 1
        /\ room'[n + 1] = Stranger
        /\ \A i \in 1 .. n : room'[i] = room[i]
    BY <1>5 DEF Others, Typed
  <2>2. UNCHANGED <<last, late, at, nonce>>
    BY <1>5 DEF Others, process
  <2> QED
    BY <2>1, <2>2 DEF InOrder, UpToLast, SignedOnce, OfItsWrite
<1>6. ASSUME NEW r \in late, Deliver(r) PROVE Goal
  <2>1. r \in Request /\ OfItsWrite(r)
    BY DEF SignedOnce, Typed
  <2>2. UNCHANGED <<at, nonce>> /\ Arrive(r) /\ late' \subseteq late
    BY <1>6 DEF Deliver, process
  <2> QED
    BY <1>3, <2>1, <2>2 DEF OfItsWrite
<1>7. ASSUME NEW w \in Write, Say(w) PROVE Goal
  <2>1. \A r \in Request : OfItsWrite(r) => OfItsWrite(r)'
    BY <1>7 DEF Say, OfItsWrite, Typed, Request
  <2> QED
    BY <1>2, <1>7, <2>1 DEF Say, upstream
<1>8. ASSUME NEW w \in Write, Post(w) \/ Error(w) \/ Lose(w) PROVE Goal
  <2>0. PICK r \in Request : r = Mine(w)
    BY DEF Mine, Request, Typed
  <2>1. OfItsWrite(r)'
    BY <1>8, <2>0 DEF Post, Error, Lose, Sent, Mine, OfItsWrite, Typed
  <2>2. \A q \in Request : OfItsWrite(q) => OfItsWrite(q)'
    BY <1>8 DEF Post, Error, Lose, Sent, OfItsWrite, Typed, Request
  <2>3. /\ Arrive(r) \/ UNCHANGED <<room, last>>
        /\ \A q \in late' : q \in late \/ q = r
    BY <1>8, <2>0 DEF Post, Error, Lose, upstream
  <2> QED
    BY <1>3, <2>1, <2>2, <2>3
<1>9. ASSUME NEW w \in Write, Retry(w) \/ GiveUp(w) \/ Confirm(w) \/ Unconfirmed(w)
      PROVE  Goal
  <2>1. nonce' = nonce
    BY <1>9 DEF Retry, GiveUp, Confirm, Unconfirmed, SameBytes, Typed
  <2>2. \A r \in Request : OfItsWrite(r) => OfItsWrite(r)'
    BY <1>9, <2>1 DEF Retry, GiveUp, Confirm, Unconfirmed, OfItsWrite, Typed, Request
  <2> QED
    BY <1>2, <1>9, <2>2 DEF Retry, GiveUp, Confirm, Unconfirmed, upstream
<1>10. CASE Crash
  <2>1. \A r \in Request : OfItsWrite(r) => OfItsWrite(r)'
    BY <1>10 DEF Crash, OfItsWrite, Typed, Request
  <2>2. \A r \in late' : r \in late \/ OfItsWrite(r)'
    BY <1>10 DEF Crash, OfItsWrite, Mine, Typed
  <2> QED
    BY <1>2, <1>10, <2>1, <2>2 DEF Crash
<1> QED
  BY <1>4, <1>5, <1>6, <1>7, <1>8, <1>9, <1>10 DEF Next, WriteStep

\* The room only grows.
LEMMA RoomStays ==
  ASSUME Upstream, [Next]_vars, NEW i \in DOMAIN room
  PROVE  i \in DOMAIN room' /\ room'[i] = room[i]
<1>1. CASE UNCHANGED room
  BY <1>1
<1>2. ASSUME NEW r \in Request, Arrive(r) PROVE i \in DOMAIN room' /\ room'[i] = room[i]
  BY <1>2, ArriveKeeps
<1>3. CASE Others
  BY <1>3 DEF Others, Upstream, Typed
<1>4. ASSUME NEW w \in Write PROVE Mine(w) \in Request
  BY DEF Mine, Request, Upstream, Typed
<1>5. late \subseteq Request
  BY DEF Upstream, Typed
<1> QED
  BY <1>1, <1>2, <1>3, <1>4, <1>5 DEF Next, WriteStep, Tick, StepBack, Deliver, Say, Post,
     Lose, Error, Retry, GiveUp, Confirm, Unconfirmed, Crash, vars, upstream

LEMMA AcceptedStep == Upstream /\ Accepted /\ [Next]_vars => Accepted'
<1> SUFFICES ASSUME Upstream, Accepted, [Next]_vars, NEW w \in Write, at'[w] = "read"
             PROVE  \E i \in DOMAIN room' : room'[i] = Mine(w)'
  BY DEF Accepted
<1> USE DEF Upstream, Typed
<1>1. CASE at[w] = "read"
  <2>1. PICK i \in DOMAIN room : room[i] = Mine(w)
    BY <1>1 DEF Accepted
  <2>2. i \in DOMAIN room' /\ room'[i] = room[i]
    BY <2>1, RoomStays
  <2>3. nonce'[w] = nonce[w]
    BY <1>1 DEF Next, WriteStep, Tick, StepBack, Others, Deliver, Say, Post, Lose, Error,
       Retry, SameBytes, GiveUp, Confirm, Unconfirmed, Crash, Sent, vars, process
  <2> QED
    BY <2>1, <2>2, <2>3 DEF Mine
<1>2. CASE at[w] # "read"
  <2>1. Post(w)
    BY <1>2 DEF Next, WriteStep, Tick, StepBack, Others, Deliver, Say, Post, Lose, Error,
       Retry, GiveUp, Confirm, Unconfirmed, Crash, Sent, vars, process
  <2>2. nonce[w] > last /\ nonce' = nonce
    BY <1>2, <2>1 DEF Post, Sent
  <2>3. room' = Append(room, Mine(w))
    BY <2>1, <2>2 DEF Post, Arrive, Mine
  <2>4. Mine(w)' = Mine(w) /\ Mine(w) \in Request
    BY <2>2 DEF Mine, Request
  <2>5. Len(room) + 1 \in DOMAIN room' /\ room'[Len(room) + 1] = Mine(w)
    BY <2>3, <2>4
  <2> QED
    BY <2>4, <2>5
<1> QED
  BY <1>1, <1>2

\* Two messages of ours with one nonce are one message.
LEMMA SameNonce ==
  ASSUME Upstream, NEW i \in DOMAIN room, NEW k \in DOMAIN room,
         room[i] # Stranger, room[k] # Stranger, room[i].nonce = room[k].nonce
  PROVE  i = k
<1>1. i \in Nat /\ k \in Nat /\ room[i] \in Request /\ room[k] \in Request
  BY DEF Upstream, Typed
<1>2. ~(i < k) /\ ~(k < i)
  BY <1>1 DEF Upstream, InOrder, Request
<1> QED
  BY <1>1, <1>2

LEMMA ConfirmedStep ==
  Upstream /\ Accepted /\ ConfirmedIsStored /\ [Next]_vars => ConfirmedIsStored'
<1> SUFFICES ASSUME Upstream, Accepted, ConfirmedIsStored, [Next]_vars,
                    NEW w \in Write, seqOf'[w] # 0
             PROVE  (seqOf[w] \in Ours(w))'
  BY DEF ConfirmedIsStored
<1> USE DEF Upstream, Typed
<1>1. ASSUME seqOf'[w] = seqOf[w] PROVE (seqOf[w] \in Ours(w))'
  <2>1. seqOf[w] \in Ours(w)
    BY <1>1 DEF ConfirmedIsStored
  <2> QED
    BY <1>1, <2>1, RoomStays DEF Ours
<1>2. ASSUME NEW v \in Write, Confirm(v) PROVE (seqOf[w] \in Ours(w))'
  <2>1. CASE v # w
    BY <1>1, <1>2, <2>1 DEF Confirm
  <2>2. CASE v = w
    <3>1. PICK i \in Recent : Matches(w, i) /\ seqOf' = [seqOf EXCEPT ![w] = i]
      BY <1>2, <2>2 DEF Confirm
    <3>2. PICK k \in DOMAIN room : room[k] = Mine(w)
      BY <1>2, <2>2 DEF Confirm, Accepted
    <3>3. room[k] # Stranger /\ room[k].nonce = nonce[w] /\ room[k].write = w
      BY <3>2, WritesAssumption DEF Mine, Request
    <3>4. i = k
      BY <3>1, <3>3, SameNonce DEF Matches, Recent
    <3>5. room' = room /\ seqOf'[w] = k
      BY <1>2, <3>1, <3>4 DEF Confirm, upstream
    <3> QED
      BY <3>3, <3>5 DEF Ours
  <2> QED
    BY <2>1, <2>2
<1> QED
  BY <1>1, <1>2 DEF Next, WriteStep, Tick, StepBack, Others, Deliver, Say, Post, Lose, Error,
     Retry, GiveUp, Unconfirmed, Crash, vars, ledger

LEMMA Inductive == IInv /\ [Next]_vars => IInv'
BY TypedStep, SignedOnceStep, AcceptedStep, ConfirmedStep DEF IInv, Upstream

LEMMA Invariant == Spec => []IInv
BY Init0, Inductive, PTL DEF Spec
----------------------------------------------------------------------------
\* A write is in the room at most once, however often it was sent, whatever was lost or
\* late, and even under a clock that rewinds.
THEOREM WritesLandOnce == Spec => []LandsOnce
<1>1. IInv => LandsOnce
  <2> SUFFICES ASSUME IInv, NEW w \in Write PROVE Cardinality(Ours(w)) <= 1
    BY DEF LandsOnce
  <2>1. \A i, k \in Ours(w) : i = k
    BY SameNonce DEF IInv, Upstream, SignedOnce, OfItsWrite, Ours
  <2>2. CASE Ours(w) = {}
    BY <2>2, FS_EmptySet
  <2>3. ASSUME NEW i \in Ours(w) PROVE Cardinality(Ours(w)) <= 1
    <3>1. Ours(w) = {i}
      BY <2>1, <2>3
    <3>2. Cardinality({i}) = 1
      BY FS_Singleton
    <3> QED
      BY <3>1, <3>2
  <2> QED
    BY <2>2, <2>3
<1> QED
  BY <1>1, Invariant, PTL

\* What a confirmation names is the message that was written.
THEOREM ConfirmationIsTrue == Spec => []ConfirmedIsStored
<1>1. IInv => ConfirmedIsStored
  BY DEF IInv
<1> QED
  BY <1>1, Invariant, PTL
----------------------------------------------------------------------------
(***************************************************************************)
(* Nonces rise as long as a restart outlasts what ran ahead of the clock:  *)
(* one millisecond for each write of the process, and however far the      *)
(* clock was stepped back.  The ledger's mark is not enough for it, since  *)
(* a write that was not confirmed leaves none (MCWritesRewind.cfg).        *)
(***************************************************************************)
RestartOutlasts == IsFiniteSet(Write) /\ Cardinality(Write) + MaxBack <= Startup + 1

Begun == {w \in Write : at[w] # "idle"}

\* How far the highest nonce is ahead of the clock, within a process and after a death.
Ahead ==
  /\ now # 0 /\ back \in 0 .. MaxBack /\ top \in Nat /\ stored <= top
  /\ \A w \in Write : nonce[w] <= top
  /\ top < now + Cardinality(Begun) + back
  /\ mark # 0 => mark = top
  /\ mark = 0 /\ top # 0 => top + Startup < now + Cardinality(Begun) + back

LEMMA BegunCount ==
  ASSUME IsFiniteSet(Write)
  PROVE  /\ Cardinality(Begun) \in Nat
         /\ \A w \in Write \ Begun :
              /\ Cardinality(Begun \cup {w}) = Cardinality(Begun) + 1
              /\ Cardinality(Begun) + 1 <= Cardinality(Write)
         /\ Cardinality(Write) \in Nat
<1>1. Begun \in SUBSET Write
  BY DEF Begun
<1>2. IsFiniteSet(Begun) /\ Cardinality(Begun) \in Nat /\ Cardinality(Write) \in Nat
  BY <1>1, FS_Subset, FS_CardinalityType
<1>3. ASSUME NEW w \in Write \ Begun
      PROVE  /\ Cardinality(Begun \cup {w}) = Cardinality(Begun) + 1
             /\ Cardinality(Begun) + 1 <= Cardinality(Write)
  <2>1. Cardinality(Begun \cup {w}) = Cardinality(Begun) + 1
    BY <1>2, <1>3, FS_AddElement
  <2>2. (Begun \cup {w}) \in SUBSET Write
    BY <1>1, <1>3
  <2>3. Cardinality(Begun \cup {w}) <= Cardinality(Write)
    BY <2>2, FS_Subset
  <2> QED
    BY <2>1, <2>3
<1> QED
  BY <1>2, <1>3

LEMMA AheadInit == Init => Ahead
<1> SUFFICES ASSUME Init PROVE Ahead
  OBVIOUS
<1>1. Begun = {}
  BY DEF Init, Begun
<1>2. Cardinality(Begun) = 0
  BY <1>1, FS_EmptySet
<1> QED
  BY <1>2, WritesAssumption DEF Init, Ahead

\* A write begins above every nonce before it.
LEMMA SayRises ==
  ASSUME RestartOutlasts, Typed, Ahead, NEW w \in Write, at[w] = "idle"
  PROVE  /\ NextNonce \in Nat
         /\ NextNonce > top
         /\ NextNonce < now + Cardinality(Begun) + 1 + back
         /\ NextNonce # 0
<1>1. w \in Write \ Begun
  BY DEF Begun
<1>2. /\ Cardinality(Begun) \in Nat /\ Cardinality(Write) \in Nat
      /\ Cardinality(Begun) + 1 <= Cardinality(Write)
  BY <1>1, BegunCount DEF RestartOutlasts
<1>3. /\ MaxBack \in Nat /\ Startup \in Nat
      /\ Cardinality(Write) + MaxBack <= Startup + 1
  BY WritesAssumption DEF RestartOutlasts
<1>4. now \in Nat /\ mark \in Nat /\ stored \in Nat /\ top \in Nat /\ back \in 0 .. MaxBack
  BY DEF Typed, Ahead
<1>5. NextNonce \in Nat
  BY NextNonceType
<1>6. CASE mark # 0
  <2>1. Floor = top
    BY <1>6 DEF Floor, Ahead
  <2> QED
    BY <1>2, <1>3, <1>4, <1>5, <2>1 DEF NextNonce, Highest, Ahead
<1>7. CASE mark = 0
  <2>1. Floor = stored /\ stored <= top /\ now # 0
    BY <1>7 DEF Floor, Ahead
  <2>2. top < now
    BY <1>2, <1>3, <1>4, <1>7, <2>1 DEF Ahead
  <2> QED
    BY <1>2, <1>3, <1>4, <1>5, <2>1, <2>2 DEF NextNonce, Highest
<1> QED
  BY <1>6, <1>7

LEMMA AheadStep ==
  ASSUME RestartOutlasts, Typed, Ahead, [Next]_vars
  PROVE  Ahead'
<1>1. /\ now \in Nat /\ mark \in Nat /\ stored \in Nat /\ top \in Nat /\ back \in 0 .. MaxBack
      /\ nonce \in [Write -> Nat] /\ MaxBack \in Nat /\ Startup \in Nat
      /\ Cardinality(Begun) \in Nat
  BY BegunCount, WritesAssumption DEF Typed, Ahead, RestartOutlasts
<1>2. CASE Tick \/ \E by \in 1 .. MaxBack : StepBack(by)
  <2>1. Begun' = Begun /\ UNCHANGED <<mark, stored, top, nonce>>
    BY <1>2 DEF Tick, StepBack, process, ledger, Begun
  <2>2. Cardinality(Begun)' = Cardinality(Begun)
    BY <2>1
  <2>3. \/ now' = now + 1 /\ back' = back
        \/ \E by \in 1 .. MaxBack : /\ by < now /\ now' = now - by
                                     /\ back' = back + by /\ back + by <= MaxBack
    BY <1>2 DEF Tick, StepBack
  <2> QED
    BY <1>1, <2>1, <2>2, <2>3 DEF Ahead
<1>3. ASSUME NEW w \in Write, Say(w) PROVE Ahead'
  <2>1. at[w] = "idle" /\ w \in Write \ Begun
    BY <1>3 DEF Say, Begun
  <2>2. Begun' = Begun \cup {w}
    BY <1>3 DEF Say, Begun, Typed
  <2>3. Cardinality(Begun)' = Cardinality(Begun) + 1
    BY <2>1, <2>2, BegunCount DEF RestartOutlasts
  <2>4. /\ NextNonce \in Nat /\ NextNonce > top
        /\ NextNonce < now + Cardinality(Begun) + 1 + back /\ NextNonce # 0
    BY <2>1, SayRises
  <2>5. /\ UNCHANGED <<now, back, stored>>
        /\ mark' = NextNonce /\ top' = NextNonce
        /\ nonce' = [nonce EXCEPT ![w] = NextNonce]
    BY <1>1, <1>3, <2>4 DEF Say, clock, ledger, Highest
  <2> QED
    BY <1>1, <2>3, <2>4, <2>5 DEF Ahead
<1>4. CASE Crash
  <2>1. /\ UNCHANGED <<back, stored, top, nonce>>
        /\ now' = now + Startup /\ mark' = 0
    BY <1>4 DEF Crash, ledger
  <2>2. Begun' = Begun
    BY <1>4 DEF Crash, Begun, Typed
  <2>3. Cardinality(Begun)' = Cardinality(Begun)
    BY <2>2
  <2> QED
    BY <1>1, <2>1, <2>3 DEF Ahead
<1>5. ASSUME UNCHANGED <<now, back, mark, nonce, top>>, Begun' = Begun,
             \/ UNCHANGED stored
             \/ \E w \in Write : stored' = Highest(stored, nonce[w])
      PROVE  Ahead'
  <2>1. Cardinality(Begun)' = Cardinality(Begun)
    BY <1>5
  <2>2. stored' <= top
    BY <1>1, <1>5 DEF Ahead, Highest
  <2> QED
    BY <1>1, <1>5, <2>1, <2>2 DEF Ahead
<1>6. CASE Others \/ (\E r \in late : Deliver(r)) \/ UNCHANGED vars
  BY <1>5, <1>6 DEF Others, Deliver, vars, clock, process, ledger, Begun
<1>7. ASSUME NEW w \in Write, WriteStep(w), ~Say(w) PROVE Ahead'
  <2>1. UNCHANGED <<now, back, mark, top>>
    BY <1>7 DEF WriteStep, Post, Lose, Error, Sent, Retry, GiveUp, Confirm, Unconfirmed, clock
  <2>2. UNCHANGED nonce
    BY <1>1, <1>7 DEF WriteStep, Post, Lose, Error, Sent, Retry, GiveUp, Confirm,
       Unconfirmed, SameBytes
  <2>3. \/ UNCHANGED stored
        \/ stored' = Highest(stored, nonce[w])
    BY <1>7 DEF WriteStep, Post, Lose, Error, Retry, GiveUp, Confirm, Unconfirmed, ledger
  <2>4. /\ at[w] # "idle"
        /\ \E place \in {"send", "wait", "read", "confirmed", "failed"} :
             at' = [at EXCEPT ![w] = place]
    BY <1>7 DEF WriteStep, Post, Lose, Error, Sent, Retry, GiveUp, Confirm, Unconfirmed
  <2>5. Begun' = Begun
    BY <2>4 DEF Begun, Typed
  <2> QED
    BY <1>5, <2>1, <2>2, <2>3, <2>5
<1> QED
  BY <1>2, <1>3, <1>4, <1>6, <1>7 DEF Next

\* Every allocated nonce is above all that were allocated before it, through any losses
\* and any number of deaths, where each restart outlasts what ran ahead of the clock.
THEOREM NoncesRise == ASSUME RestartOutlasts PROVE Spec => NoRewind
<1>1. Spec => []Typed
  <2>1. IInv => Typed
    BY DEF IInv, Upstream
  <2> QED
    BY <2>1, Invariant, PTL
<1>2. Init => Ahead
  BY AheadInit
<1>3. Typed /\ Ahead /\ [Next]_vars => Ahead'
  BY AheadStep
<1>4. ASSUME Typed, Ahead, [Next]_vars,
             NEW w \in Write, at[w] = "idle", at'[w] = "send"
      PROVE  nonce'[w] > top
  <2>1. PICK v \in Write : WriteStep(v) /\ at' # at
    BY <1>4 DEF Next, Tick, StepBack, Others, Deliver, Crash, vars, process, Typed
  <2>2. v = w
    BY <1>4, <2>1 DEF WriteStep, Say, Post, Lose, Error, Sent, Retry, GiveUp, Confirm,
       Unconfirmed, Typed
  <2>3. Say(w)
    BY <1>4, <2>1, <2>2 DEF WriteStep, Post, Lose, Error, Sent, Retry, GiveUp, Confirm,
       Unconfirmed
  <2> QED
    BY <1>4, <2>3, SayRises DEF Say, Typed
<1>5. Typed /\ Ahead /\ [Next]_vars =>
        [\A w \in Write : at[w] = "idle" /\ at'[w] = "send" => nonce'[w] > top]_vars
  BY <1>4
<1> QED
  BY <1>1, <1>2, <1>3, <1>5, PTL DEF Spec, NoRewind
=============================================================================
