---------------------------- MODULE SignedWrites ----------------------------
(***************************************************************************)
(* protocol/client.py: NonceAllocator, say_signed, _request's retries and  *)
(* _read_back, with what publish_reporting records of them in the ledger.  *)
(* One key writes to one room, several writes at a time, over a network    *)
(* that loses requests and answers and delivers late; the room accepts a   *)
(* message only under a higher nonce than the key's last one.              *)
(***************************************************************************)
EXTENDS Naturals, Sequences, FiniteSets

CONSTANTS Write,      \* calls of say_signed
          textOf,     \* [Write -> Text]: what each says, swept
          Stranger,   \* a message of somebody else
          Window,     \* messages a read-back returns
          MaxTries,   \* attempts _request makes
          Startup,    \* milliseconds a restart takes at least
          MaxClock,   \* bound on the milliseconds modelled
          MaxBack,    \* how far the clock may step back, in all
          MaxCrashes, \* bound on process deaths
          MaxOthers   \* bound on strangers' messages

ASSUME WritesAssumption ==
  /\ {Window, MaxTries} \subseteq Nat \ {0}
  /\ {Startup, MaxClock, MaxBack, MaxCrashes, MaxOthers} \subseteq Nat
  /\ DOMAIN textOf = Write
  /\ Stranger \notin [write : Write, nonce : Nat]

VARIABLES
  \* upstream
  room,     \* Seq(Request \cup {Stranger}): what was accepted, in order
  last,     \* the last nonce of our key
  late,     \* requests given up by the client that may still arrive
  \* the clock
  now,
  back,     \* how far it was stepped back
  \* the process
  mark,     \* _floors: the last nonce it allocated, 0 for none
  at,       \* [Write -> STRING]: where say_signed is
  nonce,    \* [Write -> Nat]
  tries,    \* [Write -> Nat]
  crashes,
  \* the ledger
  stored,   \* last_nonce: MAX(nonce) of the confirmed messages
  seqOf,    \* [Write -> Nat]: technocore_seq, 0 for none
  \* history
  top       \* the highest nonce allocated

upstream == <<room, last, late>>
clock == <<now, back>>
process == <<mark, at, nonce, tries, crashes>>
ledger == <<stored, seqOf>>
vars == <<upstream, clock, process, ledger, top>>

\* A signed message, on its way or in the room.
Request == [write : Write, nonce : Nat]

TypeOK ==
  /\ room \in Seq(Request \cup {Stranger})
  /\ {last, now, back, mark, crashes, stored, top} \subseteq Nat
  /\ late \subseteq Request
  /\ at \in [Write -> {"idle", "send", "wait", "read", "confirmed", "failed", "gone"}]
  /\ nonce \in [Write -> Nat]
  /\ tries \in [Write -> 0 .. MaxTries]
  /\ seqOf \in [Write -> 0 .. Len(room)]

Init ==
  /\ room = <<>> /\ last = 0 /\ late = {}
  /\ now = 1 /\ back = 0
  /\ mark = 0
  /\ at = [w \in Write |-> "idle"]
  /\ nonce = [w \in Write |-> 0]
  /\ tries = [w \in Write |-> 0]
  /\ crashes = 0
  /\ stored = 0
  /\ seqOf = [w \in Write |-> 0]
  /\ top = 0
----------------------------------------------------------------------------
Highest(m, n) == IF m > n THEN m ELSE n

Tick ==
  /\ now < MaxClock
  /\ now' = now + 1
  /\ UNCHANGED <<upstream, back, process, ledger, top>>

StepBack(by) ==
  /\ back + by <= MaxBack /\ by < now
  /\ now' = now - by
  /\ back' = back + by
  /\ UNCHANGED <<upstream, process, ledger, top>>

Others ==
  /\ Cardinality({i \in DOMAIN room : room[i] = Stranger}) < MaxOthers
  /\ room' = Append(room, Stranger)
  /\ UNCHANGED <<last, late, clock, process, ledger, top>>
----------------------------------------------------------------------------
\* The floor in memory, or, before the first write of a process, the ledger's.
Floor == IF mark = 0 THEN stored ELSE mark

\* Slips: the clock alone; the floor itself.
ClockOnly == now
AtFloor == Highest(Floor, now)

\* NonceAllocator.next
NextNonce == Highest(Floor + 1, now)

Say(w) ==
  /\ at[w] = "idle"
  /\ at' = [at EXCEPT ![w] = "send"]
  /\ nonce' = [nonce EXCEPT ![w] = NextNonce]
  /\ mark' = NextNonce
  /\ top' = Highest(top, NextNonce)
  /\ UNCHANGED <<upstream, clock, tries, crashes, ledger>>

\* The upstream accepts a message of ours, or refuses its nonce.
Arrive(r) ==
  IF r.nonce > last
  THEN room' = Append(room, r) /\ last' = r.nonce
  ELSE UNCHANGED <<room, last>>

Mine(w) == [write |-> w, nonce |-> nonce[w]]

MoreTries(w) == tries[w] < MaxTries

Sent(w, next) ==
  /\ at[w] = "send" /\ MoreTries(w)
  /\ tries' = [tries EXCEPT ![w] = @ + 1]
  /\ at' = [at EXCEPT ![w] = next]

\* One request of _request, answered: accepted, or refused for good.
Post(w) ==
  /\ Sent(w, IF nonce[w] > last THEN "read" ELSE "failed")
  /\ Arrive(Mine(w))
  /\ UNCHANGED <<late, clock, mark, nonce, crashes, ledger, top>>

\* Its answer is lost: it arrived, or never will, or may yet.
Lose(w) ==
  /\ Sent(w, "wait")
  /\ \/ Arrive(Mine(w)) /\ UNCHANGED late
     \/ UNCHANGED upstream
     \/ late' = late \cup {Mine(w)} /\ UNCHANGED <<room, last>>
  /\ UNCHANGED <<clock, mark, nonce, crashes, ledger, top>>

\* An error status other than 429: it may have arrived, and is not sent again.
Error(w) ==
  /\ Sent(w, "failed")
  /\ Arrive(Mine(w)) \/ UNCHANGED <<room, last>>
  /\ UNCHANGED <<late, clock, mark, nonce, crashes, ledger, top>>

Deliver(r) ==
  /\ r \in late
  /\ Arrive(r)
  /\ late' = late \ {r}
  /\ UNCHANGED <<clock, process, ledger, top>>

\* Slip: a retry is signed anew.
SignedAnew(w) == NextNonce

\* A retry is the same bytes.
SameBytes(w) == nonce[w]

\* After a transport failure, or a 429, which arrived nowhere: see Lose.
Retry(w) ==
  /\ at[w] = "wait" /\ MoreTries(w)
  /\ at' = [at EXCEPT ![w] = "send"]
  /\ nonce' = [nonce EXCEPT ![w] = SameBytes(w)]
  /\ UNCHANGED <<upstream, clock, mark, tries, crashes, ledger, top>>

GiveUp(w) ==
  /\ at[w] = "wait" /\ ~MoreTries(w)
  /\ at' = [at EXCEPT ![w] = "failed"]
  /\ UNCHANGED <<upstream, clock, mark, nonce, tries, crashes, ledger, top>>

\* Slip: the text is enough.
SameText(w, i) == room[i] # Stranger /\ textOf[room[i].write] = textOf[w]

\* Our DID, this nonce and this text.
Matches(w, i) == /\ room[i] # Stranger
                 /\ room[i].nonce = nonce[w]
                 /\ textOf[room[i].write] = textOf[w]

\* The newest messages.
Recent == {i \in DOMAIN room : i > Len(room) - Window}

\* _read_back finds the message and publish_reporting records it.
Confirm(w) ==
  /\ at[w] = "read"
  /\ \E i \in Recent :
       /\ Matches(w, i)
       /\ \A k \in Recent : k > i => ~Matches(w, k)
       /\ seqOf' = [seqOf EXCEPT ![w] = i]
  /\ stored' = Highest(stored, nonce[w])
  /\ at' = [at EXCEPT ![w] = "confirmed"]
  /\ UNCHANGED <<upstream, clock, mark, nonce, tries, crashes, top>>

\* It is not among the newest, or the reads fail: WriteUnconfirmed.  What is recorded
\* then carries no nonce.
Unconfirmed(w) ==
  /\ at[w] = "read"
  /\ at' = [at EXCEPT ![w] = "failed"]
  /\ UNCHANGED <<upstream, clock, mark, nonce, tries, crashes, ledger, top>>

\* The process dies, and another starts.  What it had sent may still arrive.
Crash ==
  /\ crashes < MaxCrashes
  /\ now + Startup <= MaxClock
  /\ crashes' = crashes + 1
  /\ now' = now + Startup
  /\ mark' = 0
  /\ at' = [w \in Write |-> IF at[w] \in {"send", "wait", "read"} THEN "gone" ELSE at[w]]
  /\ \E S \in SUBSET {w \in Write : at[w] = "send"} :
       late' = late \cup {Mine(w) : w \in S}
  /\ UNCHANGED <<room, last, back, nonce, tries, ledger, top>>

WriteStep(w) == \/ Say(w) \/ Post(w) \/ Lose(w) \/ Error(w) \/ Retry(w) \/ GiveUp(w)
                \/ Confirm(w) \/ Unconfirmed(w)

Next == \/ Tick \/ \E by \in 1 .. MaxBack : StepBack(by)
        \/ Others \/ \E r \in late : Deliver(r)
        \/ \E w \in Write : WriteStep(w)
        \/ Crash

Spec == Init /\ [][Next]_vars
----------------------------------------------------------------------------
\* Whatever is lost, late, retried or cut short by a crash, a write is in the room at
\* most once: retrying is safe because the bytes, and so the nonce, are the same.
Ours(w) == {i \in DOMAIN room : room[i] # Stranger /\ room[i].write = w}
LandsOnce == \A w \in Write : Cardinality(Ours(w)) <= 1

\* A confirmation names the message that was written, not another one that says the same.
ConfirmedIsStored == \A w \in Write : seqOf[w] # 0 => seqOf[w] \in Ours(w)

\* "Outbound nonces are monotonic per key per room and survive a restart"
\* (docs/SECURITY.md): every allocated nonce is above all that were allocated before.
NoRewind == [][\A w \in Write : at[w] = "idle" /\ at'[w] = "send" => nonce'[w] > top]_vars
=============================================================================
