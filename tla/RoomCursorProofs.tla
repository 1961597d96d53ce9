--------------------------- MODULE RoomCursorProofs ---------------------------
(***************************************************************************)
(* What holds of a reader of the mailbox for any messages, any size of the *)
(* ring and of a read, any lines that leave no record, and any deletions,  *)
(* renumberings, crashes and failures of a read or of the ledger.          *)
(***************************************************************************)
EXTENDS RoomCursor, FiniteSetTheorems, WellFoundedInduction, TLAPS

----------------------------------------------------------------------------
(* The inductive invariant. *)

\* An id counts the messages of all lifetimes, a seq those of this one: they differ by
\* the messages posted before the room was last renumbered.
Base == posts - head

Counts ==
  /\ head <= posts
  /\ gen + (IF bump THEN 1 ELSE 0) <= deletes + 1
  /\ epoch <= gen /\ seen <= gen
  /\ handled \subseteq 1 .. posts
  /\ twice \subseteq handled
  /\ \A s \in Id : recorded[s] <= posts
  /\ \A s \in Id : recorded[s] # None => Recordable(recorded[s])

Numbered == \A m \in room : m.seq <= head /\ m.id = m.seq + Base

\* A batch is read from one lifetime of the room, this one or one that is over, and then
\* nothing of this one was ever handled.
FromHere == \A b \in batch : b.id = b.seq + Base
FromBefore == /\ \A b \in batch : b.id <= Base
              /\ \A i \in handled : i <= Base
InHand ==
  /\ \A b \in batch : cursor < b.seq /\ b.id <= posts
  /\ \A a, b \in batch : a.id - a.seq = b.id - b.seq
  /\ FromHere \/ FromBefore
  /\ at \in {"idle", "read"} => batch = {}
  /\ then = "read" /\ at \in {"probe", "export", "tail"} => batch = {}
  /\ at = "advance" => batch # {} /\ Oldest.id \in handled

Sane == TypeOK /\ Counts /\ Numbered /\ InHand

\* The message that would be handled again if its cursor were not written.
Underway(m) == at = "advance" /\ m = Oldest

\* A check that starts this room over compares a message that was handled with the record
\* of another.
Settled == cursor <= head /\ \A m \in room : m.seq = cursor => Same(m) \/ m.id \in handled

\* All that was handled is behind the cursor, but what was cut short.
LostOnly(U) ==
  /\ twice \subseteq U
  /\ \A m \in room : m.id \in handled \ U => Underway(m) \/ (m.seq <= cursor /\ Settled)
  /\ \A m \in batch : m.id \in handled \ U => Underway(m)
Once == stale \/ \E U \in SUBSET Id : Cardinality(U) <= cut /\ LostOnly(U)

OnceInv == Sane /\ Once
----------------------------------------------------------------------------
(* The inductive invariant of the reading in order. *)

\* A seq between a held one and the last is held.
Ringed == \A m \in room : \A k \in m.seq .. head : k \in Seqs(room)

\* A batch holds all that the room does between two of its messages; one in the handling,
\* all from the cursor on.
Convex == \A a, b \in batch, m \in room :
            a.id = a.seq + Base /\ a.seq <= m.seq /\ m.seq <= b.seq => m \in batch
Covers == \A b \in batch, m \in room :
            b.id = b.seq + Base /\ cursor < m.seq /\ m.seq <= b.seq => m \in batch

\* The cursor counts in this lifetime; or the room has yet to grow back to it.
Placed == cursor <= head /\ \A m \in room : m.seq <= cursor => m.id \in handled
Behind == renumbered /\ Reach # 0 /\ head < Reach

\* A message recorded at the cursor tells the lifetime the cursor counts in.
Anchored == cursor # 0 => /\ epoch # None
                          /\ recorded[cursor] = cursor + Base => Placed \/ blind

\* The position was checked a moment ago, or the poll is past its checks.
Checked == (probed /\ epoch = gen) \/ at \in {"backlog", "handle", "advance"}

Position ==
  /\ Placed \/ renumbered
  /\ FromHere \/ Behind
  /\ Checked => Placed \/ Behind \/ blind
  /\ at = "tail" => Behind \/ \A m \in room : cursor < m.seq
  /\ at = "read" => probed \/ cursor = 0
  /\ at \in {"probe", "export", "tail"} => cursor # 0
  /\ at \in {"export", "tail"} => seen # None
  /\ at \in {"backlog", "handle", "advance"} => epoch # None

InOrder == /\ Ringed /\ Convex
           /\ at \in {"handle", "advance"} => Covers
           /\ Anchored /\ Position

OrderInv == Sane /\ InOrder
----------------------------------------------------------------------------
(* What the helpers return. *)

LEMMA Constants ==
  /\ MaxPosts \in Nat /\ MaxDeletes \in Nat /\ MaxCrashes \in Nat /\ MaxFails \in Nat
  /\ Ring \in Nat /\ Limit \in Nat /\ Ring >= 1 /\ Limit >= 1
  /\ Id \subseteq Nat /\ 0 \notin Id
BY CursorAssumption DEF Id

LEMMA Least ==
  ASSUME NEW S, S \subseteq Id, S # {}
  PROVE  Lowest(S) \in S /\ \A k \in S : Lowest(S) <= k
<1> DEFINE R == OpToRel(<, Nat)
<1>1. S \subseteq Nat
  BY CursorAssumption DEF Id
<1>2. IsWellFoundedOn(R, Nat)
  BY NatLessThanWellFounded
<1>3. PICK n \in S : \A k \in S : ~(<<k, n>> \in R)
  <2> HIDE DEF R
  <2> QED
    BY <1>1, <1>2, WFMin
<1>4. \A k \in S : ~(k < n)
  BY <1>1, <1>3 DEF OpToRel
<1>5. \A k \in S : n <= k
  BY <1>1, <1>4
<1> QED
  BY <1>5 DEF Lowest

\* The oldest message of a batch is the one no other comes before.
LEMMA OldestIsFirst ==
  ASSUME TypeOK, InHand, batch # {}
  PROVE  /\ Oldest \in batch
         /\ \A b \in batch : b # Oldest => Oldest.seq < b.seq
<1>1. Seqs(batch) \subseteq Id /\ Seqs(batch) # {}
  BY DEF TypeOK, Message, Seqs
<1>2. PICK m \in batch : m.seq = Lowest(Seqs(batch))
  BY <1>1, Least DEF Seqs
<1>3. Oldest \in batch /\ Oldest.seq = Lowest(Seqs(batch))
  BY <1>2 DEF Oldest
<1>4. ASSUME NEW b \in batch, b # Oldest PROVE Oldest.seq < b.seq
  <2>1. Oldest.seq <= b.seq
    BY <1>1, <1>3, Least DEF Seqs
  <2>2. b \in [seq : Nat, id : Nat] /\ Oldest \in [seq : Nat, id : Nat]
    <3>1. b \in Message /\ Oldest \in Message
      BY <1>3 DEF TypeOK
    <3>2. Id \subseteq Nat
      BY CursorAssumption DEF Id
    <3> QED
      BY <3>1, <3>2 DEF Message
  <2>3. b.id - b.seq = Oldest.id - Oldest.seq
    BY <1>3 DEF InHand
  <2>4. b.seq # Oldest.seq
    <3> SUFFICES ASSUME b.seq = Oldest.seq PROVE FALSE
      OBVIOUS
    <3>1. b.id = Oldest.id
      BY <2>2, <2>3
    <3> QED
      BY <1>4, <2>2, <3>1
  <2> QED
    BY <2>1, <2>2, <2>4
<1> QED
  BY <1>3, <1>4
----------------------------------------------------------------------------
(* The steps that read. *)

ReadStep == Probe \/ ProbeExport \/ ProbeTail \/ Read \/ Backlog

Unread == {m \in room : cursor < m.seq}

\* A poll starts over only where the room is not the one the cursor counts in; otherwise
\* it goes on, with the batch it had or one read after the cursor.
StartedOver == cursor' = 0 /\ batch' = {} /\ (stale' \/ ~Settled)
WentOn == cursor' = cursor /\ (batch' \in {{}, batch} \/ batch' \subseteq Unread)

LEMMA VerdictSteps ==
  ASSUME Sane, NEW S, S \subseteq room, NEW g \in {gen, seen}, Verdict(S, g),
         at \in {"probe", "export"}, then' = then, safe' = safe
  PROVE  /\ StartedOver \/ WentOn
         /\ at' \in {"idle", "read", "backlog", "handle"}
         /\ at' \in {"idle", "read"} => batch' = {}
         /\ epoch' = g /\ renumbered' \in BOOLEAN
         /\ stale' \in BOOLEAN /\ (stale => stale') /\ blind' \in BOOLEAN
<1> USE DEF Sane, TypeOK, InHand
<1>1. CASE \E m \in AtCursor(S) : ~Same(m)
  <2>1. Restart(g) /\ stale' = (stale \/ \E m \in AtCursor(S) : m.id \in handled)
    BY <1>1 DEF Verdict
  <2>2. stale' \/ ~Settled
    BY <1>1, <2>1 DEF AtCursor, Settled
  <2> QED
    BY <2>1, <2>2 DEF Restart, StartedOver
<1>2. CASE ~\E m \in AtCursor(S) : ~Same(m)
  <2>1. /\ Keep(g) /\ UNCHANGED stale
        /\ blind' = (blind \/ (renumbered /\ AtCursor(S) # {} /\ recorded[cursor] = None))
    BY <1>2 DEF Verdict
  <2> QED
    BY <2>1 DEF Keep, Onward, WentOn
<1> QED
  BY <1>1, <1>2

LEMMA ReadSteps ==
  ASSUME Sane, ReadStep
  PROVE  /\ UNCHANGED <<room, head, gen, bump, posts, deletes, recorded, open, safe, bounds,
                        handled, twice, cut>>
         /\ StartedOver \/ WentOn
         /\ stale' \in BOOLEAN /\ (stale => stale') /\ blind' \in BOOLEAN
         /\ at # "advance"
         /\ at' \in {"idle", "probe", "export", "tail", "read", "backlog", "handle"}
         /\ at' \in {"idle", "read"} => batch' = {}
         /\ then' = "read" /\ at' \in {"probe", "export", "tail"} => batch' = {}
         /\ then' \in {"read", "batch"}
         /\ epoch' \in {epoch, gen, seen} /\ seen' \in {seen, gen}
         /\ probed' \in BOOLEAN /\ renumbered' \in BOOLEAN
<1> USE DEF Sane, TypeOK, InHand, bounds
<1>1. CASE Probe
  <2> DEFINE read == ReadAfter(cursor - 1)
  <2>1. read \subseteq room
    BY DEF ReadAfter
  <2>2. CASE Verdict(read, gen) /\ probed' = TRUE
    <3> HIDE DEF read
    <3>1. /\ at = "probe" /\ then' = then /\ safe' = safe /\ seen' = gen
          /\ UNCHANGED <<room, head, gen, bump, posts, deletes, recorded, open, safe, bounds,
                         handled, twice, cut>>
      BY <1>1 DEF Probe
    <3> QED
      BY <2>1, <2>2, <3>1, VerdictSteps
  <2>3. CASE /\ read = {} /\ LastSeq(cursor - 1) < cursor - 1
             /\ Restart(gen) /\ probed' = TRUE /\ UNCHANGED stale
    <3>1. cursor \in Nat /\ head \in Nat
      BY CursorAssumption
    <3>2. head < cursor
      BY <2>3, <3>1 DEF LastSeq
    <3>3. ~(cursor <= head)
      BY <3>1, <3>2
    <3> QED
      BY <1>1, <2>3, <3>3 DEF Probe, Restart, StartedOver, Settled
  <2>4. CASE /\ at' = IF read = {} THEN "tail" ELSE "export"
             /\ UNCHANGED <<cursor, epoch, batch, probed, renumbered, stale, blind>>
    BY <1>1, <2>4 DEF Probe, WentOn
  <2> QED
    BY <1>1, <2>2, <2>3, <2>4 DEF Probe
<1>2. CASE ProbeExport
  <2>1. /\ at = "export" /\ then' = then /\ safe' = safe /\ seen' = seen /\ probed' = TRUE
        /\ UNCHANGED <<room, head, gen, bump, posts, deletes, recorded, open, safe, bounds,
                       handled, twice, cut>>
        /\ Verdict(room, seen)
    BY <1>2 DEF ProbeExport
  <2> QED
    BY <2>1, VerdictSteps
<1>3. CASE ProbeTail
  <2>1. CASE room # {} /\ head < cursor
    <3>1. ~(cursor <= head)
      BY <2>1, CursorAssumption
    <3> QED
      BY <1>3, <2>1, <3>1 DEF ProbeTail, Restart, StartedOver, Settled
  <2>2. CASE ~(room # {} /\ head < cursor)
    <3>1. Keep(seen) /\ UNCHANGED blind
      BY <1>3, <2>2 DEF ProbeTail
    <3> QED
      BY <1>3, <3>1 DEF ProbeTail, Keep, Onward, WentOn
  <2> QED
    BY <2>1, <2>2
<1>4. CASE Read
  <2> DEFINE read == ReadAfter(cursor)
  <2>1. read \subseteq Unread
    BY DEF ReadAfter, Unread
  <2>2. CASE cursor # 0 /\ read = {} /\ Ends
    <3>1. cursor \in Nat /\ head \in Nat
      BY CursorAssumption
    <3>2. head < cursor
      BY <2>2, <3>1 DEF Ends, LastSeq
    <3>3. ~(cursor <= head)
      BY <3>1, <3>2
    <3>4. Restart(gen) /\ then' = then
      BY <1>4, <2>2 DEF Read
    <3> QED
      BY <1>4, <3>3, <3>4 DEF Read, Restart, StartedOver, Settled
  <2>3. CASE ~(cursor # 0 /\ read = {} /\ Ends) /\ cursor # 0 /\ epoch \notin {None, gen}
    <3> HIDE DEF read
    <3>1. /\ at' = "probe" /\ then' = "batch" /\ batch' = read
          /\ UNCHANGED <<cursor, epoch, renumbered, blind>>
      BY <1>4, <2>3 DEF Read, read
    <3>2. /\ at = "read"
          /\ UNCHANGED <<room, head, gen, bump, posts, deletes, recorded, open, safe, probed,
                         seen, bounds, handled, twice, cut, stale>>
      BY <1>4 DEF Read
    <3> QED
      BY <2>1, <3>1, <3>2 DEF WentOn
  <2>4. CASE ~(cursor # 0 /\ read = {} /\ Ends) /\ (cursor = 0 \/ epoch \in {None, gen})
    <3> HIDE DEF read
    <3>1. /\ epoch' = gen /\ Onward(read) /\ renumbered' = (renumbered /\ cursor # 0)
          /\ UNCHANGED <<cursor, then, blind>>
      BY <1>4, <2>4 DEF Read, read
    <3>2. /\ at = "read"
          /\ UNCHANGED <<room, head, gen, bump, posts, deletes, recorded, open, safe, probed,
                         seen, bounds, handled, twice, cut, stale>>
      BY <1>4 DEF Read
    <3> QED
      BY <2>1, <3>1, <3>2 DEF WentOn, Onward
  <2> QED
    BY <2>2, <2>3, <2>4
<1>5. CASE Backlog
  <2>1. batch' \subseteq Unread
    BY <1>5 DEF Backlog, Page, Unread
  <2> QED
    BY <1>5, <2>1 DEF Backlog, WentOn, ledger, history
<1> QED
  BY <1>1, <1>2, <1>3, <1>4, <1>5 DEF ReadStep
----------------------------------------------------------------------------
(* The room, the ledger and the batch. *)

LEMMA SaneInit == Init => Sane
<1> SUFFICES ASSUME Init PROVE Sane
  OBVIOUS
<1>1. TypeOK
  <2>1. recorded \in [Id -> Id \cup {None}]
    BY DEF Init
  <2>2. epoch = 0 /\ seen = 0 /\ room = {} /\ batch = {} /\ handled = {} /\ twice = {}
    BY DEF Init, None
  <2>3. 0 \in 0 .. MaxPosts /\ 0 \in 0 .. MaxDeletes + 1 /\ 1 \in 1 .. MaxDeletes + 1
        /\ 0 \in 0 .. MaxDeletes /\ 0 \in 0 .. MaxCrashes /\ 0 \in 0 .. MaxFails
    BY Constants
  <2> QED
    BY <2>1, <2>2, <2>3 DEF Init, TypeOK
<1>2. Counts /\ Numbered
  BY Constants DEF Init, Counts, Numbered, None, Id
<1>3. InHand
  BY DEF Init, InHand, FromHere
<1> QED
  BY <1>1, <1>2, <1>3 DEF Sane

LEMMA PostSane == ASSUME Sane, Post PROVE Sane'
<1> USE Constants DEF Sane
<1>1. /\ posts \in Nat /\ head \in Nat /\ head <= posts /\ posts + 1 \in Id
      /\ head + 1 \in Id /\ Base' = Base /\ posts' = posts + 1 /\ head' = head + 1
  BY DEF Post, TypeOK, Counts, Base, Id
<1> DEFINE new == [seq |-> head + 1, id |-> posts + 1]
<1>2. /\ room' = {m \in room : m.seq > head + 1 - Ring} \cup {new}
      /\ UNCHANGED <<gen, bump, renumbered, deletes, ledger, poll, bounds, history>>
  BY DEF Post
<1>3. new \in Message /\ new.seq = head + 1 /\ new.id = posts + 1
  BY <1>1 DEF Message
<1>4. TypeOK'
  <2> HIDE DEF new
  <2> QED
    BY <1>1, <1>2, <1>3 DEF TypeOK, Id, ledger, poll, bounds, history
<1>5. Counts'
  <2>1. handled' \subseteq 1 .. posts' /\ twice' \subseteq handled'
    BY <1>1, <1>2 DEF Counts, history
  <2>2. \A s \in Id : recorded'[s] <= posts'
    <3>1. \A s \in Id : recorded[s] <= posts /\ recorded[s] \in Nat
      <4>1. \A s \in Id : recorded[s] \in Id \cup {0}
        BY DEF TypeOK, None
      <4>2. Id \cup {0} \subseteq Nat
        BY Constants
      <4>3. \A s \in Id : recorded[s] \in Nat
        BY <4>1, <4>2
      <4> QED
        BY <4>3 DEF Counts
    <3> QED
      BY <1>1, <1>2, <3>1 DEF ledger
  <2>3. \A s \in Id : recorded'[s] # None => Recordable(recorded'[s])
    BY <1>2 DEF Counts, ledger
  <2> QED
    BY <1>1, <1>2, <2>1, <2>2, <2>3 DEF Counts, Recordable, None, ledger, poll
<1>6. Numbered'
  <2> SUFFICES ASSUME NEW m \in room' PROVE m.seq <= head' /\ m.id = m.seq + Base'
    BY DEF Numbered
  <2>1. CASE m \in room
    <3>1. m.seq \in Nat /\ m.seq <= head /\ m.id = m.seq + Base
      BY <2>1 DEF Numbered, TypeOK, Message, Id
    <3> QED
      BY <1>1, <3>1
  <2>2. CASE m = new
    BY <1>1, <1>3, <2>2 DEF Base
  <2> QED
    BY <1>2, <2>1, <2>2
<1>7. InHand'
  <2>1. Oldest' = Oldest
    BY <1>2 DEF Oldest, poll
  <2>2. \A b \in batch : b.id \in Nat /\ b.seq \in Nat
    BY DEF TypeOK, Message, Id
  <2> QED
    BY <1>1, <1>2, <2>1, <2>2 DEF InHand, FromHere, FromBefore, ledger, poll, history, TypeOK
<1> QED
  BY <1>4, <1>5, <1>6, <1>7

LEMMA DeleteSane == ASSUME Sane, NEW how \in Renumbers, Delete(how) PROVE Sane'
<1> USE Constants DEF Sane
<1>1. /\ UNCHANGED <<posts, ledger, poll, bounds, history>>
      /\ room' = {} /\ deletes' = deletes + 1 /\ deletes + 1 \in 0 .. MaxDeletes
      /\ head' = IF how = "on" THEN head ELSE 0
      /\ gen' = IF how = "new" THEN gen + 1 ELSE gen
      /\ bump' = (how = "on") /\ ~bump
      /\ renumbered' \in BOOLEAN
  BY DEF Delete, TypeOK
<1>2. how \in {"on", "new", "old"}
  BY CursorAssumption
<1>3. TypeOK'
  BY <1>1, <1>2 DEF TypeOK, Counts, ledger, poll, bounds, history
<1>4. Counts'
  BY <1>1, <1>2 DEF TypeOK, Counts, ledger, poll, bounds, history
<1>5. Numbered'
  BY <1>1 DEF Numbered
<1>6. InHand'
  <2>1. Oldest' = Oldest
    BY <1>1 DEF Oldest, poll
  <2>2. (FromHere \/ FromBefore)'
    <3>1. CASE how = "on"
      <4>1. Base' = Base
        BY <1>1, <3>1 DEF Base
      <4> QED
        BY <1>1, <4>1 DEF InHand, FromHere, FromBefore, poll, history
    <3>2. CASE how # "on"
      <4>1. Base' = posts
        BY <1>1, <3>2 DEF Base, TypeOK
      <4>2. \A b \in batch : b.id <= posts
        BY DEF InHand
      <4>3. \A i \in handled : i <= posts
        BY DEF Counts, TypeOK
      <4> QED
        BY <1>1, <4>1, <4>2, <4>3 DEF FromBefore, poll, history
    <3> QED
      BY <3>1, <3>2
  <2> QED
    BY <1>1, <2>1, <2>2 DEF InHand, ledger, poll, history
<1> QED
  BY <1>3, <1>4, <1>5, <1>6

LEMMA ReadSane == ASSUME Sane, ReadStep PROVE Sane'
<1> USE DEF Sane
<1>1. UNCHANGED <<room, head, gen, bump, posts, deletes, recorded, open, safe, bounds, handled,
                  twice, cut>>
  BY ReadSteps
<1>2. StartedOver \/ WentOn
  BY ReadSteps
<1>3. batch' \subseteq batch \cup Unread
  BY <1>2 DEF StartedOver, WentOn
<1>4. TypeOK'
  <2>1. batch' \subseteq Message /\ cursor' \in 0 .. MaxPosts
    BY <1>2, <1>3, Constants DEF TypeOK, Unread, StartedOver, WentOn
  <2> QED
    BY <1>1, <2>1, ReadSteps, Constants DEF TypeOK, bounds
<1>5. Counts'
  BY <1>1, ReadSteps, Constants DEF TypeOK, Counts, Recordable, None
<1>6. Numbered'
  BY <1>1 DEF Numbered, Base
<1>7. InHand'
  <2>1. CASE batch' = {}
    BY <1>1, <2>1, ReadSteps DEF InHand, FromHere
  <2>2. CASE batch' # {} /\ cursor' = cursor /\ batch' = batch
    BY <1>1, <2>2, ReadSteps DEF InHand, FromHere, FromBefore, Base
  <2>3. CASE cursor' = cursor /\ batch' \subseteq Unread
    <3>1. \A b \in Unread : /\ b \in room /\ cursor < b.seq /\ b.id = b.seq + Base
                            /\ b.seq \in Nat /\ b.seq <= head /\ b.id \in Nat
      BY Constants DEF Unread, Numbered, TypeOK, Message, Id
    <3>2. head \in Nat /\ posts \in Nat /\ Base = posts - head /\ Base' = Base
      BY <1>1, Constants DEF TypeOK, Base
    <3>3. \A b \in Unread : b.id <= posts /\ b.id - b.seq = Base
      BY <3>1, <3>2
    <3>4. FromHere'
      BY <2>3, <3>1, <3>2 DEF FromHere
    <3> QED
      BY <1>1, <2>3, <3>1, <3>3, <3>4, ReadSteps DEF InHand
  <2> QED
    BY <1>2, <2>1, <2>2, <2>3 DEF StartedOver, WentOn
<1> QED
  BY <1>4, <1>5, <1>6, <1>7

LEMMA HandleSane == ASSUME Sane, Handle PROVE Sane'
<1> USE DEF Sane
<1>1. Oldest \in batch /\ Oldest' = Oldest /\ batch' = batch /\ batch # {}
  BY OldestIsFirst DEF Handle, Oldest
<1>2. Oldest.seq \in Id /\ Oldest.id \in Id /\ Oldest.id <= posts
  BY <1>1 DEF TypeOK, Message, InHand
<1>7. /\ UNCHANGED <<upstream, cursor, epoch, open, safe, probed, seen, then, batch, crashes, cut,
                      stale, blind>>
      /\ at' = "advance" /\ handled' = handled \cup {Oldest.id}
      /\ twice' = twice \cup ({Oldest.id} \cap handled)
  BY DEF Handle
<1>8. /\ \/ /\ recorded' = [recorded EXCEPT ![Oldest.seq] = Oldest.id]
            /\ Recordable(Oldest.id)
         \/ recorded' = recorded
      /\ fails' \in 0 .. MaxFails
  BY Constants DEF Handle, TypeOK
<1>3. TypeOK'
  BY <1>1, <1>2, <1>7, <1>8 DEF TypeOK, upstream
<1>4. Counts'
  <2>1. handled' \subseteq 1 .. posts /\ twice' \subseteq handled'
    <3>1. Oldest.id \in 1 .. posts
      BY <1>2, Constants DEF TypeOK, Id
    <3> QED
      BY <3>1 DEF Handle, Counts
  <2>2. \A s \in Id : /\ recorded'[s] <= posts
                      /\ recorded'[s] # None => Recordable(recorded'[s])
    BY <1>2, <1>8 DEF Counts, TypeOK
  <2> QED
    BY <1>7, <2>1, <2>2 DEF Counts, Recordable, None, upstream
<1>5. Numbered'
  BY <1>7 DEF Numbered, Base, upstream
<1>6. InHand'
  <2>1. Oldest'.id \in handled'
    BY <1>1, <1>7
  <2>2. at = "handle" /\ batch # {}
    BY DEF Handle
  <2>3. (FromHere \/ FromBefore)'
    BY <1>1, <1>7, <2>2 DEF Handle, InHand, FromHere, FromBefore, Base, upstream
  <2> QED
    BY <1>1, <1>7, <2>1, <2>2, <2>3 DEF InHand, upstream
<1> QED
  BY <1>3, <1>4, <1>5, <1>6

\* The cursor moves to the message just handled.
LEMMA AdvanceMoves ==
  ASSUME Sane, Advance
  PROVE  /\ Oldest \in batch /\ Oldest \in Message /\ cursor < Oldest.seq
         /\ cursor' = Oldest.seq /\ batch' = batch \ {Oldest} /\ at' = "handle"
         /\ \A b \in batch' : cursor' < b.seq
<1> USE DEF Sane
<1>1. /\ Oldest \in batch
      /\ \A b \in batch : b # Oldest => Oldest.seq < b.seq
  BY OldestIsFirst DEF Advance, InHand
<1>2. cursor < Oldest.seq /\ cursor \in Int /\ Oldest.seq \in Int /\ Oldest \in Message
  BY <1>1, Constants DEF InHand, TypeOK, Message, Id
<1>3. NewCursor = Oldest.seq
  BY <1>2 DEF NewCursor, Highest
<1> QED
  BY <1>1, <1>2, <1>3 DEF Advance

LEMMA AdvanceSane == ASSUME Sane, Advance PROVE Sane'
<1> USE DEF Sane
<1>1. /\ Oldest \in batch /\ Oldest \in Message /\ cursor < Oldest.seq
      /\ cursor' = Oldest.seq /\ batch' = batch \ {Oldest} /\ at' = "handle"
      /\ \A b \in batch' : cursor' < b.seq
  BY AdvanceMoves
<1>2. UNCHANGED <<upstream, epoch, recorded, open, safe, probed, seen, then, bounds, history>>
  BY DEF Advance
<1>3. TypeOK'
  BY <1>1, <1>2, Constants DEF TypeOK, Message, Id, upstream, bounds, history
<1>4. Counts' /\ Numbered'
  BY <1>2 DEF Counts, Numbered, Base, upstream, history
<1>5. InHand'
  BY <1>1, <1>2 DEF InHand, FromHere, FromBefore, Base, upstream, history
<1> QED
  BY <1>3, <1>4, <1>5

\* The steps that leave the room, the cursor and what was handled as they are.
Quiet == StartPoll \/ ProbeDue \/ ProbeRaises \/ EndPoll \/ Fail \/ Crash \/ Gate
         \/ UNCHANGED vars

LEMMA QuietSteps ==
  ASSUME Sane, Quiet
  PROVE  /\ UNCHANGED <<upstream, ledger, handled, twice, stale>>
         /\ cut <= cut' /\ cut' \in Nat
         /\ (blind => blind') /\ blind' \in BOOLEAN
         /\ \/ UNCHANGED <<at, batch>>
            \/ at = "idle" /\ at' \in {"probe", "read"} /\ batch = {} /\ batch' = {}
            \/ at' = "idle" /\ batch' = {} /\ (at # "advance" \/ cut' = cut + 1)
<1>0. /\ cut \in Nat /\ blind \in BOOLEAN /\ renumbered \in BOOLEAN
      /\ at \in {"idle", "read"} => batch = {}
  BY DEF Sane, TypeOK, InHand
<1> USE <1>0 DEF history, PollEnds
<1>1. CASE StartPoll
  BY <1>1 DEF StartPoll
<1>2. CASE ProbeDue
  BY <1>2 DEF ProbeDue
<1>3. CASE EndPoll
  BY <1>3 DEF EndPoll
<1>4. CASE Fail
  BY <1>4 DEF Fail, Concluded
<1>5. CASE Crash
  BY <1>5 DEF Crash
<1>6. CASE Gate
  BY <1>6 DEF Gate
<1>7. CASE UNCHANGED vars
  BY <1>7 DEF vars, poll
<1>8. CASE ProbeRaises
  BY <1>8 DEF ProbeRaises
<1> QED
  BY <1>1, <1>2, <1>3, <1>4, <1>5, <1>6, <1>7, <1>8 DEF Quiet

\* What they do to the rest of the process.
LEMMA QuietRest ==
  ASSUME Sane, Quiet
  PROVE  /\ crashes' \in 0 .. MaxCrashes /\ fails' \in 0 .. MaxFails
         /\ seen' \in {seen, 0} /\ then' \in {"read", "batch"}
         /\ open' \in BOOLEAN /\ safe' \in BOOLEAN /\ probed' \in BOOLEAN
         /\ batch' # {} => then' = then
<1>0. /\ MaxCrashes \in Nat /\ MaxFails \in Nat
      /\ crashes \in 0 .. MaxCrashes /\ fails \in 0 .. MaxFails
      /\ open \in BOOLEAN /\ safe \in BOOLEAN /\ probed \in BOOLEAN
      /\ then \in {"read", "batch"}
      /\ at = "idle" => batch = {}
  BY Constants DEF Sane, TypeOK, InHand
<1> USE <1>0 DEF None, bounds, PollEnds
<1>1. CASE StartPoll
  BY <1>1 DEF StartPoll
<1>2. CASE ProbeDue
  BY <1>2 DEF ProbeDue
<1>3. CASE EndPoll
  BY <1>3 DEF EndPoll
<1>4. CASE Fail
  <2>1. /\ fails < MaxFails /\ fails' = fails + 1 /\ batch' = {}
        /\ UNCHANGED <<open, safe, seen, then, crashes>>
        /\ probed' = probed \/ probed' = TRUE
    BY <1>4 DEF Fail
  <2>2. fails' \in 0 .. MaxFails
    BY <2>1
  <2> QED
    BY <2>1, <2>2
<1>5. CASE Crash
  <2>1. /\ crashes < MaxCrashes /\ crashes' = crashes + 1 /\ batch' = {}
        /\ UNCHANGED <<open, safe, then, fails>> /\ probed' = FALSE /\ seen' = 0
    BY <1>5 DEF Crash
  <2>2. crashes' \in 0 .. MaxCrashes
    BY <2>1
  <2> QED
    BY <2>1, <2>2
<1>6. CASE Gate
  BY <1>6 DEF Gate
<1>7. CASE UNCHANGED vars
  BY <1>7 DEF vars, poll
<1>8. CASE ProbeRaises
  BY <1>8 DEF ProbeRaises
<1> QED
  BY <1>1, <1>2, <1>3, <1>4, <1>5, <1>6, <1>7, <1>8 DEF Quiet

LEMMA QuietSane == ASSUME Sane, Quiet PROVE Sane'
<1> USE DEF Sane
<1>1. UNCHANGED <<upstream, ledger, handled, twice, stale>>
  BY QuietSteps
<1>2. TypeOK'
  <2>1. /\ crashes' \in 0 .. MaxCrashes /\ batch' \subseteq Message
        /\ at' \in {"idle", "probe", "export", "tail", "read", "backlog", "handle", "advance"}
        /\ cut' \in Nat /\ blind' \in BOOLEAN
    BY QuietSteps, QuietRest DEF TypeOK
  <2>2. seen' \in 0 .. MaxDeletes + 1
    BY QuietRest, Constants DEF TypeOK
  <2> QED
    BY <1>1, <2>1, <2>2, QuietRest DEF TypeOK, upstream, ledger
<1>3. Counts'
  <2>1. seen' \in {seen, 0} /\ gen \in Nat
    BY QuietRest, Constants DEF TypeOK
  <2> QED
    BY <1>1, <2>1 DEF Counts, Recordable, None, upstream, ledger
<1>4. Numbered'
  BY <1>1 DEF Numbered, Base, upstream
<1>5. InHand'
  <2>1. CASE batch' = {}
    <3>1. at' # "advance"
      BY <2>1, QuietSteps DEF InHand
    <3> QED
      BY <2>1, <3>1 DEF InHand, FromHere
  <2>2. CASE batch' # {}
    <3>1. UNCHANGED <<at, batch>> /\ then' = then
      BY <2>2, QuietSteps, QuietRest
    <3> QED
      BY <1>1, <3>1 DEF InHand, FromHere, FromBefore, Base, Oldest, upstream, ledger
  <2> QED
    BY <2>1, <2>2
<1> QED
  BY <1>2, <1>3, <1>4, <1>5

LEMMA BumpSane == ASSUME Sane, Bump PROVE Sane'
<1> USE DEF Sane
<1>1. /\ UNCHANGED <<room, head, posts, renumbered, deletes, ledger, poll, bounds, history>>
      /\ gen' = gen + 1 /\ bump /\ bump' = FALSE
  BY DEF Bump
<1>2. gen' \in 1 .. MaxDeletes + 1 /\ gen' + (IF bump' THEN 1 ELSE 0) <= deletes + 1
  BY <1>1, Constants DEF TypeOK, Counts
<1>4. TypeOK'
  BY <1>1, <1>2 DEF TypeOK, ledger, poll, bounds, history
<1>5. Counts'
  BY <1>1, <1>2, Constants DEF TypeOK, Counts, Recordable, None, ledger, poll, history
<1>3. Numbered' /\ InHand'
  BY <1>1 DEF Numbered, InHand, FromHere, FromBefore, Base, Oldest, ledger, poll, history
<1> QED
  BY <1>3, <1>4, <1>5

LEMMA Cases ==
  ASSUME [Next]_vars
  PROVE  \/ Post \/ Bump \/ \E how \in Renumbers : Delete(how)
         \/ ReadStep \/ Handle \/ Advance \/ Quiet
BY DEF Next, PollStep, ReadStep, Quiet

LEMMA SaneStep == Sane /\ [Next]_vars => Sane'
BY PostSane, BumpSane, DeleteSane, ReadSane, HandleSane, AdvanceSane, QuietSane, Cases

\* The type invariant, for any messages and bounds.
THEOREM Typing == Spec => []TypeOK
<1>1. Sane => TypeOK
  BY DEF Sane
<1> QED
  BY <1>1, SaneInit, SaneStep, PTL DEF Spec
----------------------------------------------------------------------------
(* Nothing is handled twice but what was cut short. *)

LEMMA OnceInit == Init => Once
<1> SUFFICES ASSUME Init PROVE Once
  OBVIOUS
<1>1. LostOnly({})
  BY DEF Init, LostOnly
<1>2. Cardinality({}) <= cut
  BY FS_EmptySet DEF Init
<1> QED
  BY <1>1, <1>2 DEF Once

LEMMA PostLost ==
  ASSUME Sane, NEW U \in SUBSET Id, LostOnly(U), Post PROVE LostOnly(U)'
<1> USE DEF Sane
<1>1. /\ UNCHANGED <<gen, bump, renumbered, deletes, ledger, poll, bounds, history>>
      /\ head' = head + 1 /\ posts' = posts + 1
      /\ \A m \in room' : m \in room \/ m = [seq |-> head + 1, id |-> posts + 1]
  BY DEF Post
<1>2. head \in Nat /\ posts \in Nat /\ cursor \in Nat /\ handled \subseteq 1 .. posts
  BY Constants DEF TypeOK, Counts
<1>3. ASSUME NEW m \in room', m.id \in handled' \ U
      PROVE  Underway(m)' \/ (m.seq <= cursor' /\ Settled')
  <2>1. m.id \in handled \ U
    BY <1>1, <1>3 DEF history
  <2>2. m \in room
    <3>1. m.id \in 1 .. posts
      BY <1>2, <2>1
    <3>2. m # [seq |-> head + 1, id |-> posts + 1]
      BY <1>2, <3>1
    <3> QED
      BY <1>1, <3>2
  <2>3. CASE Underway(m)
    BY <1>1, <2>3 DEF Underway, Oldest, poll
  <2>4. CASE m.seq <= cursor /\ Settled
    <3>1. cursor' <= head'
      BY <1>1, <1>2, <2>4 DEF Settled, ledger
    <3>2. ASSUME NEW k \in room', k.seq = cursor PROVE k \in room
      BY <1>1, <1>2, <2>4, <3>2 DEF Settled
    <3>3. \A k \in room' : k.seq = cursor' => Same(k)' \/ k.id \in handled'
      BY <1>1, <2>4, <3>2 DEF Settled, Same, None, ledger, history
    <3> QED
      BY <1>1, <2>4, <3>1, <3>3 DEF Settled, ledger
  <2> QED
    BY <2>1, <2>2, <2>3, <2>4 DEF LostOnly
<1>4. \A m \in batch' : m.id \in handled' \ U => Underway(m)'
  BY <1>1 DEF LostOnly, Underway, Oldest, poll, history
<1> QED
  BY <1>1, <1>3, <1>4 DEF LostOnly, history

LEMMA ReadLost ==
  ASSUME Sane, NEW U \in SUBSET Id, LostOnly(U), ReadStep PROVE stale' \/ LostOnly(U)'
<1> USE DEF Sane
<1>1. /\ UNCHANGED <<room, head, recorded, handled, twice>> /\ at # "advance"
      /\ StartedOver \/ WentOn
  BY ReadSteps
<1>2. \A m \in room : m.id \in handled \ U => m.seq <= cursor /\ Settled
  BY <1>1 DEF LostOnly, Underway
<1>3. ASSUME NEW m \in Unread PROVE m.id \notin handled \ U
  <2>1. m \in room /\ cursor < m.seq /\ m.seq \in Nat /\ cursor \in Nat
    BY Constants DEF Unread, TypeOK, Message, Id
  <2> QED
    BY <1>2, <2>1
<1>4. \A m \in batch : m.id \notin handled \ U
  BY <1>1 DEF LostOnly, Underway
<1>5. CASE StartedOver /\ ~stale'
  <2>1. \A m \in room : m.id \notin handled \ U
    BY <1>2, <1>5 DEF StartedOver
  <2> QED
    BY <1>1, <1>5, <2>1 DEF LostOnly, StartedOver
<1>6. CASE WentOn
  <2>1. \A m \in batch' : m.id \notin handled \ U
    BY <1>3, <1>4, <1>6 DEF WentOn
  <2>2. Settled => Settled'
    BY <1>1, <1>6 DEF WentOn, Settled, Same, None
  <2> QED
    BY <1>1, <1>2, <1>6, <2>1, <2>2 DEF LostOnly, WentOn
<1> QED
  BY <1>1, <1>5, <1>6

LEMMA HandleLost ==
  ASSUME Sane, NEW U \in SUBSET Id, LostOnly(U), Handle PROVE LostOnly(U)'
<1> USE DEF Sane
<1>1. Oldest \in batch /\ Oldest' = Oldest /\ batch # {} /\ at = "handle"
  BY OldestIsFirst DEF Handle, Oldest
<1>2. /\ UNCHANGED <<upstream, cursor, batch>> /\ at' = "advance"
      /\ handled' = handled \cup {Oldest.id}
      /\ twice' = twice \cup ({Oldest.id} \cap handled)
      /\ \A s \in Id : s # Oldest.seq => recorded'[s] = recorded[s]
  BY DEF Handle, TypeOK
<1>3. \A m \in room : m \in Message /\ m.seq \in Nat /\ m.id \in Nat
  BY Constants DEF TypeOK, Message
<1>4. /\ Oldest \in Message /\ Oldest.seq \in Id /\ Oldest.seq \in Nat /\ Oldest.id \in Nat
      /\ cursor < Oldest.seq /\ cursor \in Nat
  <2>1. Oldest \in Message /\ cursor < Oldest.seq
    BY <1>1 DEF TypeOK, InHand
  <2>2. Oldest.seq \in Id /\ Oldest.id \in Id
    BY <2>1 DEF Message
  <2> QED
    BY <2>1, <2>2, Constants DEF TypeOK, Id
<1>5. \A m \in batch : m.id \notin handled \ U
  BY <1>1 DEF LostOnly, Underway
<1>6. twice' \subseteq U
  BY <1>1, <1>2, <1>5 DEF LostOnly
<1>7. ASSUME NEW m \in batch, m.id = Oldest.id PROVE m = Oldest
  <2>1. m.id - m.seq = Oldest.id - Oldest.seq
    BY <1>1 DEF InHand
  <2>2. m \in Message /\ m.seq \in Nat
    BY Constants DEF TypeOK, Message
  <2>3. m.seq = Oldest.seq
    BY <1>4, <1>7, <2>1, <2>2
  <2> QED
    BY <1>4, <1>7, <2>2, <2>3 DEF Message
<1>8. \A m \in batch' : m.id \in handled' \ U => Underway(m)'
  BY <1>1, <1>2, <1>5, <1>7 DEF Underway
<1>9. ASSUME NEW m \in room, m.id = Oldest.id PROVE m = Oldest
  <2>1. Base \in Int /\ m.id = m.seq + Base /\ m.seq >= 1
    BY Constants DEF Numbered, Base, TypeOK, Message, Id
  <2>2. ~(Oldest.id <= Base)
    BY <1>3, <1>9, <2>1
  <2>3. Oldest.id = Oldest.seq + Base
    BY <1>1, <2>2 DEF InHand, FromHere, FromBefore
  <2>4. m.seq = Oldest.seq
    <3>1. m.seq \in Nat /\ Oldest.seq \in Nat /\ m.seq + Base = Oldest.seq + Base
      BY <1>3, <1>4, <1>9, <2>1, <2>3
    <3> QED
      BY <2>1, <3>1
  <2> QED
    BY <1>3, <1>4, <1>9, <2>4 DEF Message
<1>10. ASSUME NEW m \in room', m.id \in handled' \ U
       PROVE  Underway(m)' \/ (m.seq <= cursor' /\ Settled')
  <2>1. m \in room
    BY <1>2 DEF upstream
  <2>2. CASE m.id = Oldest.id
    BY <1>1, <1>2, <1>9, <2>1, <2>2 DEF Underway
  <2>3. CASE m.id \in handled \ U
    <3>1. m.seq <= cursor /\ Settled
      BY <1>1, <2>1, <2>3 DEF LostOnly, Underway
    <3>2. ASSUME NEW k \in room, k.seq = cursor PROVE Same(k)' \/ k.id \in handled'
      <4>1. (Same(k) \/ k.id \in handled) /\ k.seq # Oldest.seq /\ k.seq \in Id
        BY <1>4, <3>1, <3>2 DEF Settled, TypeOK, Message
      <4>2. recorded'[k.seq] = recorded[k.seq]
        BY <1>2, <4>1
      <4> QED
        BY <1>2, <4>1, <4>2 DEF Same, None
    <3>3. Settled'
      BY <1>2, <3>1, <3>2 DEF Settled, upstream
    <3> QED
      BY <1>2, <3>1, <3>3
  <2> QED
    BY <1>2, <1>10, <2>2, <2>3
<1> QED
  BY <1>6, <1>8, <1>10 DEF LostOnly

LEMMA AdvanceLost ==
  ASSUME Sane, NEW U \in SUBSET Id, LostOnly(U), Advance PROVE LostOnly(U)'
<1> USE DEF Sane
<1>1. /\ Oldest \in batch /\ Oldest \in Message /\ cursor < Oldest.seq
      /\ cursor' = Oldest.seq /\ batch' = batch \ {Oldest} /\ at' = "handle"
  BY AdvanceMoves
<1>2. /\ UNCHANGED <<upstream, recorded, handled, twice>> /\ at = "advance"
      /\ Oldest.id \in handled
  BY DEF Advance, InHand, history
<1>3. \A m \in batch' : m.id \notin handled' \ U
  BY <1>1, <1>2 DEF LostOnly, Underway
<1>4. ASSUME NEW m \in room, m.id \in handled \ U PROVE m.seq <= cursor' /\ Settled'
  <2>1. /\ Base \in Int /\ m.id = m.seq + Base /\ m.seq >= 1 /\ m.seq \in Nat /\ m.id \in Nat
        /\ Oldest.seq \in Nat /\ Oldest.id \in Nat /\ cursor \in Nat
        /\ head \in Nat /\ posts \in Nat /\ Base = posts - head
    BY <1>1, Constants DEF Numbered, Base, TypeOK, Message, Id
  <2>2. m.seq <= cursor'
    BY <1>1, <1>4, <2>1 DEF LostOnly, Underway
  <2>3. ~FromBefore
    BY <1>4, <2>1 DEF FromBefore
  <2>4. Oldest.id = Oldest.seq + Base /\ Oldest.id <= posts
    BY <1>1, <2>3 DEF InHand, FromHere
  <2>5. cursor' <= head
    BY <1>1, <2>1, <2>4
  <2>6. ASSUME NEW k \in room, k.seq = Oldest.seq PROVE k.id \in handled'
    <3>1. k.id = Oldest.id
      BY <2>4, <2>6 DEF Numbered
    <3> QED
      BY <1>2, <3>1
  <2>7. Settled'
    BY <1>1, <1>2, <2>5, <2>6 DEF Settled, upstream
  <2> QED
    BY <2>2, <2>7
<1> QED
  BY <1>2, <1>3, <1>4 DEF LostOnly, upstream

LEMMA OnceStep == OnceInv /\ [Next]_vars => Once'
<1> SUFFICES ASSUME Sane, Once, [Next]_vars, ~stale' PROVE Once'
  BY DEF OnceInv, Once
<1>0. ~stale
  <2>1. stale => stale'
    BY ReadSteps, QuietSteps, Cases DEF Post, Bump, Delete, Handle, Advance, history
  <2> QED
    BY <2>1
<1>1. PICK U \in SUBSET Id : Cardinality(U) <= cut /\ LostOnly(U)
  BY <1>0 DEF Once
<1>2. IsFiniteSet(U) /\ Cardinality(U) \in Nat /\ cut \in Nat
  <2>1. IsFiniteSet(Id)
    BY Constants, FS_Interval DEF Id
  <2> QED
    BY <2>1, FS_Subset, FS_CardinalityType DEF Sane, TypeOK
<1>3. ASSUME LostOnly(U)', cut' = cut PROVE Once'
  BY <1>1, <1>3 DEF Once
<1>4. CASE Post
  BY <1>1, <1>3, <1>4, PostLost DEF Post, history
<1>5. CASE Bump
  BY <1>1, <1>3, <1>5
     DEF Bump, LostOnly, Underway, Oldest, Settled, Same, None, ledger, poll, history
<1>6. CASE \E how \in Renumbers : Delete(how)
  <2>1. LostOnly(U)' /\ cut' = cut
    BY <1>1, <1>6 DEF Delete, LostOnly, Underway, Oldest, poll, history
  <2> QED
    BY <1>3, <2>1
<1>7. CASE ReadStep
  BY <1>1, <1>3, <1>7, ReadLost, ReadSteps
<1>8. CASE Handle
  BY <1>1, <1>3, <1>8, HandleLost DEF Handle
<1>9. CASE Advance
  BY <1>1, <1>3, <1>9, AdvanceLost DEF Advance, history
<1>10. CASE Quiet
  <2>1. /\ UNCHANGED <<upstream, ledger, handled, twice>> /\ cut <= cut' /\ cut' \in Nat
    BY <1>10, QuietSteps
  <2>2. Settled => Settled'
    BY <2>1 DEF Settled, Same, None, upstream, ledger
  <2>3. ASSUME LostOnly(U)' PROVE Once'
    <3>1. Cardinality(U) <= cut'
      BY <1>1, <1>2, <2>1
    <3> QED
      BY <2>3, <3>1 DEF Once
  <2>4. CASE UNCHANGED <<at, batch>>
    <3>1. LostOnly(U)'
      BY <1>1, <2>1, <2>2, <2>4 DEF LostOnly, Underway, Oldest, upstream, ledger
    <3> QED
      BY <2>3, <3>1
  <2>5. CASE batch' = {} /\ at # "advance"
    <3>1. LostOnly(U)'
      BY <1>1, <2>1, <2>2, <2>5 DEF LostOnly, Underway, upstream, ledger
    <3> QED
      BY <2>3, <3>1
  <2>6. CASE batch' = {} /\ at = "advance" /\ at' = "idle" /\ cut' = cut + 1
    <3>1. PICK o \in Id : o = Oldest.id
      BY <2>6, OldestIsFirst DEF Sane, InHand, TypeOK, Message
    <3> DEFINE W == U \cup {o}
    <3>2. Cardinality(W) <= cut'
      <4>1. Cardinality(W) = IF o \in U THEN Cardinality(U) ELSE Cardinality(U) + 1
        BY <1>2, FS_AddElement
      <4> QED
        BY <1>1, <1>2, <2>1, <2>6, <4>1
    <3>3. LostOnly(W)'
      <4>1. twice' \subseteq W
        BY <1>1, <2>1 DEF LostOnly
      <4>2. ASSUME NEW m \in room', m.id \in handled' \ W
            PROVE  m.seq <= cursor' /\ Settled'
        <5>1. m \in room /\ m.id \in handled \ U /\ m # Oldest
          BY <2>1, <3>1, <4>2 DEF upstream
        <5> QED
          BY <1>1, <2>1, <2>2, <5>1 DEF LostOnly, Underway, ledger
      <4> HIDE DEF W
      <4> QED
        BY <2>6, <4>1, <4>2 DEF LostOnly
    <3>4. W \in SUBSET Id
      BY <3>1
    <3> HIDE DEF W
    <3> QED
      BY <3>2, <3>3, <3>4 DEF Once
  <2> QED
    BY <1>10, <2>4, <2>5, <2>6, QuietSteps
<1> QED
  BY <1>4, <1>5, <1>6, <1>7, <1>8, <1>9, <1>10, Cases

\* No more messages are handled twice than were cut short between their handling and their
\* cursor: of any number, whatever they say, whether they leave a record or not, however the
\* room is deleted and renumbered and however it grows meanwhile - until a check compares a
\* line that left no record with the one of an earlier lifetime.
THEOREM OnceButForCuts == Spec => []HandledOnce
<1>1. Init => OnceInv
  BY SaneInit, OnceInit DEF OnceInv
<1>2. OnceInv /\ [Next]_vars => OnceInv'
  BY SaneStep, OnceStep DEF OnceInv
<1>3. OnceInv => HandledOnce
  <2> SUFFICES ASSUME Sane, Once, ~stale PROVE HandledOnce
    BY DEF OnceInv, HandledOnce
  <2>1. PICK U \in SUBSET Id : Cardinality(U) <= cut /\ LostOnly(U)
    BY DEF Once
  <2>2. IsFiniteSet(Id)
    BY Constants, FS_Interval DEF Id
  <2>3. IsFiniteSet(U) /\ twice \subseteq U
    BY <2>1, <2>2, FS_Subset DEF LostOnly
  <2>4. Cardinality(twice) <= Cardinality(U) /\ IsFiniteSet(twice)
    BY <2>3, FS_Subset
  <2>5. Cardinality(twice) \in Nat /\ Cardinality(U) \in Nat /\ cut \in Nat
    BY <2>3, <2>4, FS_CardinalityType DEF Sane, TypeOK
  <2> QED
    BY <2>1, <2>4, <2>5 DEF HandledOnce
<1> QED
  BY <1>1, <1>2, <1>3, PTL DEF Spec
----------------------------------------------------------------------------
(* A room is read in order: the shape of a batch. *)

\* What is read after a cursor, or in a page, is a stretch of the room.
Stretch(B) == \A a, b \in B, m \in room : a.seq <= m.seq /\ m.seq <= b.seq => m \in B

LEMMA Numbers ==
  ASSUME Sane
  PROVE  /\ head \in Nat /\ posts \in Nat /\ cursor \in Nat /\ Base \in Int /\ head <= posts
         /\ Base = posts - head
         /\ \A m \in room : /\ m \in Message /\ m.seq \in Nat /\ m.id \in Nat /\ m.seq >= 1
                            /\ m.seq <= head /\ m.id = m.seq + Base
         /\ \A b \in batch : /\ b \in Message /\ b.seq \in Nat /\ b.id \in Nat /\ b.seq >= 1
                             /\ cursor < b.seq /\ b.id <= posts
<1>1. head \in Nat /\ posts \in Nat /\ cursor \in Nat /\ head <= posts
  BY Constants DEF Sane, TypeOK, Counts
<1>2. \A m \in Message : m.seq \in Nat /\ m.id \in Nat /\ m.seq >= 1
  BY Constants DEF Message, Id
<1>3. \A m \in room : m \in Message /\ m.seq <= head /\ m.id = m.seq + Base
  BY DEF Sane, TypeOK, Numbered
<1>4. \A b \in batch : b \in Message /\ cursor < b.seq /\ b.id <= posts
  BY DEF Sane, TypeOK, InHand
<1> QED
  BY <1>1, <1>2, <1>3, <1>4 DEF Base

LEMMA ReadIsStretch == ASSUME Sane PROVE Stretch(ReadAfter(cursor))
<1> SUFFICES ASSUME NEW a \in ReadAfter(cursor), NEW m \in room, a.seq <= m.seq
             PROVE  m \in ReadAfter(cursor)
  BY DEF Stretch
<1>1. a.seq \in Nat /\ m.seq \in Nat /\ head \in Nat /\ cursor \in Nat
  BY Numbers DEF ReadAfter
<1> QED
  BY <1>1, Constants DEF ReadAfter

LEMMA PageIsStart ==
  ASSUME Sane, NEW S, S \subseteq room, NEW b \in Page(S), NEW m \in S, m.seq <= b.seq
  PROVE  m \in Page(S)
<1> DEFINE Before(x) == {k \in S : k.seq < x.seq}
<1>1. IsFiniteSet(S)
  <2>1. IsFiniteSet(Id)
    BY Constants, FS_Interval DEF Id
  <2>2. IsFiniteSet(Id \X Id)
    BY <2>1, FS_Product
  <2> DEFINE f == [k \in S |-> <<k.seq, k.id>>]
  <2>3. f \in Injection(S, Id \X Id)
    BY Numbers DEF Injection, IsInjective, Message
  <2> QED
    BY <2>2, <2>3, FS_Injection
<1>2. b \in S /\ Cardinality(Before(b)) < Limit
  BY DEF Page
<1>3. Before(m) \subseteq Before(b) /\ Before(b) \subseteq S
  BY <1>2, Numbers
<1>4. IsFiniteSet(Before(b)) /\ IsFiniteSet(Before(m))
  BY <1>1, <1>3, FS_Subset
<1>5. Cardinality(Before(m)) <= Cardinality(Before(b))
  BY <1>3, <1>4, FS_Subset
<1>6. Cardinality(Before(m)) \in Nat /\ Cardinality(Before(b)) \in Nat
  BY <1>4, FS_CardinalityType
<1>7. Cardinality(Before(m)) < Limit
  BY <1>2, <1>5, <1>6, Constants
<1> QED
  BY <1>7 DEF Page

LEMMA RingedInit == Init => Ringed /\ Convex /\ (at \in {"handle", "advance"} => Covers)
BY DEF Init, Ringed, Convex

LEMMA PostRinged == ASSUME Sane, Ringed, Post PROVE Ringed'
<1> DEFINE new == [seq |-> head + 1, id |-> posts + 1]
<1>1. /\ room' = {m \in room : m.seq > head + 1 - Ring} \cup {new} /\ head' = head + 1
      /\ head \in Nat
  BY Numbers DEF Post
<1> SUFFICES ASSUME NEW m \in room', NEW k \in m.seq .. head' PROVE k \in Seqs(room')
  BY DEF Ringed, Seqs
<1>2. CASE k = head + 1
  <2>1. new \in room' /\ new.seq = k
    BY <1>1, <1>2
  <2> QED
    BY <2>1 DEF Seqs
<1>3. CASE k # head + 1
  <2>1. m \in room /\ m.seq > head + 1 - Ring /\ m.seq \in Nat
    <3>1. m # new
      <4> SUFFICES ASSUME m = new PROVE FALSE
        OBVIOUS
      <4>1. m.seq = head + 1
        OBVIOUS
      <4> QED
        BY <1>1, <1>3, <4>1
    <3> QED
      BY <1>1, <3>1, Numbers
  <2>2. k \in m.seq .. head /\ k > head + 1 - Ring
    BY <1>1, <1>3, <2>1, Constants
  <2>3. PICK n \in room : n.seq = k
    BY <2>1, <2>2 DEF Ringed, Seqs
  <2>4. n \in room'
    BY <1>1, <2>2, <2>3
  <2> QED
    BY <2>3, <2>4 DEF Seqs
<1> QED
  BY <1>2, <1>3

LEMMA RingedStep == ASSUME Sane, Ringed, [Next]_vars PROVE Ringed'
<1>1. CASE Post
  BY <1>1, PostRinged
<1>2. CASE \E how \in Renumbers : Delete(how)
  BY <1>2 DEF Delete, Ringed
<1>3. CASE Bump \/ ReadStep \/ Handle \/ Advance \/ Quiet
  <2>1. UNCHANGED <<room, head>>
    BY <1>3, ReadSteps, QuietSteps DEF Bump, Handle, Advance, upstream
  <2> QED
    BY <2>1 DEF Ringed, Seqs
<1> QED
  BY <1>1, <1>2, <1>3, Cases

\* Nothing arrives in the middle of a batch of this lifetime, and a deletion that renumbers
\* the room makes the batch one of a lifetime that is over.
LEMMA ArrivesOutside ==
  ASSUME Sane, Post \/ (\E how \in Renumbers : Delete(how)),
         NEW b \in batch, (b.id = b.seq + Base)', NEW m \in room', m.seq <= b.seq
  PROVE  m \in room /\ b.id = b.seq + Base
<1>1. CASE Post
  <2>1. /\ head' = head + 1 /\ posts' = posts + 1
        /\ m \in room \/ m.seq = head + 1
    BY <1>1 DEF Post
  <2>2. Base' = Base
    BY <2>1, Numbers DEF Base
  <2>3. b.seq <= head
    BY <2>2, Numbers
  <2> QED
    BY <2>1, <2>2, <2>3, Numbers
<1>2. CASE \E how \in Renumbers : Delete(how)
  BY <1>2 DEF Delete
<1> QED
  BY <1>1, <1>2

\* What the steps that read leave in the batch.
LEMMA Batches ==
  ASSUME Sane, ReadStep
  PROVE  \/ batch' \in {{}, batch, ReadAfter(cursor)}
         \/ batch' = Page(Unread)
BY DEF ReadStep, Probe, ProbeExport, ProbeTail, Read, Backlog, Verdict, Restart, Keep, Onward,
       Unread

LEMMA UnreadIsHere ==
  ASSUME Sane, NEW B, B = ReadAfter(cursor) \/ B = Page(Unread)
  PROVE  /\ B \subseteq Unread /\ Stretch(B)
         /\ \A b \in B : b.id = b.seq + Base
<1>1. B \subseteq Unread /\ Unread \subseteq room
  BY DEF ReadAfter, Page, Unread
<1>2. CASE B = ReadAfter(cursor)
  BY <1>1, <1>2, ReadIsStretch, Numbers
<1>3. CASE B = Page(Unread)
  <2> SUFFICES ASSUME NEW a \in B, NEW b \in B, NEW m \in room, a.seq <= m.seq, m.seq <= b.seq
               PROVE  m \in B
    BY <1>1, Numbers DEF Stretch
  <2>1. m \in Unread
    BY <1>1, Numbers DEF Unread
  <2> QED
    BY <1>1, <1>3, <2>1, PageIsStart
<1> QED
  BY <1>2, <1>3

LEMMA ConvexStep == ASSUME Sane, Convex, [Next]_vars PROVE Convex'
<1>1. CASE Post \/ \E how \in Renumbers : Delete(how)
  <2>1. batch' = batch
    BY <1>1 DEF Post, Delete, poll
  <2> SUFFICES ASSUME NEW a \in batch, NEW b \in batch, NEW m \in room',
                      (a.id = a.seq + Base)', a.seq <= m.seq, m.seq <= b.seq
               PROVE  m \in batch
    BY <2>1 DEF Convex
  <2>2. (b.id = b.seq + Base)'
    <3>1. b.id - b.seq = a.id - a.seq
      BY DEF Sane, InHand
    <3>2. Base' \in Int
      <4>1. posts' \in Nat /\ head' \in Nat
        BY <1>1, Numbers DEF Post, Delete
      <4> QED
        BY <4>1 DEF Base
    <3> QED
      BY <3>1, <3>2, Numbers
  <2>3. m \in room /\ b.id = b.seq + Base
    BY <1>1, <2>2, ArrivesOutside
  <2>4. a.id = a.seq + Base
    BY <2>3, Numbers DEF Sane, InHand
  <2> QED
    BY <2>3, <2>4 DEF Convex
<1>2. CASE ReadStep
  <2>1. UNCHANGED <<room, head, posts>> /\ Base' = Base
    BY <1>2, ReadSteps DEF Base
  <2>2. CASE batch' \in {{}, batch}
    BY <2>1, <2>2 DEF Convex
  <2>3. CASE batch' = ReadAfter(cursor) \/ batch' = Page(Unread)
    <3>1. Stretch(batch')
      BY <2>3, UnreadIsHere
    <3> QED
      BY <2>1, <3>1 DEF Stretch, Convex
  <2> QED
    BY <1>2, <2>2, <2>3, Batches
<1>3. CASE Advance
  <2>1. UNCHANGED <<room, head, posts>> /\ Base' = Base /\ batch' = batch \ {Oldest}
    BY <1>3 DEF Advance, upstream, Base
  <2>2. Oldest \in batch /\ \A b \in batch' : Oldest.seq < b.seq
    BY <1>3, <2>1, AdvanceMoves
  <2> SUFFICES ASSUME NEW a \in batch', NEW b \in batch', NEW m \in room,
                      a.id = a.seq + Base, a.seq <= m.seq, m.seq <= b.seq
               PROVE  m \in batch'
    BY <2>1 DEF Convex
  <2>3. m \in batch
    BY <2>1 DEF Convex
  <2>4. m # Oldest
    BY <2>1, <2>2, Numbers
  <2> QED
    BY <2>1, <2>3, <2>4
<1>4. CASE Bump \/ Handle \/ Quiet
  <2>1. UNCHANGED <<room, head, posts>> /\ batch' \in {batch, {}}
    BY <1>4, QuietSteps DEF Bump, Handle, upstream, poll
  <2> QED
    BY <2>1 DEF Convex, Base
<1> QED
  BY <1>1, <1>2, <1>3, <1>4, Cases
----------------------------------------------------------------------------
\* A batch taken up without a gap covers the room from the cursor on.
LEMMA OnwardCovers ==
  ASSUME Sane, NEW B, B \subseteq Message, Stretch(B),
         \A a, b \in B : cursor < a.seq /\ a.id - a.seq = b.id - b.seq,
         B # {} => ~(Lowest(Seqs(B)) > cursor + 1)
  PROVE  \A b \in B, m \in room : cursor < m.seq /\ m.seq <= b.seq => m \in B
<1> SUFFICES ASSUME NEW b \in B, NEW m \in room, cursor < m.seq, m.seq <= b.seq
             PROVE  m \in B
  OBVIOUS
<1>1. Seqs(B) \subseteq Id /\ Seqs(B) # {}
  BY DEF Seqs, Message
<1>2. PICK a \in B : a.seq = Lowest(Seqs(B))
  BY <1>1, Least DEF Seqs
<1>3. a.seq \in Nat /\ cursor < a.seq /\ ~(a.seq > cursor + 1)
  <2>1. a.seq \in Id
    BY DEF Message
  <2> QED
    BY <1>2, <2>1, Constants
<1>4. a.seq <= m.seq
  BY <1>3, Numbers
<1> QED
  BY <1>4 DEF Stretch

LEMMA HandsOver ==
  ASSUME Sane, ReadStep, at' = "handle"
  PROVE  /\ cursor' = cursor
         /\ \/ batch' = Page(Unread)
            \/ /\ batch' \in {batch, ReadAfter(cursor)}
               /\ batch' # {} => ~(Lowest(Seqs(batch')) > cursor + 1)
<1>1. ASSUME NEW B, Onward(B)
      PROVE  batch' = B /\ (B # {} => ~(Lowest(Seqs(B)) > cursor + 1))
  BY <1>1 DEF Onward
<1>2. ASSUME NEW g, Keep(g)
      PROVE  cursor' = cursor /\ batch' = batch
             /\ (batch' # {} => ~(Lowest(Seqs(batch')) > cursor + 1))
  BY <1>1, <1>2 DEF Keep
<1>3. ASSUME NEW S, NEW g, Verdict(S, g) PROVE Keep(g)
  BY <1>3 DEF Verdict, Restart
<1>4. CASE Probe \/ ProbeExport \/ ProbeTail
  <2>1. Keep(gen) \/ Keep(seen)
    BY <1>3, <1>4 DEF Probe, ProbeExport, ProbeTail, Restart
  <2> QED
    BY <1>2, <2>1
<1>5. CASE Read
  <2>1. Onward(ReadAfter(cursor)) /\ cursor' = cursor
    BY <1>5 DEF Read, Restart
  <2> QED
    BY <1>1, <2>1
<1>6. CASE Backlog
  BY <1>6 DEF Backlog, Unread, ledger
<1> QED
  BY <1>4, <1>5, <1>6 DEF ReadStep

LEMMA CoversStep ==
  ASSUME Sane, Convex, at \in {"handle", "advance"} => Covers, [Next]_vars,
         at' \in {"handle", "advance"}
  PROVE  Covers'
<1>1. CASE Post \/ \E how \in Renumbers : Delete(how)
  <2>1. UNCHANGED <<at, batch, cursor>>
    BY <1>1 DEF Post, Delete, poll, ledger
  <2> SUFFICES ASSUME NEW b \in batch, NEW m \in room', (b.id = b.seq + Base)',
                      cursor < m.seq, m.seq <= b.seq
               PROVE  m \in batch
    BY <2>1 DEF Covers
  <2>2. m \in room /\ b.id = b.seq + Base
    BY <1>1, ArrivesOutside
  <2> QED
    BY <2>1, <2>2 DEF Covers
<1>2. CASE ReadStep
  <2>1. UNCHANGED <<room, head, posts>> /\ Base' = Base
    BY <1>2, ReadSteps DEF Base
  <2>2. at' = "handle" /\ cursor' = cursor
    BY <1>2, ReadSteps, HandsOver
  <2> SUFFICES ASSUME NEW b \in batch', NEW m \in room, b.id = b.seq + Base,
                      cursor < m.seq, m.seq <= b.seq
               PROVE  m \in batch'
    BY <2>1, <2>2 DEF Covers
  <2>3. ASSUME batch' \subseteq Message, Stretch(batch'),
               \A a, c \in batch' : cursor < a.seq /\ a.id - a.seq = c.id - c.seq,
               ~(Lowest(Seqs(batch')) > cursor + 1)
        PROVE  m \in batch'
    BY <2>3, OnwardCovers
  <2>4. CASE batch' = Page(Unread)
    <3>1. m \in Unread /\ Unread \subseteq room
      BY DEF Unread
    <3> QED
      BY <2>4, <3>1, PageIsStart
  <2>5. CASE batch' = ReadAfter(cursor) /\ ~(Lowest(Seqs(batch')) > cursor + 1)
    <3>1. /\ batch' \subseteq Unread /\ Stretch(batch')
          /\ \A a \in batch' : a.id = a.seq + Base
      BY <2>5, UnreadIsHere
    <3>2. \A a \in Unread : a \in room /\ cursor < a.seq
      BY DEF Unread
    <3>3. \A a \in batch' : a \in Message /\ cursor < a.seq /\ a.id - a.seq = Base
      BY <3>1, <3>2, Numbers
    <3> QED
      BY <2>3, <2>5, <3>1, <3>3
  <2>6. CASE batch' = batch /\ ~(Lowest(Seqs(batch')) > cursor + 1)
    <3>1. FromHere
      BY <2>6, Numbers DEF Sane, InHand, FromBefore
    <3>2. Stretch(batch)
      BY <3>1 DEF FromHere, Stretch, Convex
    <3> QED
      BY <2>3, <2>6, <3>2, Numbers DEF Sane, InHand
  <2> QED
    BY <1>2, <2>2, <2>4, <2>5, <2>6, HandsOver
<1>3. CASE Advance
  <2>1. /\ UNCHANGED <<room, head, posts>> /\ Base' = Base /\ batch' = batch \ {Oldest}
        /\ at = "advance"
    BY <1>3 DEF Advance, upstream, Base
  <2>2. Oldest \in batch /\ cursor' = Oldest.seq /\ cursor < Oldest.seq
    BY <1>3, AdvanceMoves
  <2> SUFFICES ASSUME NEW b \in batch', NEW m \in room, b.id = b.seq + Base,
                      Oldest.seq < m.seq, m.seq <= b.seq
               PROVE  m \in batch'
    BY <2>1, <2>2 DEF Covers
  <2>3. cursor < m.seq
    BY <2>2, Numbers
  <2>4. m \in batch
    BY <2>1, <2>3 DEF Covers
  <2>5. m # Oldest
    BY Numbers
  <2> QED
    BY <2>1, <2>4, <2>5
<1>4. CASE Bump \/ Handle \/ Quiet
  <2>1. UNCHANGED <<room, head, posts, cursor, batch>> /\ at \in {"handle", "advance"}
    BY <1>4, QuietSteps DEF Bump, Handle, upstream, poll, ledger
  <2> QED
    BY <2>1 DEF Covers, Base
<1> QED
  BY <1>1, <1>2, <1>3, <1>4, Cases
----------------------------------------------------------------------------
(* A room is read in order: where the cursor is. *)

\* A room that came back from 1 stays below the cursor until a read has seen it, and no
\* two messages that are recorded have the same sender and words: the two things the code
\* cannot check.
Told == /\ Refill < 0
        /\ \A i, k \in Id : Recordable(i) /\ bodyOf[i] = bodyOf[k] => i = k

USE DEF None

LEMMA InOrderInit == Init => InOrder
<1> SUFFICES ASSUME Init PROVE InOrder
  OBVIOUS
<1>1. Anchored /\ Position
  BY DEF Init, Anchored, Position, Placed, FromHere, Checked
<1> QED
  BY <1>1, RingedInit DEF InOrder

\* With the cursor at the start nothing is before it.
LEMMA AtTheStart == ASSUME Sane, cursor = 0 PROVE Placed
BY Numbers DEF Placed

LEMMA PostPlaces == ASSUME OrderInv, Told, Post PROVE Anchored' /\ Position'
<1> USE DEF OrderInv, InOrder
<1>1. /\ UNCHANGED <<gen, bump, renumbered, deletes, ledger, poll, bounds, history>>
      /\ head' = head + 1 /\ posts' = posts + 1
      /\ \A m \in room' : m \in room \/ m.seq = head + 1
  BY DEF Post
<1>2. Base' = Base /\ Reach' = Reach
  BY <1>1, Numbers DEF Base, Reach, ledger, poll
<1>3. Placed => Placed'
  <2> SUFFICES ASSUME Placed PROVE Placed'
    OBVIOUS
  <2>1. cursor' <= head' /\ cursor < head + 1
    BY <1>1, Numbers DEF Placed, ledger
  <2>2. ASSUME NEW m \in room', m.seq <= cursor' PROVE m.id \in handled'
    <3>1. m \in room
      BY <1>1, <2>1, <2>2, Numbers DEF ledger
    <3> QED
      BY <1>1, <2>2, <3>1 DEF Placed, ledger, history
  <2> QED
    BY <2>1, <2>2 DEF Placed
<1>4. Behind /\ (at # "idle" \/ (probed /\ epoch = gen)) => Behind'
  <2> SUFFICES ASSUME Behind, at # "idle" \/ (probed /\ epoch = gen) PROVE Behind'
    OBVIOUS
  <2>1. head + 1 <= Reach + Refill
    BY DEF Post, Behind
  <2>2. Reach \in Nat /\ Refill \in Int /\ Refill < 0 /\ head \in Nat
    BY Numbers, CursorAssumption DEF Told, Reach
  <2>3. head + 1 < Reach
    BY <2>1, <2>2
  <2> QED
    BY <1>1, <1>2, <2>3 DEF Behind
<1>5. Anchored'
  BY <1>1, <1>2, <1>3 DEF Anchored, ledger, history
<1>6. Placed' \/ renumbered'
  BY <1>1, <1>3 DEF Position
<1>7. (FromHere \/ Behind)'
  <2>1. CASE FromHere
    BY <1>1, <1>2, <2>1 DEF FromHere, poll
  <2>2. CASE Behind /\ at = "idle"
    <3>1. batch = {}
      BY <2>2 DEF Sane, InHand
    <3> QED
      BY <1>1, <3>1 DEF FromHere, poll
  <2>3. CASE Behind /\ at # "idle"
    BY <1>4, <2>3
  <2> QED
    BY <2>1, <2>2, <2>3 DEF Position
<1>8. (Checked => Placed \/ Behind \/ blind)'
  <2>1. Checked' => Checked
    BY <1>1 DEF Checked, ledger, poll
  <2> QED
    BY <1>1, <1>3, <1>4, <2>1 DEF Position, Checked, history
<1>9. (at = "tail" => Behind \/ \A m \in room : cursor < m.seq)'
  <2> SUFFICES ASSUME at = "tail" PROVE Behind' \/ \A m \in room' : cursor < m.seq
    BY <1>1 DEF ledger, poll
  <2>1. CASE Behind
    BY <1>4, <2>1
  <2>2. CASE ~Behind
    <3>1. cursor # 0 /\ cursor <= head
      BY <2>2, Numbers DEF Position, Placed, Behind, Reach
    <3>2. \A m \in room : cursor < m.seq
      BY <2>2 DEF Position
    <3> QED
      BY <1>1, <3>1, <3>2, Numbers
  <2> QED
    BY <2>1, <2>2
<1> QED
  BY <1>1, <1>5, <1>6, <1>7, <1>8, <1>9 DEF Position, ledger, poll

LEMMA DeletePlaces ==
  ASSUME OrderInv, NEW how \in Renumbers, Delete(how) PROVE Anchored' /\ Position'
<1> USE DEF OrderInv, InOrder
<1>1. /\ UNCHANGED <<posts, ledger, poll, bounds, history>> /\ room' = {}
      /\ head' = IF how = "on" THEN head ELSE 0
      /\ gen' = IF how = "new" THEN gen + 1 ELSE gen
      /\ renumbered' = (renumbered \/ how # "on")
  BY DEF Delete
<1>2. Reach' = Reach
  BY <1>1 DEF Reach, ledger, poll
<1>3. cursor' <= head' => Placed'
  BY <1>1 DEF Placed
<1>4. Checked' => Checked
  <2>1. epoch # gen + 1
    BY Constants DEF Sane, TypeOK, Counts
  <2> QED
    BY <1>1, <2>1 DEF Checked, ledger, poll
<1>5. CASE how = "on"
  <2>1. Base' = Base /\ head' = head /\ renumbered' = renumbered
    BY <1>1, <1>5 DEF Base, Sane, TypeOK
  <2>2. (Placed => Placed') /\ (Behind => Behind')
    BY <1>1, <1>2, <1>3, <2>1 DEF Placed, Behind, ledger
  <2>3. Anchored'
    BY <1>1, <2>1, <2>2 DEF Anchored, ledger, history
  <2>4. (FromHere \/ Behind)'
    BY <1>1, <2>1, <2>2 DEF Position, FromHere, poll
  <2> QED
    BY <1>1, <1>4, <2>1, <2>2, <2>3, <2>4 DEF Position, ledger, poll, history
<1>6. CASE how # "on"
  <2>1. head' = 0 /\ renumbered' = TRUE /\ Base' = posts
    <3>1. head' = 0 /\ renumbered' = TRUE /\ posts' = posts /\ posts \in Nat
      BY <1>1, <1>6, Numbers
    <3> QED
      BY <3>1 DEF Base
  <2>2. Reach \in Nat
    BY Numbers DEF Reach
  <2>3. Reach # 0 => Behind'
    BY <1>2, <2>1, <2>2 DEF Behind
  <2>4. Reach = 0 => cursor = 0 /\ batch = {}
    BY DEF Reach
  <2>5. Reach = 0 => Placed' /\ FromHere'
    BY <1>1, <1>3, <2>1, <2>4 DEF FromHere, ledger, poll
  <2>6. Anchored'
    <3>1. cursor # 0 => recorded[cursor] # cursor + posts
      <4> SUFFICES ASSUME cursor # 0 PROVE recorded[cursor] # cursor + posts
        OBVIOUS
      <4>1. cursor \in Id
        BY Constants DEF Sane, TypeOK, Id
      <4>2. recorded[cursor] <= posts
        BY <4>1 DEF Sane, Counts
      <4>3. recorded[cursor] \in Nat
        BY <4>1, Constants DEF Sane, TypeOK, Id
      <4> QED
        BY <4>2, <4>3, Numbers
    <3> QED
      BY <1>1, <2>1, <3>1 DEF Anchored, ledger
  <2> QED
    BY <1>1, <2>1, <2>3, <2>5, <2>6 DEF Position, ledger, poll, history
<1> QED
  BY <1>5, <1>6

LEMMA BumpPlaces == ASSUME OrderInv, Bump PROVE Anchored' /\ Position'
<1> USE DEF OrderInv, InOrder
<1>1. /\ UNCHANGED <<room, head, posts, renumbered, deletes, ledger, poll, bounds, history>>
      /\ gen' = gen + 1
  BY DEF Bump
<1>2. Checked' => Checked
  <2>1. epoch # gen + 1
    BY Constants DEF Sane, TypeOK, Counts
  <2> QED
    BY <1>1, <2>1 DEF Checked, ledger, poll
<1>3. UNCHANGED <<Base, Reach, Placed, Behind, FromHere>>
  BY <1>1 DEF Base, Reach, Placed, Behind, FromHere, ledger, poll, history
<1> QED
  BY <1>1, <1>2, <1>3 DEF Anchored, Position, ledger, poll, history

LEMMA HandlePlaces == ASSUME OrderInv, Handle PROVE Anchored' /\ Position'
<1> USE DEF OrderInv, InOrder
<1>1. Oldest \in batch /\ cursor < Oldest.seq /\ cursor \in Nat /\ Oldest.seq \in Nat
  BY OldestIsFirst, Numbers DEF Handle, Sane
<1>2. /\ UNCHANGED <<upstream, cursor, epoch, probed, seen, batch, blind>> /\ at' = "advance"
      /\ handled \subseteq handled' /\ at = "handle"
  BY DEF Handle
<1>3. cursor # 0 => recorded'[cursor] = recorded[cursor]
  <2>1. cursor # 0 => cursor \in Id
    BY Constants DEF Sane, TypeOK, Id
  <2> QED
    BY <1>1, <2>1 DEF Handle, Sane, TypeOK
<1>4. UNCHANGED <<Base, Reach, Behind, FromHere>> /\ (Placed => Placed')
  BY <1>2 DEF Base, Reach, Placed, Behind, FromHere, upstream
<1>5. Anchored'
  BY <1>2, <1>3, <1>4 DEF Anchored
<1> QED
  BY <1>2, <1>4, <1>5 DEF Position, Checked, upstream

LEMMA AdvancePlaces == ASSUME OrderInv, Advance PROVE Anchored' /\ Position'
<1> USE DEF OrderInv, InOrder
<1>1. /\ Oldest \in batch /\ Oldest \in Message /\ cursor < Oldest.seq
      /\ cursor' = Oldest.seq /\ batch' = batch \ {Oldest} /\ at' = "handle"
  BY AdvanceMoves
<1>2. /\ UNCHANGED <<upstream, epoch, recorded, probed, handled, blind>> /\ at = "advance"
      /\ Oldest.id \in handled
  BY DEF Advance, Sane, InHand, history
<1>3. /\ Oldest.seq \in Nat /\ Oldest.id \in Nat /\ Oldest.seq >= 1 /\ Oldest.id <= posts
      /\ cursor \in Nat /\ head \in Nat /\ posts \in Nat /\ Base \in Int
      /\ Base = posts - head
  BY <1>1, Numbers
<1>4. cursor' # 0 /\ Reach' = Oldest.seq /\ epoch' # 0
  <2>1. Reach' = Oldest.seq
    BY <1>1, <1>3 DEF Reach
  <2>2. epoch # 0
    BY <1>2 DEF Position
  <2> QED
    BY <1>1, <1>2, <1>3, <2>1, <2>2
<1>5. UNCHANGED Base
  BY <1>2 DEF Base, upstream
<1>6. Behind => Behind'
  <2> SUFFICES ASSUME Behind PROVE Behind'
    OBVIOUS
  <2>1. head < Oldest.seq
    BY <1>1, <1>3 DEF Behind, Reach
  <2> QED
    BY <1>2, <1>3, <1>4, <2>1 DEF Behind, upstream
\* A message of this lifetime was next, and the cursor is at it: all before it was handled.
<1>7. FromHere /\ Placed => Placed'
  <2> SUFFICES ASSUME FromHere, Placed PROVE Placed'
    OBVIOUS
  <2>2. Oldest.id = Oldest.seq + Base
    BY <1>1 DEF FromHere
  <2>3. cursor' <= head'
    <3>1. Oldest.seq <= head
      BY <1>3, <2>2
    <3> QED
      BY <1>1, <1>2, <3>1 DEF upstream
  <2>4. ASSUME NEW m \in room, m.seq <= Oldest.seq PROVE m.id \in handled
    <3>1. CASE m.seq <= cursor
      BY <3>1 DEF Placed
    <3>2. CASE cursor < m.seq
      <4>1. m \in batch
        BY <1>1, <1>2, <2>2, <2>4, <3>2 DEF Covers
      <4>2. m = Oldest
        BY <1>1, <1>3, <2>4, <4>1, OldestIsFirst, Numbers DEF Sane
      <4> QED
        BY <1>2, <4>2
    <3> QED
      BY <1>3, <3>1, <3>2, Numbers
  <2> QED
    BY <1>1, <1>2, <2>3, <2>4 DEF Placed, upstream
<1>8. (FromHere \/ Behind)' /\ (Placed \/ Behind \/ blind)'
  <2>1. FromHere => FromHere'
    BY <1>1, <1>5 DEF FromHere
  <2> QED
    BY <1>2, <1>6, <1>7, <2>1 DEF Position, Checked
<1>9. Placed' \/ renumbered'
  <2> SUFFICES ASSUME ~renumbered PROVE Placed'
    BY <1>2 DEF upstream
  <2>1. Placed /\ ~Behind
    BY DEF Position, Behind
  <2> QED
    BY <1>7, <2>1 DEF Position
<1>10. Anchored'
  <2> SUFFICES ASSUME recorded[Oldest.seq] = Oldest.seq + Base PROVE Placed' \/ blind
    BY <1>1, <1>2, <1>4, <1>5 DEF Anchored
  <2>1. recorded[Oldest.seq] <= posts
    BY <1>1 DEF Sane, Counts, Message
  <2>2. ~Behind
    <3>1. Oldest.seq <= head
      BY <1>3, <2>1
    <3> QED
      BY <1>1, <1>3, <3>1 DEF Behind, Reach
  <2> QED
    BY <1>2, <1>7, <2>2 DEF Position, Checked
<1> QED
  BY <1>1, <1>4, <1>8, <1>9, <1>10 DEF Position
----------------------------------------------------------------------------
\* The position a check keeps, finding a message at the cursor, is the one the cursor
\* counts in, or the check had nothing to go by.
LEMMA GoodPosition ==
  ASSUME OrderInv, Told, NEW S, S \subseteq room, cursor # 0, cursor \in Seqs(S),
         ~\E m \in AtCursor(S) : ~Same(m),
         blind' = (blind \/ (renumbered /\ AtCursor(S) # {} /\ recorded[cursor] = None))
  PROVE  Placed \/ blind'
<1> USE DEF OrderInv, InOrder
<1>1. PICK m \in S : m.seq = cursor
  BY DEF Seqs
<1>2. Same(m) /\ m \in Message /\ m.id = cursor + Base /\ AtCursor(S) # {}
  BY <1>1, Numbers DEF AtCursor
<1>3. cursor \in Id /\ m.id \in Id
  BY <1>1, <1>2 DEF Message
<1>4. CASE recorded[cursor] = 0
  BY <1>2, <1>4 DEF Position
<1>5. CASE recorded[cursor] # 0
  <2>1. /\ recorded[cursor] \in Id /\ bodyOf[recorded[cursor]] = bodyOf[m.id]
        /\ Recordable(recorded[cursor])
    BY <1>1, <1>2, <1>3, <1>5 DEF Same, Sane, TypeOK, Counts
  <2>2. recorded[cursor] = m.id
    BY <1>3, <2>1 DEF Told
  <2> QED
    BY <1>2, <2>2 DEF Anchored
<1> QED
  BY <1>4, <1>5

\* After a keeping of the cursor, and a starting over.
LEMMA KeepPlaces ==
  ASSUME OrderInv, Placed \/ Behind \/ blind', blind => blind', at \in {"probe", "export", "tail"},
         NEW g, g # 0, Keep(g), probed' = TRUE,
         UNCHANGED <<room, head, gen, posts, recorded, handled, then>>
  PROVE  Anchored' /\ Position'
<1> USE DEF OrderInv, InOrder
<1>1. /\ UNCHANGED <<cursor, renumbered>> /\ cursor # 0 /\ epoch' = g
      /\ batch' \in {batch, {}} /\ at' \in {"read", "idle", "backlog", "handle"}
  BY DEF Keep, Onward, Position
<1>2. Reach' = cursor /\ Reach = cursor /\ Base' = Base
  BY <1>1 DEF Reach, Base
<1>3. (Placed => Placed') /\ (Behind => Behind') /\ (FromHere => FromHere')
  BY <1>1, <1>2 DEF Placed, Behind, FromHere
<1>4. Anchored'
  BY <1>1, <1>2, <1>3 DEF Anchored
<1> QED
  BY <1>1, <1>3, <1>4 DEF Position

LEMMA RestartPlaces ==
  ASSUME OrderInv, NEW g, Restart(g), UNCHANGED <<room, head>>
  PROVE  Anchored' /\ Position'
<1>1. cursor' = 0 /\ batch' = {} /\ at' \in {"read", "idle"}
  BY DEF Restart
<1>2. Placed'
  BY <1>1, Numbers DEF Placed, OrderInv
<1> QED
  BY <1>1, <1>2 DEF Anchored, Position, FromHere

LEMMA ProbePlaces == ASSUME OrderInv, Told, Probe PROVE Anchored' /\ Position'
<1> USE DEF OrderInv, InOrder
<1>1. /\ at = "probe" /\ cursor # 0 /\ seen' = gen
      /\ UNCHANGED <<room, head, gen, posts, recorded, handled, then>>
  BY DEF Probe, Position
<1>2. gen # 0
  BY Constants DEF Sane, TypeOK
<1> DEFINE read == ReadAfter(cursor - 1)
<1>3. read \subseteq room
  BY DEF ReadAfter
<1>4. CASE cursor \in Seqs(read) /\ Verdict(read, gen) /\ probed' = TRUE
  <2> HIDE DEF read
  <2>1. CASE Restart(gen)
    BY <1>1, <2>1, RestartPlaces
  <2>2. CASE /\ Keep(gen) /\ ~\E m \in AtCursor(read) : ~Same(m)
             /\ blind' = (blind \/ (renumbered /\ AtCursor(read) # {} /\ recorded[cursor] = None))
    <3>1. Placed \/ blind'
      BY <1>1, <1>3, <1>4, <2>2, GoodPosition
    <3> QED
      BY <1>1, <1>2, <1>4, <2>2, <3>1, KeepPlaces
  <2> QED
    BY <1>4, <2>1, <2>2 DEF Verdict
<1>5. CASE Restart(gen)
  BY <1>1, <1>5, RestartPlaces
<1>6. CASE /\ read = {} => LastSeq(cursor - 1) = cursor - 1
           /\ at' = IF read = {} THEN "tail" ELSE "export"
           /\ UNCHANGED <<cursor, epoch, batch, probed, renumbered, blind>>
  <2>1. UNCHANGED <<Base, Reach, Placed, Behind, FromHere>>
    BY <1>1, <1>6 DEF Base, Reach, Placed, Behind, FromHere
  <2>2. Checked' => Checked
    BY <1>1, <1>6 DEF Checked
  <2>3. at' = "tail" => Behind \/ \A m \in room : cursor < m.seq
    <3> SUFFICES ASSUME read = {}, ~Behind, NEW m \in room PROVE cursor < m.seq
      BY <1>6
    <3>1. cursor <= head /\ cursor \in Nat /\ head \in Nat
      BY <1>1, Numbers DEF Position, Placed, Behind, Reach
    <3>2. head \in Seqs(room)
      BY Numbers DEF Ringed
    <3>3. PICK n \in room : n.seq = head
      BY <3>2 DEF Seqs
    <3>4. n \in read
      BY <3>1, <3>3, Constants DEF ReadAfter
    <3> QED
      BY <3>4
  <2>4. Anchored'
    BY <1>1, <1>6, <2>1 DEF Anchored
  <2> QED
    BY <1>1, <1>2, <1>6, <2>1, <2>2, <2>3, <2>4 DEF Position
<1> QED
  BY <1>4, <1>5, <1>6 DEF Probe

LEMMA ProbeExportPlaces == ASSUME OrderInv, Told, ProbeExport PROVE Anchored' /\ Position'
<1> USE DEF OrderInv, InOrder
<1>1. /\ at = "export" /\ cursor # 0 /\ seen # 0 /\ probed' = TRUE /\ Verdict(room, seen)
      /\ UNCHANGED <<room, head, gen, posts, recorded, handled, then>>
  BY DEF ProbeExport, Position
<1>2. CASE Restart(seen)
  BY <1>1, <1>2, RestartPlaces
<1>3. CASE /\ Keep(seen) /\ ~\E m \in AtCursor(room) : ~Same(m)
           /\ blind' = (blind \/ (renumbered /\ AtCursor(room) # {} /\ recorded[cursor] = None))
  <2>1. CASE cursor \in Seqs(room)
    <3>1. Placed \/ blind'
      BY <1>1, <1>3, <2>1, GoodPosition
    <3> QED
      BY <1>1, <1>3, <3>1, KeepPlaces
  <2>2. CASE cursor \notin Seqs(room) /\ cursor <= head
    <3>1. \A m \in room : ~(m.seq <= cursor)
      BY <2>2, Numbers DEF Ringed
    <3>2. Placed
      BY <2>2, <3>1 DEF Placed
    <3> QED
      BY <1>1, <1>3, <3>2, KeepPlaces
  <2>3. CASE ~(cursor <= head)
    <3>1. Behind
      BY <1>1, <2>3, Numbers DEF Position, Placed, Behind, Reach
    <3> QED
      BY <1>1, <1>3, <3>1, KeepPlaces
  <2> QED
    BY <2>1, <2>2, <2>3
<1> QED
  BY <1>1, <1>2, <1>3 DEF Verdict

LEMMA ProbeTailPlaces == ASSUME OrderInv, ProbeTail PROVE Anchored' /\ Position'
<1> USE DEF OrderInv, InOrder
<1>1. /\ at = "tail" /\ cursor # 0 /\ seen # 0 /\ probed' = TRUE
      /\ UNCHANGED <<room, head, gen, posts, recorded, handled, then>>
  BY DEF ProbeTail, Position
<1>2. CASE Restart(seen)
  BY <1>1, <1>2, RestartPlaces
<1>3. CASE Keep(seen) /\ UNCHANGED blind
  <2>1. Placed \/ Behind
    <3> SUFFICES ASSUME ~Behind PROVE Placed
      OBVIOUS
    <3>1. cursor <= head
      BY <1>1, Numbers DEF Position, Placed, Behind, Reach
    <3>2. \A m \in room : ~(m.seq <= cursor)
      BY <1>1, Numbers DEF Position
    <3> QED
      BY <3>1, <3>2 DEF Placed
  <2> QED
    BY <1>1, <1>3, <2>1, KeepPlaces
<1> QED
  BY <1>2, <1>3 DEF ProbeTail

\* A read that takes messages in hand, from a position that is good.
LEMMA TakesUnread ==
  ASSUME OrderInv, Placed \/ Behind \/ blind, NEW B, B \subseteq Unread, batch' \in {{}, B},
         UNCHANGED <<room, head, gen, posts, cursor, recorded, handled, blind>>,
         renumbered' = (renumbered /\ cursor # 0), epoch' # 0, at' \in {"idle", "backlog", "handle"}
  PROVE  Anchored' /\ Position'
<1> USE DEF OrderInv, InOrder
<1>1. Base' = Base
  BY DEF Base
<1>2. FromHere'
  BY <1>1, Numbers DEF FromHere, Unread
<1>3. (Placed \/ Behind \/ blind)' /\ (Placed \/ renumbered)'
  <2>1. CASE cursor = 0
    BY <2>1, AtTheStart DEF Placed
  <2>2. CASE cursor # 0
    <3>1. (Placed => Placed') /\ (Behind => Behind') /\ renumbered' = renumbered
      BY <2>2 DEF Placed, Behind, Reach, Sane, TypeOK
    <3> QED
      BY <3>1 DEF Position
  <2> QED
    BY <2>1, <2>2
<1>5. Anchored'
  BY <1>1 DEF Anchored, Placed
<1> QED
  BY <1>2, <1>3, <1>5 DEF Position

LEMMA ReadPlaces == ASSUME OrderInv, Read PROVE Anchored' /\ Position'
<1> USE DEF OrderInv, InOrder
<1> DEFINE read == ReadAfter(cursor)
<1>1. /\ at = "read" /\ (probed \/ cursor = 0) /\ batch = {} /\ UNCHANGED probed
      /\ UNCHANGED <<room, head, gen, posts, recorded, handled, seen>> /\ gen # 0
  BY Constants DEF Read, Position, Sane, InHand, TypeOK
<1>2. read \subseteq Unread
  BY DEF ReadAfter, Unread
<1>3. CASE Restart(gen)
  BY <1>1, <1>3, RestartPlaces
<1> HIDE DEF read
<1>4. CASE /\ cursor # 0 /\ epoch \notin {0, gen} /\ at' = "probe" /\ batch' = read
           /\ UNCHANGED <<cursor, epoch, renumbered, blind>>
  <2>1. FromHere'
    BY <1>1, <1>2, <1>4, Numbers DEF FromHere, Unread, Base
  <2>2. UNCHANGED <<Base, Reach, Placed, Behind>>
    BY <1>1, <1>4 DEF Base, Reach, Placed, Behind
  <2>3. Checked' => Checked
    BY <1>1, <1>4 DEF Checked
  <2> QED
    BY <1>1, <1>4, <2>1, <2>2, <2>3 DEF Position, Anchored
<1>5. CASE /\ cursor = 0 \/ epoch \in {0, gen}
           /\ epoch' = gen /\ Onward(read)
           /\ renumbered' = (renumbered /\ cursor # 0)
           /\ UNCHANGED <<cursor, blind>>
  <2>1. Placed \/ Behind \/ blind
    <3>1. CASE cursor = 0
      BY <3>1, AtTheStart
    <3>2. CASE cursor # 0
      <4>1. probed /\ epoch = gen
        BY <1>1, <1>5, <3>2 DEF Anchored
      <4> QED
        BY <4>1 DEF Position, Checked
    <3> QED
      BY <3>1, <3>2
  <2>2. batch' \in {{}, read} /\ at' \in {"idle", "backlog", "handle"}
    BY <1>5 DEF Onward
  <2> QED
    BY <1>1, <1>2, <1>5, <2>1, <2>2, TakesUnread
<1> QED
  BY <1>3, <1>4, <1>5 DEF Read, read

LEMMA BacklogPlaces == ASSUME OrderInv, Backlog PROVE Anchored' /\ Position'
<1>1. /\ at = "backlog" /\ at' = "handle" /\ batch' = Page(Unread)
      /\ renumbered' = (renumbered /\ cursor # 0)
      /\ UNCHANGED <<room, head, gen, posts, cursor, epoch, recorded, handled, blind>>
  BY DEF Backlog, Unread, ledger, history
<1>2. Page(Unread) \subseteq Unread
  BY DEF Page
<1>3. (Placed \/ Behind \/ blind) /\ epoch # 0
  BY <1>1 DEF OrderInv, InOrder, Position, Checked
<1> QED
  BY <1>1, <1>2, <1>3, TakesUnread

\* A check becomes due, or is over; one whose answer could not be written leaves the cursor
\* where it is, in a room that may be another.
LEMMA QuietChecks ==
  ASSUME OrderInv, Quiet
  PROVE  /\ Checked' => Checked \/ Placed \/ blind'
         /\ at' \in {"export", "tail"} => seen' = seen
         /\ at' = "read" => (probed \/ cursor = 0) /\ probed' = probed
         /\ at' = "probe" => cursor # 0
<1> USE DEF OrderInv, InOrder, PollEnds
<1>1. CASE Fail
  <2>1. /\ at' = "idle" /\ epoch' = epoch /\ gen' = gen
        /\ UNCHANGED probed \/ blind' = (blind \/ renumbered)
    BY <1>1 DEF Fail, ledger, upstream
  <2>2. CASE UNCHANGED probed
    BY <2>1, <2>2 DEF Checked
  <2>3. CASE blind' = (blind \/ renumbered)
    <3>1. Placed \/ blind'
      BY <2>3 DEF Position
    <3> QED
      BY <2>1, <3>1
  <2> QED
    BY <2>1, <2>2, <2>3
<1>2. CASE ProbeRaises \/ EndPoll
  BY <1>2 DEF ProbeRaises, EndPoll, Checked, ledger, upstream
<1>3. CASE Crash
  BY <1>3 DEF Crash, Checked
<1>4. CASE StartPoll
  BY <1>4 DEF StartPoll, Checked, ledger, upstream
<1>5. CASE ProbeDue \/ Gate \/ UNCHANGED vars
  BY <1>5 DEF ProbeDue, Gate, vars, poll, Checked, Position, ledger, upstream
<1> QED
  BY <1>1, <1>2, <1>3, <1>4, <1>5 DEF Quiet

LEMMA QuietPlaces == ASSUME OrderInv, Quiet PROVE Anchored' /\ Position'
<1> USE DEF OrderInv, InOrder
<1>1. UNCHANGED <<upstream, ledger, handled>> /\ (blind => blind') /\ UNCHANGED <<Base, Placed>>
  BY QuietSteps DEF upstream, ledger, Base, Placed
<1>2. Anchored'
  BY <1>1 DEF Anchored, ledger
<1>3. (FromHere \/ Behind)' /\ (Behind => Behind' \/ Placed)
  <2>1. CASE batch' = batch
    BY <1>1, <2>1 DEF FromHere, Behind, Reach, Position, upstream, ledger
  <2>2. CASE batch' = {} /\ cursor = 0
    BY <2>2, AtTheStart DEF FromHere
  <2>3. CASE batch' = {} /\ cursor # 0
    BY <1>1, <2>3 DEF FromHere, Behind, Reach, upstream, ledger
  <2> QED
    BY <2>1, <2>2, <2>3, QuietSteps
<1>4. (Checked => Placed \/ Behind \/ blind)'
  BY <1>1, <1>3, QuietChecks DEF Position
<1>5. (at = "tail" => Behind \/ \A m \in room : cursor < m.seq)'
  <2> SUFFICES ASSUME at' = "tail" PROVE Behind' \/ \A m \in room : cursor < m.seq
    BY <1>1 DEF upstream, ledger
  <2>1. UNCHANGED <<at, batch>>
    BY QuietSteps
  <2> QED
    BY <1>1, <2>1 DEF Position, Behind, Reach, upstream, ledger
<1>6. /\ (at = "read" => probed \/ cursor = 0)'
      /\ (at \in {"probe", "export", "tail"} => cursor # 0)'
      /\ (at \in {"export", "tail"} => seen # None)'
      /\ (at \in {"backlog", "handle", "advance"} => epoch # None)'
  BY <1>1, QuietSteps, QuietChecks DEF Position, ledger
<1> QED
  BY <1>1, <1>3, <1>4, <1>5, <1>6, <1>2 DEF Position, upstream

LEMMA InOrderStep == OrderInv /\ Told /\ [Next]_vars => InOrder'
<1> SUFFICES ASSUME OrderInv, Told, [Next]_vars PROVE InOrder'
  OBVIOUS
<1>1. Ringed' /\ Convex' /\ (at \in {"handle", "advance"} => Covers)'
  BY RingedStep, ConvexStep, CoversStep DEF OrderInv, InOrder
<1>2. Anchored' /\ Position'
  BY PostPlaces, DeletePlaces, BumpPlaces, HandlePlaces, AdvancePlaces, ProbePlaces,
     ProbeExportPlaces, ProbeTailPlaces, ReadPlaces, BacklogPlaces, QuietPlaces, Cases
     DEF ReadStep
<1> QED
  BY <1>1, <1>2 DEF InOrder

\* Of any number of messages, those that leave a record all different, in a room of any size
\* that is deleted and renumbered at any time, none is skipped that the room still holds -
\* while no check has left the cursor in a renumbered room because nothing is recorded at
\* the cursor, or because the ledger failed as it was to start over.
THEOREM ReadInOrder == ASSUME Told PROVE Spec => NothingSkipped
<1>1. Init => OrderInv
  BY SaneInit, InOrderInit DEF OrderInv
<1>2. OrderInv /\ [Next]_vars => OrderInv'
  BY SaneStep, InOrderStep DEF OrderInv
<1>3. OrderInv /\ [Next]_vars =>
        [at = "handle" /\ at' = "advance" /\ Oldest \in room /\ ~blind =>
           \A m \in room : m.seq < Oldest.seq => m.id \in handled]_vars
  <2> SUFFICES ASSUME OrderInv, at = "handle", [Next]_vars, at' = "advance", Oldest \in room,
                      ~blind, NEW m \in room, m.seq < Oldest.seq
               PROVE  m.id \in handled
    OBVIOUS
  <2> USE DEF OrderInv, InOrder
  <2>1. Handle
    BY ReadSteps, QuietSteps, Cases DEF Post, Bump, Delete, Advance, poll
  <2>2. Oldest \in batch /\ batch # {}
    BY <2>1, OldestIsFirst DEF Handle, Sane
  <2>3. /\ Oldest.id = Oldest.seq + Base /\ cursor < Oldest.seq /\ Oldest.seq <= head
        /\ Oldest.seq \in Nat /\ Oldest.seq >= 1 /\ m.seq \in Nat /\ cursor \in Nat /\ head \in Nat
    BY <2>2, Numbers
  <2>4. ~Behind
    BY <2>3 DEF Behind, Reach
  <2>5. Placed
    BY <2>4 DEF Position, Checked
  <2>6. ~(cursor < m.seq)
    <3> SUFFICES ASSUME cursor < m.seq PROVE FALSE
      OBVIOUS
    <3>1. m \in batch
      BY <2>2, <2>3 DEF Covers
    <3>2. m = Oldest \/ Oldest.seq < m.seq
      BY <2>2, <3>1, OldestIsFirst DEF Sane
    <3> QED
      BY <2>3, <3>2
  <2> QED
    BY <2>3, <2>5, <2>6 DEF Placed
<1> QED
  BY <1>1, <1>2, <1>3, PTL DEF Spec, NothingSkipped
=============================================================================
