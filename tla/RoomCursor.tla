----------------------------- MODULE RoomCursor -----------------------------
(***************************************************************************)
(* How service/node.py reads the mailbox: poll_mailbox_once, its reads     *)
(* (_read_from_cursor), the check that the room is still the one its       *)
(* cursor counts in (_cursor_for, _verify_position, _restart_cursor), and  *)
(* the cursors and messages tables.  A room is a ring upstream; it may be  *)
(* deleted at any time, and comes back numbered on from the old one or     *)
(* from 1, in the latter case perhaps under its old generation number.     *)
(***************************************************************************)
EXTENDS Integers, FiniteSets

CONSTANTS MaxPosts,   \* bound on messages posted
          bodyOf,     \* sender and text of each message: None for a sender that did not
                      \* sign it, and for a text that has no UTF-8 form to be hashed
          Ring,       \* messages a room holds
          Limit,      \* ROOM_READ_LIMIT
          MaxDeletes, \* bound on deletions of the room
          Renumbers,  \* what a deletion may leave: see Delete
          Refill,     \* how far past the cursor a renumbered room grows between two reads
          MaxCrashes, \* bound on process deaths
          MaxFails    \* bound on reads and writes that fail

ASSUME CursorAssumption ==
  /\ {Ring, Limit} \subseteq Nat \ {0}
  /\ {MaxPosts, MaxDeletes, MaxCrashes, MaxFails} \subseteq Nat
  /\ bodyOf \in [1 .. MaxPosts -> [from : Nat, text : Nat]]
  /\ Refill \in Int
  \* numbered on; from 1 under a new generation; from 1 under the old one
  /\ Renumbers \subseteq {"on", "new", "old"}

Id == 1 .. MaxPosts
None == 0
Message == [seq : Id, id : Id]

VARIABLES
  \* upstream
  room,     \* the messages it holds
  head,     \* the last seq it gave
  gen,      \* its generation
  bump,     \* the generation to be counted up, just after the first write
  posts,    \* messages posted so far, in all lifetimes
  renumbered, \* it came back from 1, and the node has not started over yet
  deletes,
  \* the ledger
  cursor,   \* cursors.last_seq
  epoch,    \* cursors.generation, None for NULL
  recorded, \* [Id -> Id \cup {None}]: the newest message recorded at a seq
  \* the process
  at,       \* where poll_mailbox_once is
  open,     \* lane_is_open("mailbox")
  safe,     \* what it was at the start of the poll
  probed,   \* the position was checked less than ROOM_EPOCH_PROBE_SECONDS ago
  seen,     \* the generation a check read
  then,     \* what the check is for: the read to come, or the batch in hand
  batch,    \* messages read and not yet handled
  crashes,
  fails,
  \* history
  handled,  \* messages process_message was given
  twice,    \* those it was given again
  cut,      \* times a message was handled and the cursor not moved past it
  stale,    \* a room was started over on the record of an earlier lifetime's message
  blind     \* a check left the cursor in a renumbered room: nothing recorded told it, or
            \* the ledger failed as it was to start over

upstream == <<room, head, gen, bump, posts, renumbered, deletes>>
ledger == <<cursor, epoch, recorded>>
poll == <<at, open, safe, probed, seen, then, batch>>
bounds == <<crashes, fails>>
history == <<handled, twice, cut, stale, blind>>
vars == <<upstream, ledger, poll, bounds, history>>

TypeOK ==
  /\ room \subseteq Message
  /\ head \in 0 .. MaxPosts /\ posts \in 0 .. MaxPosts
  /\ gen \in 1 .. MaxDeletes + 1
  /\ bump \in BOOLEAN /\ renumbered \in BOOLEAN
  /\ deletes \in 0 .. MaxDeletes
  /\ cursor \in 0 .. MaxPosts
  /\ epoch \in 0 .. MaxDeletes + 1
  /\ recorded \in [Id -> Id \cup {None}]
  /\ at \in {"idle", "probe", "export", "tail", "read", "backlog", "handle", "advance"}
  /\ open \in BOOLEAN /\ safe \in BOOLEAN /\ probed \in BOOLEAN
  /\ seen \in 0 .. MaxDeletes + 1
  /\ then \in {"read", "batch"}
  /\ batch \subseteq Message
  /\ crashes \in 0 .. MaxCrashes
  /\ fails \in 0 .. MaxFails
  /\ handled \subseteq Id /\ twice \subseteq Id
  /\ cut \in Nat
  /\ stale \in BOOLEAN /\ blind \in BOOLEAN

Init ==
  /\ room = {} /\ head = 0 /\ gen = 1 /\ bump = FALSE /\ posts = 0
  /\ renumbered = FALSE /\ deletes = 0
  /\ cursor = 0 /\ epoch = None
  /\ recorded = [s \in Id |-> None]
  /\ open = TRUE /\ safe = TRUE
  /\ at = "idle" /\ probed = FALSE /\ seen = None /\ then = "read"
  /\ batch = {}
  /\ crashes = 0 /\ fails = 0
  /\ handled = {} /\ twice = {}
  /\ cut = 0 /\ stale = FALSE /\ blind = FALSE
----------------------------------------------------------------------------
(* The room. *)

Highest(S) == CHOOSE n \in S : \A k \in S : k <= n
Lowest(S) == CHOOSE n \in S : \A k \in S : n <= k
Seqs(S) == {m.seq : m \in S}

\* The lowest position the next read may start from.
Reach == IF cursor = 0 /\ batch # {} THEN 1 ELSE cursor

\* During a poll, which reads more than once, and under an old generation, which tells
\* nothing, Refill bounds how far a renumbered room grows before the node reads it.
Post ==
  /\ posts < MaxPosts
  /\ renumbered /\ Reach # 0 /\ (at # "idle" \/ (probed /\ epoch = gen))
       => head + 1 <= Reach + Refill
  /\ posts' = posts + 1
  /\ head' = head + 1
  /\ room' = {m \in room : m.seq > head + 1 - Ring}
             \cup {[seq |-> head + 1, id |-> posts + 1]}
  /\ UNCHANGED <<gen, bump, renumbered, deletes, ledger, poll, bounds, history>>

Bump ==
  /\ bump /\ room # {}
  /\ gen' = gen + 1
  /\ bump' = FALSE
  /\ UNCHANGED <<room, head, posts, renumbered, deletes, ledger, poll, bounds, history>>

Delete(how) ==
  /\ deletes < MaxDeletes
  /\ room # {} /\ ~bump
  /\ deletes' = deletes + 1
  /\ room' = {}
  /\ head' = IF how = "on" THEN head ELSE 0
  /\ gen' = IF how = "new" THEN gen + 1 ELSE gen
  /\ bump' = (how = "on")
  /\ renumbered' = (renumbered \/ how # "on")
  /\ UNCHANGED <<posts, ledger, poll, bounds, history>>

\* A read after s: the newest messages, and the room's head or s if it is lower.
ReadAfter(s) == {m \in room : m.seq > s /\ m.seq > head - Limit}
LastSeq(s) == IF ReadAfter(s) # {} \/ head < s THEN head ELSE s
----------------------------------------------------------------------------
(* The position. *)

StartPoll ==
  /\ at = "idle"
  /\ safe' = open
  /\ at' = IF cursor # 0 /\ ~probed THEN "probe" ELSE "read"
  /\ then' = "read"
  /\ UNCHANGED <<upstream, ledger, open, probed, seen, batch, bounds, history>>

ProbeDue ==
  /\ at = "idle" /\ probed
  /\ probed' = FALSE
  /\ UNCHANGED <<upstream, ledger, at, open, safe, seen, then, batch, bounds, history>>

\* _restart_cursor: the one write that moves a cursor back.  What was read from a room
\* that is gone is left; a check made before the read goes on to read from the start.
Restart(generation) ==
  /\ cursor' = 0
  /\ epoch' = generation
  /\ at' = IF at # "read" /\ then = "read" THEN "read" ELSE "idle"
  /\ batch' = {}
  /\ renumbered' = FALSE /\ blind' = FALSE

\* A batch that starts past the cursor left messages behind, or lost them.
Onward(b) ==
  /\ at' = IF ~safe THEN "idle"
           ELSE IF b # {} /\ Lowest(Seqs(b)) > cursor + 1 THEN "backlog"
           ELSE "handle"
  /\ batch' = IF safe THEN b ELSE {}

Keep(generation) ==
  /\ epoch' = generation
  /\ IF then = "read" THEN at' = "read" /\ UNCHANGED batch ELSE Onward(batch)
  /\ UNCHANGED <<cursor, renumbered>>

\* _recorded_here: nothing recorded proves nothing either way.
Same(m) == recorded[m.seq] = None \/ bodyOf[recorded[m.seq]] = bodyOf[m.id]

\* It hashes the text only after it found the sender to be the recorded one.
Raises(m) == /\ recorded[m.seq] # None
             /\ bodyOf[recorded[m.seq]].from = bodyOf[m.id].from
             /\ bodyOf[m.id].text = None

AtCursor(S) == {m \in S : m.seq = cursor}

\* Slips: a new generation is taken on its word; the position is not checked.
NewIsReplaced(S, generation) ==
  /\ IF epoch \notin {None, generation}
       THEN Restart(generation)
       ELSE Keep(generation) /\ UNCHANGED blind
  /\ UNCHANGED stale
Unchecked(S, generation) == Keep(generation) /\ UNCHANGED <<stale, blind>>

\* _verify_position: the message at the cursor says which room it is, if this node
\* recorded one there and the text can be compared.
Verdict(S, generation) ==
  /\ \A m \in AtCursor(S) : ~Raises(m)
  /\ IF \E m \in AtCursor(S) : ~Same(m)
       THEN /\ Restart(generation)
            /\ stale' = (stale \/ \E m \in AtCursor(S) : m.id \in handled)
       ELSE /\ Keep(generation)
            /\ blind' = (blind \/ (renumbered /\ AtCursor(S) # {} /\ recorded[cursor] = None))
            /\ UNCHANGED stale

Probe ==
  LET read == ReadAfter(cursor - 1) IN
  /\ at = "probe"
  /\ seen' = gen
  /\ \/ /\ cursor \in Seqs(read)
        /\ Verdict(read, gen)
        /\ probed' = TRUE
     \/ /\ read = {} /\ LastSeq(cursor - 1) < cursor - 1
        /\ Restart(gen)
        /\ probed' = TRUE
        /\ UNCHANGED stale
     \/ /\ cursor \notin Seqs(read)
        /\ read = {} => LastSeq(cursor - 1) = cursor - 1
        /\ at' = IF read = {} THEN "tail" ELSE "export"
        /\ UNCHANGED <<cursor, epoch, batch, probed, renumbered, stale, blind>>
  /\ UNCHANGED <<room, head, gen, bump, posts, deletes, recorded, open, safe, then, bounds,
                 handled, twice, cut>>

ProbeExport ==
  /\ at = "export"
  /\ Verdict(room, seen)
  /\ probed' = TRUE
  /\ UNCHANGED <<room, head, gen, bump, posts, deletes, recorded, open, safe, seen, then,
                 bounds, handled, twice, cut>>

ProbeTail ==
  /\ at = "tail"
  /\ IF room # {} /\ head < cursor THEN Restart(seen) ELSE Keep(seen) /\ UNCHANGED blind
  /\ probed' = TRUE
  /\ UNCHANGED <<room, head, gen, bump, posts, deletes, recorded, open, safe, seen, then,
                 bounds, handled, twice, cut, stale>>

\* The poll is over and its batch is left; the next one starts again from the ledger.
PollEnds == at' = "idle" /\ batch' = {}

\* A line at the cursor that cannot be hashed ends the poll, as long as it is there.
ProbeRaises ==
  /\ \/ at = "probe" /\ \E m \in AtCursor(ReadAfter(cursor - 1)) : Raises(m)
     \/ at = "export" /\ \E m \in AtCursor(room) : Raises(m)
  /\ PollEnds
  /\ UNCHANGED <<upstream, ledger, open, safe, probed, seen, then, bounds, history>>

\* Slip: a room that ends before the cursor will grow past it.
EndsNever == FALSE

\* With nothing newer, a head below the cursor is a room that was replaced.
Ends == LastSeq(cursor) < cursor

Read ==
  LET read == ReadAfter(cursor) IN
  /\ at = "read"
  /\ \/ /\ cursor # 0 /\ read = {} /\ Ends
        /\ Restart(gen)
        /\ UNCHANGED then
     \/ /\ ~(cursor # 0 /\ read = {} /\ Ends)
        /\ cursor # 0 /\ epoch \notin {None, gen}
        /\ at' = "probe" /\ then' = "batch" /\ batch' = read
        /\ UNCHANGED <<cursor, epoch, renumbered, blind>>
     \/ /\ ~(cursor # 0 /\ read = {} /\ Ends)
        /\ cursor = 0 \/ epoch \in {None, gen}
        /\ epoch' = gen
        /\ Onward(read)
        /\ renumbered' = (renumbered /\ cursor # 0)
        /\ UNCHANGED <<cursor, then, blind>>
  /\ UNCHANGED <<room, head, gen, bump, posts, deletes, recorded, open, safe, probed, seen,
                 bounds, handled, twice, cut, stale>>

\* The export holds the whole room: a page of it, from the oldest unread.
Page(S) == {m \in S : Cardinality({k \in S : k.seq < m.seq}) < Limit}

Backlog ==
  /\ at = "backlog"
  /\ batch' = Page({m \in room : m.seq > cursor})
  /\ at' = "handle"
  /\ renumbered' = (renumbered /\ cursor # 0)
  /\ UNCHANGED <<room, head, gen, bump, posts, deletes, ledger, open, safe, probed, seen,
                 then, bounds, history>>

\* The check has its answer, and has noted the time.
Concluded ==
  LET read == ReadAfter(cursor - 1) IN
  \/ at \in {"export", "tail"}
  \/ at = "probe" /\ (cursor \in Seqs(read) \/ (read = {} /\ LastSeq(cursor - 1) < cursor - 1))

\* Any read or write of the ledger may fail, and ends the poll: before a check has its
\* answer, or after it and before the answer is written, or at the write of the cursor.
Fail ==
  /\ fails < MaxFails
  /\ fails' = fails + 1
  /\ PollEnds
  /\ \/ /\ at \in {"probe", "export", "tail", "read", "backlog"}
        /\ UNCHANGED <<probed, cut, blind>>
     \/ /\ Concluded
        /\ probed' = TRUE
        /\ blind' = (blind \/ renumbered)
        /\ UNCHANGED cut
     \/ /\ at = "advance"
        /\ cut' = cut + 1
        /\ UNCHANGED <<probed, blind>>
  /\ UNCHANGED <<upstream, ledger, open, safe, seen, then, crashes, handled, twice, stale>>
----------------------------------------------------------------------------
(* The messages. *)

Oldest == CHOOSE m \in batch : m.seq = Lowest(Seqs(batch))

\* What process_message can record: a signed line, with a text it can hash.
Recordable(i) == bodyOf[i].from # None /\ bodyOf[i].text # None

\* process_message records the message before it awaits anything ...
Handle ==
  /\ at = "handle"
  /\ batch # {} /\ open
  /\ \/ /\ Recordable(Oldest.id)
        /\ recorded' = [recorded EXCEPT ![Oldest.seq] = Oldest.id]
        /\ UNCHANGED fails
     \* ... but for one it refuses or cannot hash, which is handled without a record, ...
     \/ ~Recordable(Oldest.id) /\ UNCHANGED <<recorded, fails>>
     \* ... as is one whose record the ledger fails to write.
     \/ fails < MaxFails /\ fails' = fails + 1 /\ UNCHANGED recorded
  /\ handled' = handled \cup {Oldest.id}
  /\ twice' = twice \cup ({Oldest.id} \cap handled)
  /\ at' = "advance"
  /\ UNCHANGED <<upstream, cursor, epoch, open, safe, probed, seen, then, batch, crashes, cut,
                 stale, blind>>

NewCursor == Highest({cursor, Oldest.seq})

\* The cursor follows when it is done, recorded or not.
Advance ==
  /\ at = "advance"
  /\ cursor' = NewCursor
  /\ batch' = batch \ {Oldest}
  /\ at' = "handle"
  /\ UNCHANGED <<upstream, epoch, recorded, open, safe, probed, seen, then, bounds, history>>

\* The batch is done, or the gate closed on the way: the cursor stays where it is.  (With
\* nothing read it is set to the last_seq of the answer, which is the cursor: see Ends.)
EndPoll ==
  /\ at = "handle"
  /\ batch = {} \/ ~open
  /\ PollEnds
  /\ UNCHANGED <<upstream, ledger, open, safe, probed, seen, then, bounds, history>>

Crash ==
  /\ crashes < MaxCrashes
  /\ crashes' = crashes + 1
  /\ PollEnds
  /\ probed' = FALSE /\ seen' = None
  /\ cut' = IF at = "advance" THEN cut + 1 ELSE cut
  /\ UNCHANGED <<upstream, ledger, open, safe, then, fails, handled, twice, stale, blind>>

Gate ==
  /\ open' = ~open
  /\ UNCHANGED <<upstream, ledger, at, safe, probed, seen, then, batch, bounds, history>>

PollStep == StartPoll \/ Probe \/ ProbeExport \/ ProbeTail \/ ProbeRaises \/ Read \/ Backlog
            \/ Handle \/ Advance \/ EndPoll

Next == \/ Post \/ Bump \/ \E how \in Renumbers : Delete(how)
        \/ Gate \/ ProbeDue \/ PollStep \/ Fail \/ Crash

Spec == Init /\ [][Next]_vars

\* The loop polls for ever.
FairSpec == Spec /\ WF_vars(PollStep)
----------------------------------------------------------------------------
\* A room is read in order and without a gap: when a message that is in the room is
\* handled, so were all that the room holds before it, unless a check could not tell a
\* renumbered room or could not write that it had.
NothingSkipped ==
  [][at = "handle" /\ at' = "advance" /\ Oldest \in room /\ ~blind =>
       \A m \in room : m.seq < Oldest.seq => m.id \in handled]_vars

\* No message is handled twice but where its cursor could not be written after it, or a
\* check compared a line that left no record with an earlier lifetime's.
HandledOnce == stale \/ Cardinality(twice) <= cut

\* A check that is due now finds nothing to go by, or the wrong thing, or raises.
Unsure == blind \/ \E m \in AtCursor(room) : Raises(m) \/ (~Same(m) /\ m.id \in handled)

\* With the gate open for good, and a position a check can tell, every message is handled
\* or leaves the room: no cursor is held past the start of a room that was replaced.
EveryMessageSettles ==
  <>[](open /\ ~Unsure) => \A i \in Id : (\E m \in room : m.id = i)
                                         ~> (i \in handled \/ ~\E m \in room : m.id = i)

\* "Moving a cursor backwards is otherwise never allowed" (node.py:650): it goes back only
\* in a room that was replaced.
BackOnlyWhenReplaced == [][cursor' < cursor => renumbered]_vars
=============================================================================
