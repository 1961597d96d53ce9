------------------------------ MODULE Figures ------------------------------
(***************************************************************************)
(* Ledger.metrics and what build_metrics makes of it: the figures of       *)
(* /v1/metrics, the dashboard, the profile and the `metrics` command,      *)
(* read from the jobs table while JobRunner writes it.  There is no        *)
(* transaction around the reading: each SELECT sees the ledger as it is    *)
(* by then.  The reader holds its process's event loop, and the other      *)
(* processes go on in between.                                             *)
(***************************************************************************)
EXTENDS JobRunner, Integers, Sequences

CONSTANT Reader   \* the process that reads: the service, or one with no calls

\* A job_id is at most 64 characters of a fixed alphabet (jobs/schema.py).
ASSUME FiguresAssumption == Reader \in Proc /\ IsFiniteSet(Job)

VARIABLES
  asked,   \* queries answered so far
  rows     \* the rows each of them selected

figures == <<asked, rows>>

Rows == {j \in Job : jobs[j] # NoOne}
Tests == {j \in Rows : jobs[j].internal}
With(status) == {j \in Rows \ Tests : jobs[j].status = status}

\* What a query would select now; repeat_requester_dids and the latencies are read
\* from the rows of "requesters".
Select == [total |-> Rows, internal |-> Tests,
           completed |-> With("completed"), failed |-> With("failed"),
           requesters |-> Rows \ Tests]

\* Slip: the self-tests are counted first, and all jobs after them.
TestsFirst == <<"internal", "total", "completed", "failed", "requesters">>

QueryOrder == <<"total", "internal", "completed", "failed", "requesters">>

Query == {"total", "internal", "completed", "failed", "requesters"}
Nothing == [q \in Query |-> {}]

FiguresTypeOK ==
  /\ asked \in 0 .. Len(QueryOrder)
  /\ rows \in [Query -> SUBSET Job]

FiguresInit == Init /\ asked = 0 /\ rows = Nothing

\* The next SELECT.
Ask ==
  /\ asked < Len(QueryOrder)
  /\ LoopFree(Reader)
  /\ asked' = asked + 1
  /\ rows' = [rows EXCEPT ![QueryOrder[asked + 1]] = Select[QueryOrder[asked + 1]]]
  /\ UNCHANGED vars

\* The figures are out, or their reader is gone.
Leave ==
  /\ asked > 0
  /\ asked' = 0
  /\ rows' = Nothing
  /\ UNCHANGED vars

\* No attempt or caller of the reader's process moves while it reads.
LoopHeld == asked > 0 => \A c \in Call : procOf[c] = Reader =>
                           pc'[c] = pc[c] /\ state'[c] = state[c]

FiguresNext == \/ Ask
               \/ Leave
               \/ Next /\ LoopHeld /\ UNCHANGED figures

FiguresSpec == FiguresInit /\ [][FiguresNext]_<<vars, figures>>

\* total_jobs, as it is published: all jobs without the self-tests.
TotalJobs == Cardinality(rows.total) - Cardinality(rows.internal)

Read == asked = Len(QueryOrder)
----------------------------------------------------------------------------
\* The jobs of the ledger that no self-test asked for.
Theirs == {j \in Rows : <<jobs[j].owner, j>> \notin OwnTest}

\* A number this node's own tests produced is never counted as somebody else
\* using it (metrics/collect.py:3-7): whatever the two processes do between the
\* SELECTs, no published figure exceeds what third parties have really done.
TestsNeverCounted ==
  Read => /\ TotalJobs <= Cardinality(Theirs)
          /\ rows.completed \cup rows.failed \cup rows.requesters \subseteq Theirs

\* README.md:187: when nobody has used the node the answer is zero.
ZeroMeansZero == Read /\ Theirs = {} => TotalJobs = 0
============================================================================
