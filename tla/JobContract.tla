---------------------------- MODULE JobContract ----------------------------
(***************************************************************************)
(* What the job pipeline promises, without saying how: a job identifier    *)
(* belongs to the first requester it is granted to, it is answered by at   *)
(* most one receipt, that receipt is never replaced, and the only callers  *)
(* it is handed to are the ones that speak for the requester it names.     *)
(* The node's own tests are answered as internal.                          *)
(***************************************************************************)
EXTENDS Naturals

CONSTANTS Call,         \* submissions of jobs
          Requester,    \* the did:keys that sign them
          Job,          \* job identifiers
          Body,         \* what a job asks for
          requesterOf,  \* [Call -> Requester]
          jobOf,        \* [Call -> Job]
          OwnTest,      \* the <<requester, job>> pairs the operator declares
          NoOne         \* no requester, no receipt

VARIABLES owner,        \* [Job -> Requester \cup {NoOne}]
          answer,       \* [Job -> Receipt \cup {NoOne}]
          shown         \* [Call -> Receipt \cup {NoOne}]

vars == <<owner, answer, shown>>

Receipt == [id : Nat, requester : Requester, internal : BOOLEAN, body : Body]

Init == /\ owner = [j \in Job |-> NoOne]
        /\ answer = [j \in Job |-> NoOne]
        /\ shown = [c \in Call |-> NoOne]

\* The identifier is granted to the requester of a call that names it.
Grant(c) == /\ owner[jobOf[c]] = NoOne
            /\ owner' = [owner EXCEPT ![jobOf[c]] = requesterOf[c]]
            /\ UNCHANGED <<answer, shown>>

\* A granted job is answered once, in its owner's name.
Answer(j) == /\ owner[j] # NoOne
             /\ answer[j] = NoOne
             /\ answer'[j] \in Receipt
             /\ answer'[j].requester = owner[j]
             /\ <<owner[j], j>> \in OwnTest => answer'[j].internal
             /\ answer' = [answer EXCEPT ![j] = answer'[j]]
             /\ UNCHANGED <<owner, shown>>

\* The answer is handed over: to its requester, and exactly as it is on record.
Show(c) == /\ shown[c] = NoOne
           /\ answer[jobOf[c]] # NoOne
           /\ owner[jobOf[c]] = requesterOf[c]
           /\ shown' = [shown EXCEPT ![c] = answer[jobOf[c]]]
           /\ UNCHANGED <<owner, answer>>

Next == \/ \E c \in Call : Grant(c) \/ Show(c)
        \/ \E j \in Job : Answer(j)

Spec == Init /\ [][Next]_vars
============================================================================
