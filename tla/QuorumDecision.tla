--------------------------- MODULE QuorumDecision ---------------------------
(***************************************************************************)
(* What stdQuorumer.getResponse promises its callers (quorumResponse and  *)
(* putObject), stated without its loop, its selects or its tally array:   *)
(* it takes in at most one response from each worker, in some order, and  *)
(* then decides once, either for one of the responses it took whose       *)
(* class is not 5xx and is shared by at least q = ceil(R/2) of them, or   *)
(* for the synthetic 503. Nothing is taken in after it has decided.       *)
(***************************************************************************)
EXTENDS Integers, Sequences, FiniteSets

CONSTANT ReplicaCount

VARIABLES
    tally,      \* the responses taken in, in order: [w |-> worker, cls |-> class]
    decision    \* Undecided, GaveUp, or the index in tally of the response returned

Worker == 1..ReplicaCount
Q == (ReplicaCount + 1) \div 2
Class == 0..5

Undecided == 0
GaveUp == -1

Responded == {tally[k].w : k \in DOMAIN tally}

\* How many responses taken in have class c.
ClassCount(c) == Cardinality({k \in DOMAIN tally : tally[k].cls = c})

\* The k-th response may be returned: not a 5xx, and q of its class.
Representative(k) == tally[k].cls < 5 /\ ClassCount(tally[k].cls) >= Q

Init ==
    /\ tally = << >>
    /\ decision = Undecided

TakeIn(w, c) ==
    /\ decision = Undecided
    /\ w \notin Responded
    /\ tally' = Append(tally, [w |-> w, cls |-> c])
    /\ UNCHANGED decision

Decide(k) ==
    /\ decision = Undecided
    /\ Representative(k)
    /\ decision' = k
    /\ UNCHANGED tally

GiveUp ==
    /\ decision = Undecided
    /\ decision' = GaveUp
    /\ UNCHANGED tally

Next ==
    \/ \E w \in Worker, c \in Class : TakeIn(w, c)
    \/ \E k \in DOMAIN tally : Decide(k)
    \/ GiveUp

Spec == Init /\ [][Next]_<<tally, decision>>
=============================================================================
