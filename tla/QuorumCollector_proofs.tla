----------------------- MODULE QuorumCollector_proofs -----------------------
(***************************************************************************)
(* Facts about stdQuorumer.addResponse and getResponse that hold whatever *)
(* workers feed q.responsec: the tally only grows, a quorum once reached  *)
(* is kept, the class counts stay exact, and getResponse keeps its three  *)
(* invariants (the chosen response has a quorum during the grace loop,    *)
(* nothing is returned before it ends, what it returns has a quorum).     *)
(* QuorumResponse_proofs and PutObject_proofs use them.                   *)
(***************************************************************************)
EXTENDS QuorumCollector, FiniteSetTheorems, TLAPS

\* The types of the tally and of the workers' responses.
TallyTypeOK ==
    /\ gpc \in {"idle", "loop", "wait", "grace", "done"}
    /\ gi \in Nat
    /\ responses \in Seq(Response)
    /\ counts \in [StatusClass -> Nat]
    /\ chosen \in Nat
    /\ result \in Nat \cup {Unavailable}
    /\ wresp \in [Worker -> StatusClass]

\* While getResponse is in its grace loop, r (responses[chosen]) is a
\* response of q.responses whose class has reached q.
GraceChosen ==
    gpc = "grace" => chosen \in 1..Len(responses) /\ HasQuorum(chosen)

\* getResponse has returned nothing while it is still running.
NoResultYet == gpc # "done" => result = NoResult

\* The part of the inductive invariant that is about getResponse alone.
CInv == TallyTypeOK /\ GraceChosen /\ NoResultYet /\ ResultHasQuorum

\* How many responses of class c q.responses holds.
ClassTally(c) == Cardinality({k \in DOMAIN responses : responses[k].cls = c})

\* q.responseClassCounts holds the number of responses of each non-5xx
\* class, and nothing for 5xx.
CountsExact ==
    /\ \A c \in 0..4 : counts[c] = ClassTally(c)
    /\ counts[5] = 0

-----------------------------------------------------------------------------
(* addResponse.                                                            *)

\* addResponse only appends, and the tally only grows.
LEMMA AddResponseGrows ==
  ASSUME TallyTypeOK, NEW w \in Worker, AddResponse(w)
  PROVE  /\ Len(responses') = Len(responses) + 1
         /\ \A k \in 1..Len(responses) : responses'[k] = responses[k]
         /\ responses' \in Seq(Response)
         /\ counts' \in [StatusClass -> Nat]
         /\ \A c \in StatusClass : counts'[c] >= counts[c]
<1>1. [w |-> w, cls |-> wresp[w]] \in Response
  BY DEF TallyTypeOK, Response
<1>2. responses' \in Seq(Response)
  BY <1>1 DEF AddResponse, TallyTypeOK
<1>3. QED
  BY <1>2 DEF AddResponse, TallyTypeOK

\* Hence a response that had a quorum keeps it.
LEMMA QuorumStable ==
  ASSUME TallyTypeOK, NEW w \in Worker, AddResponse(w),
         NEW k \in 1..Len(responses), HasQuorum(k)
  PROVE  k \in 1..Len(responses') /\ HasQuorum(k)'
<1>1. responses'[k] = responses[k] /\ Len(responses') = Len(responses) + 1
  BY AddResponseGrows
<1>2. responses[k].cls \in StatusClass
  <2>1. responses[k] \in Response
    BY DEF TallyTypeOK
  <2>2. QED
    BY <2>1 DEF Response
<1>3. counts'[responses[k].cls] >= counts[responses[k].cls]
  BY <1>2, AddResponseGrows
<1>4. counts'[responses[k].cls] \in Nat /\ counts[responses[k].cls] \in Nat
  <2>1. counts' \in [StatusClass -> Nat]
    BY AddResponseGrows
  <2>2. QED
    BY <1>2, <2>1 DEF TallyTypeOK
<1>5. Q \in Nat
  BY ReplicaCountAssumption DEF Q
<1>6. QED
  BY <1>1, <1>3, <1>4, <1>5 DEF HasQuorum

\* Appending a response to a sequence adds one to the count of its class.
LEMMA CountAppend ==
  ASSUME NEW s \in Seq(Response), NEW r \in Response, NEW c
  PROVE  Cardinality({k \in DOMAIN Append(s, r) : Append(s, r)[k].cls = c})
           = IF r.cls = c
               THEN Cardinality({k \in DOMAIN s : s[k].cls = c}) + 1
               ELSE Cardinality({k \in DOMAIN s : s[k].cls = c})
<1> DEFINE S == {k \in DOMAIN s : s[k].cls = c}
           T == {k \in DOMAIN Append(s, r) : Append(s, r)[k].cls = c}
           n == Len(s)
<1>1. IsFiniteSet(S)
  <2>1. IsFiniteSet(1..n) /\ S \subseteq 1..n
    BY FS_Interval
  <2>2. QED
    BY <2>1, FS_Subset
<1>2. n + 1 \notin S
  OBVIOUS
<1>3. CASE r.cls = c
  <2>1. T = S \cup {n + 1}
    BY <1>3
  <2>2. QED
    BY <1>1, <1>2, <1>3, <2>1, FS_AddElement
<1>4. CASE r.cls # c
  <2>1. T = S
    BY <1>4
  <2>2. QED
    BY <1>1, <1>4, <2>1
<1>5. QED
  BY <1>3, <1>4

\* addResponse keeps the class counts exact: it counts exactly the
\* responses below 500 (the early return on a 5xx).
LEMMA CountsAfterAdd ==
  ASSUME TallyTypeOK, CountsExact, NEW w \in Worker, AddResponse(w)
  PROVE  CountsExact'
<1>1. responses \in Seq(Response) /\ wresp[w] \in StatusClass
      /\ counts \in [StatusClass -> Nat]
  BY DEF TallyTypeOK
<1>2. ASSUME NEW c \in 0..4 PROVE counts'[c] = ClassTally(c)'
  <2> DEFINE r == [w |-> w, cls |-> wresp[w]]
  <2>1. r \in Response
    BY <1>1 DEF Response
  <2>2. ClassTally(c)' = IF wresp[w] = c THEN ClassTally(c) + 1
                                         ELSE ClassTally(c)
    <3>1. Cardinality({k \in DOMAIN Append(responses, r) :
                          Append(responses, r)[k].cls = c})
            = IF r.cls = c
                THEN Cardinality({k \in DOMAIN responses : responses[k].cls = c}) + 1
                ELSE Cardinality({k \in DOMAIN responses : responses[k].cls = c})
      BY <1>1, <2>1, CountAppend
    <3>2. QED
      BY <3>1 DEF ClassTally, AddResponse
  <2>3. counts[c] = ClassTally(c)
    BY DEF CountsExact
  <2>4. CASE wresp[w] >= 5
    BY <1>1, <2>2, <2>3, <2>4 DEF StatusClass, AddResponse
  <2>5. CASE wresp[w] < 5
    BY <1>1, <2>2, <2>3, <2>5 DEF StatusClass, AddResponse
  <2>6. QED
    BY <1>1, <2>4, <2>5 DEF StatusClass
<1>3. counts'[5] = 0
  BY <1>1 DEF CountsExact, StatusClass, AddResponse
<1>4. QED
  BY <1>2, <1>3 DEF CountsExact

-----------------------------------------------------------------------------
(* getResponse.                                                            *)

\* A step of getResponse keeps the tally well typed.
LEMMA CollectorTallyType ==
  ASSUME TallyTypeOK, Collector
  PROVE  TallyTypeOK'
<1>1. ASSUME NEW w \in Worker, WaitRecv(w) \/ GraceRecv(w) PROVE TallyTypeOK'
  <2>1. AddResponse(w)
    BY <1>1 DEF WaitRecv, GraceRecv, Deliver
  <2>2. QED
    BY <1>1, <2>1, AddResponseGrows DEF WaitRecv, GraceRecv, TallyTypeOK
<1>2. QED
  BY <1>1 DEF Collector, TallyTypeOK, LoopExhausted, LoopQuorum, LoopImpossible,
              LoopWait, WaitTimeout, GraceTimeout, GraceDone, Unavailable

\* A step of getResponse keeps its three invariants.
LEMMA CInvCollector ==
  ASSUME CInv, Collector
  PROVE  CInv'
<1>0. TallyTypeOK'
  BY CollectorTallyType DEF CInv
<1>1. CASE LoopExhausted \/ LoopImpossible \/ WaitTimeout
  BY <1>0, <1>1 DEF LoopExhausted, LoopImpossible, WaitTimeout, CInv,
                    GraceChosen, NoResultYet, ResultHasQuorum, Unavailable
<1>2. CASE LoopQuorum
  BY <1>0, <1>2 DEF LoopQuorum, CInv, GraceChosen, NoResultYet, ResultHasQuorum,
                    HasQuorum
<1>3. CASE LoopWait
  BY <1>0, <1>3 DEF LoopWait, CInv, GraceChosen, NoResultYet, ResultHasQuorum,
                    HasQuorum
<1>4. CASE GraceTimeout \/ GraceDone
  BY <1>0, <1>4 DEF GraceTimeout, GraceDone, CInv, GraceChosen, NoResultYet,
                    ResultHasQuorum, HasQuorum
<1>5. ASSUME NEW w \in Worker, WaitRecv(w) \/ GraceRecv(w)
      PROVE  CInv'
  <2>1. AddResponse(w) /\ UNCHANGED <<chosen, result>>
    BY <1>5 DEF WaitRecv, GraceRecv, Deliver
  <2>2. GraceChosen'
    <3>1. CASE WaitRecv(w)
      BY <3>1 DEF WaitRecv, GraceChosen
    <3>2. CASE GraceRecv(w)
      BY <3>2, <2>1, QuorumStable DEF GraceRecv, GraceChosen, CInv
    <3>3. QED
      BY <1>5, <3>1, <3>2
  <2>3. NoResultYet' /\ result = NoResult
    BY <1>5, <2>1 DEF WaitRecv, GraceRecv, NoResultYet, CInv
  <2>4. ResultHasQuorum'
    BY <2>1, <2>3 DEF ResultHasQuorum, NoResult
  <2>5. QED
    BY <1>0, <2>2, <2>3, <2>4 DEF CInv
<1>6. QED
  BY <1>1, <1>2, <1>3, <1>4, <1>5 DEF Collector

\* Steps of others that leave the collector's variables alone keep them.
LEMMA CInvFrame ==
  ASSUME CInv, UNCHANGED <<collectorVars, wresp>>
  PROVE  CInv'
BY DEF CInv, TallyTypeOK, GraceChosen, NoResultYet, ResultHasQuorum, HasQuorum,
       collectorVars

-----------------------------------------------------------------------------
(* getResponse implements QuorumDecision.                                  *)

\* The Cardinality of the abstract specification's instance of FiniteSets
\* is the Cardinality used here.
LEMMA CardSame == \A S : Abstract!Cardinality(S) = Cardinality(S)
BY DEF Abstract!Cardinality, Cardinality

LEMMA ClassCountIsTally == \A c : Abstract!ClassCount(c) = ClassTally(c)
BY CardSame DEF Abstract!ClassCount, ClassTally

LEMMA RefineTallyInit == TallyInit => Abstract!Init
BY DEF TallyInit, Abstract!Init, Abstract!Undecided, NoResult

\* The response the grace loop returns is one QuorumDecision may decide
\* for: its class is not 5xx (counts[5] stays 0), and counts is the tally.
LEMMA ChosenRepresentative ==
  ASSUME CInv, CountsExact, gpc = "grace"
  PROVE  chosen \in DOMAIN responses /\ Abstract!Representative(chosen)
<1>1. chosen \in 1..Len(responses) /\ counts[responses[chosen].cls] >= Q
  BY DEF CInv, GraceChosen, HasQuorum
<1>2. responses[chosen].cls \in StatusClass /\ counts \in [StatusClass -> Nat]
  <2>1. responses[chosen] \in Response
    BY <1>1 DEF CInv, TallyTypeOK
  <2>2. QED
    BY <2>1 DEF Response, CInv, TallyTypeOK
<1>3. Q \in Nat /\ Q >= 1
  BY ReplicaCountAssumption DEF Q
<1>4. responses[chosen].cls # 5
  <2>1. counts[5] = 0
    BY DEF CountsExact
  <2>2. counts[responses[chosen].cls] \in Nat
    BY <1>2
  <2>3. counts[responses[chosen].cls] # 0
    BY <1>1, <1>3, <2>2, SMT
  <2>4. QED
    BY <2>1, <2>3
<1>5. counts[responses[chosen].cls] = Abstract!ClassCount(responses[chosen].cls)
  BY <1>2, <1>4, ClassCountIsTally DEF CountsExact, StatusClass
<1>6. QED
  BY <1>1, <1>2, <1>4, <1>5 DEF Abstract!Representative, Abstract!Q, Q,
                                StatusClass

\* Each step of getResponse is a step of QuorumDecision or a stutter,
\* provided a worker blocked on its send has not been tallied before.
LEMMA CollectorRefines ==
  ASSUME CInv, CountsExact, Collector,
         \A v \in Worker : wpc[v] = "deliver" => v \notin Abstract!Responded
  PROVE  [Abstract!Next]_<<responses, result>>
<1>1. CASE LoopExhausted \/ LoopImpossible \/ WaitTimeout
  <2>1. result = NoResult
    BY <1>1 DEF CInv, NoResultYet, LoopExhausted, LoopImpossible, WaitTimeout
  <2>2. Abstract!GiveUp
    BY <1>1, <2>1 DEF Abstract!GiveUp, Abstract!Undecided, Abstract!GaveUp,
                      Unavailable, NoResult, LoopExhausted, LoopImpossible,
                      WaitTimeout
  <2>3. QED
    BY <2>2 DEF Abstract!Next
<1>2. CASE GraceTimeout \/ GraceDone
  <2>1. gpc = "grace" /\ result = NoResult
    BY <1>2 DEF CInv, NoResultYet, GraceTimeout, GraceDone
  <2>2. chosen \in DOMAIN responses /\ Abstract!Representative(chosen)
    BY <2>1, ChosenRepresentative
  <2>3. Abstract!Decide(chosen)
    BY <1>2, <2>1, <2>2 DEF Abstract!Decide, Abstract!Undecided, NoResult,
                            GraceTimeout, GraceDone
  <2>4. QED
    BY <2>2, <2>3 DEF Abstract!Next
<1>3. ASSUME NEW w \in Worker, WaitRecv(w) \/ GraceRecv(w)
      PROVE  [Abstract!Next]_<<responses, result>>
  <2>1. Deliver(w) /\ result' = result /\ gpc \in {"wait", "grace"}
    BY <1>3 DEF WaitRecv, GraceRecv
  <2>2. result = NoResult
    BY <2>1 DEF CInv, NoResultYet
  <2>3. w \notin Abstract!Responded
    BY <2>1 DEF Deliver
  <2>4. wresp[w] \in Abstract!Class
    BY DEF CInv, TallyTypeOK, StatusClass, Abstract!Class
  <2>5. Abstract!TakeIn(w, wresp[w])
    BY <2>1, <2>2, <2>3 DEF Abstract!TakeIn, Abstract!Undecided, NoResult,
                            Deliver, AddResponse
  <2>6. QED
    BY <2>4, <2>5 DEF Abstract!Next, Abstract!Worker, Worker
<1>4. CASE LoopQuorum \/ LoopWait
  BY <1>4 DEF LoopQuorum, LoopWait
<1>5. QED
  BY <1>1, <1>2, <1>3, <1>4 DEF Collector
=============================================================================
