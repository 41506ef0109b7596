------------------------ MODULE QuorumResponse_proofs ------------------------
(***************************************************************************)
(* Proofs about the quorum write path: type correctness, that a backend   *)
(* response is only ever returned when its class has reached the quorum   *)
(* threshold in the tally, that each worker is tallied once, and that     *)
(* getResponse implements QuorumDecision, for every replica count,        *)
(* handoff count and set of backend answers. The facts about getResponse  *)
(* alone come from QuorumCollector_proofs.                                 *)
(***************************************************************************)
EXTENDS QuorumResponse, QuorumCollector_proofs

USE ReplicaCountAssumption, HandoffsAssumption, ClassesAssumption

-----------------------------------------------------------------------------
(* Type correctness.                                                       *)

LEMMA InitTypeOK == Init => TypeOK
BY DEF Init, CollectorInit, TallyInit, TypeOK, Worker, Device, StatusClass, NoResp,
       NoResult, Unavailable

LEMMA CollectorTypeOK == TypeOK /\ CollectorStep => TypeOK'
<1> SUFFICES ASSUME TypeOK, CollectorStep PROVE TypeOK'
  OBVIOUS
<1>1. CASE LoopExhausted
  BY <1>1 DEF LoopExhausted, TypeOK, CollectorStep, Unavailable
<1>2. CASE LoopQuorum
  BY <1>2 DEF LoopQuorum, TypeOK, CollectorStep
<1>3. CASE LoopImpossible
  BY <1>3 DEF LoopImpossible, TypeOK, CollectorStep, Unavailable
<1>4. CASE LoopWait
  BY <1>4 DEF LoopWait, TypeOK, CollectorStep
<1>5. CASE WaitTimeout
  BY <1>5 DEF WaitTimeout, TypeOK, CollectorStep, Unavailable
<1>6. CASE GraceTimeout
  BY <1>6 DEF GraceTimeout, TypeOK, CollectorStep
<1>7. CASE GraceDone
  BY <1>7 DEF GraceDone, TypeOK, CollectorStep
<1>8. ASSUME NEW w \in Worker, WaitRecv(w) \/ GraceRecv(w)
      PROVE  TypeOK'
  <2>1. Deliver(w) BY <1>8 DEF WaitRecv, GraceRecv
  <2>2. responses' \in Seq(Response)
    BY <2>1 DEF Deliver, AddResponse, TypeOK, Response
  <2>3. counts' \in [StatusClass -> Nat]
    BY <2>1 DEF Deliver, AddResponse, TypeOK
  <2>4. wpc' \in [Worker -> {"request", "next", "advance", "deliver", "exit"}]
    BY <2>1 DEF Deliver, TypeOK
  <2>5. QED
    BY <1>8, <2>2, <2>3, <2>4 DEF WaitRecv, GraceRecv, TypeOK, CollectorStep
<1>9. QED
  BY <1>1, <1>2, <1>3, <1>4, <1>5, <1>6, <1>7, <1>8 DEF CollectorStep, Collector

LEMMA WorkerTypeOK ==
  ASSUME TypeOK, NEW w \in Worker, WorkerStep(w)
  PROVE  TypeOK'
<1>1. CASE RequestFailed(w)
  BY <1>1 DEF RequestFailed, TypeOK, collectorVars
<1>2. CASE \E c \in Classes : RequestAnswered(w, c)
  BY <1>2 DEF RequestAnswered, TypeOK, collectorVars, StatusClass
<1>3. CASE NextRead(w)
  BY <1>3 DEF NextRead, TypeOK, collectorVars
<1>4. CASE NextHandoff(w)
  BY <1>4 DEF NextHandoff, TypeOK, collectorVars, Device
<1>5. CASE NextExhausted(w)
  BY <1>5 DEF NextExhausted, TypeOK, collectorVars
<1>6. QED
  BY <1>1, <1>2, <1>3, <1>4, <1>5 DEF WorkerStep

\* The model's state always has the types its declarations give it.
THEOREM TypeCorrect == Spec => []TypeOK
<1>1. TypeOK /\ [Next]_vars => TypeOK'
  BY CollectorTypeOK, WorkerTypeOK DEF Next, vars, TypeOK
<1>2. QED
  BY InitTypeOK, <1>1, PTL DEF Spec

-----------------------------------------------------------------------------
(* A backend response is returned only with a quorum in its class.         *)

IInv == TypeOK /\ GraceChosen /\ NoResultYet /\ ResultHasQuorum

LEMMA TypeTally == TypeOK => TallyTypeOK
BY DEF TypeOK, TallyTypeOK

LEMMA IInvInit == Init => IInv
BY InitTypeOK DEF Init, CollectorInit, TallyInit, IInv, GraceChosen, NoResultYet,
                  ResultHasQuorum

LEMMA IInvCollector == IInv /\ CollectorStep => IInv'
<1> SUFFICES ASSUME IInv, CollectorStep PROVE IInv'
  OBVIOUS
<1>1. CInv
  BY TypeTally DEF IInv, CInv
<1>2. CInv'
  BY <1>1, CInvCollector DEF CollectorStep
<1>3. TypeOK'
  BY CollectorTypeOK DEF IInv
<1>4. QED
  BY <1>2, <1>3 DEF IInv, CInv

LEMMA IInvWorker ==
  ASSUME IInv, NEW w \in Worker, WorkerStep(w)
  PROVE  IInv'
<1>1. UNCHANGED collectorVars
  BY DEF WorkerStep, RequestFailed, RequestAnswered, NextRead, NextHandoff,
         NextExhausted
<1>2. QED
  BY <1>1, WorkerTypeOK DEF IInv, GraceChosen, NoResultYet, ResultHasQuorum,
                           HasQuorum, collectorVars

LEMMA IInvNext == IInv /\ [Next]_vars => IInv'
BY IInvCollector, IInvWorker DEF Next, vars, IInv, TypeOK, GraceChosen,
   NoResultYet, ResultHasQuorum, HasQuorum

\* Spec 8: every backend response getResponse returns has a class whose
\* count in q.responseClassCounts has reached q = ceil(R/2).
THEOREM ResultQuorum == Spec => []ResultHasQuorum
<1>1. IInv => ResultHasQuorum
  BY DEF IInv
<1>2. QED
  BY IInvInit, IInvNext, <1>1, PTL DEF Spec

-----------------------------------------------------------------------------
(* Each worker is tallied once, and the tally is exact.                    *)

\* Every worker whose response is in q.responses has left work().
Delivered == \A k \in 1..Len(responses) : wpc[responses[k].w] = "exit"

TInv == TypeOK /\ Delivered /\ OneResponsePerWorker /\ CountsExact

LEMMA TInvInit == Init => TInv
<1> SUFFICES ASSUME Init PROVE TInv
  OBVIOUS
<1>1. TypeOK
  BY InitTypeOK
<1>2. \A c \in 0..4 : ClassTally(c) = 0
  BY FS_EmptySet DEF Init, CollectorInit, TallyInit, ClassTally
<1>3. QED
  BY <1>1, <1>2 DEF Init, CollectorInit, TallyInit, TInv, Delivered,
                    OneResponsePerWorker, CountsExact, StatusClass

\* A worker's send on q.responsec keeps the tally exact and single.
LEMMA TInvDeliver ==
  ASSUME TInv, NEW w \in Worker, Deliver(w), TypeOK'
  PROVE  TInv'
<1>1. responses \in Seq(Response) /\ wresp[w] \in StatusClass
  BY DEF TInv, TypeOK
<1>2. w \notin {responses[k].w : k \in 1..Len(responses)}
  BY DEF TInv, Delivered, Deliver
<1>3. Delivered'
  BY <1>1 DEF TInv, TypeOK, Delivered, Deliver, AddResponse
<1>4. OneResponsePerWorker'
  BY <1>1, <1>2 DEF TInv, OneResponsePerWorker, Deliver, AddResponse
<1>5. CountsExact'
  BY TypeTally, CountsAfterAdd DEF TInv, Deliver
<1>6. QED
  BY <1>3, <1>4, <1>5 DEF TInv

LEMMA TInvNext == TInv /\ [Next]_vars => TInv'
<1> SUFFICES ASSUME TInv, [Next]_vars PROVE TInv'
  OBVIOUS
<1>0. TypeOK'
  BY TypeCorrect, CollectorTypeOK, WorkerTypeOK DEF TInv, Next, vars, TypeOK
<1>1. ASSUME NEW w \in Worker, WaitRecv(w) \/ GraceRecv(w) PROVE TInv'
  BY <1>0, <1>1, TInvDeliver DEF WaitRecv, GraceRecv
<1>2. ASSUME CollectorStep, ~\E w \in Worker : WaitRecv(w) \/ GraceRecv(w)
      PROVE  TInv'
  <2>1. UNCHANGED <<responses, counts, wpc>>
    BY <1>2 DEF CollectorStep, Collector, LoopExhausted, LoopQuorum,
                LoopImpossible, LoopWait, WaitTimeout, GraceTimeout, GraceDone
  <2>2. QED
    BY <1>0, <2>1 DEF TInv, Delivered, OneResponsePerWorker, CountsExact,
                      ClassTally
<1>3. ASSUME NEW w \in Worker, WorkerStep(w) PROVE TInv'
  <2>1. UNCHANGED <<responses, counts>>
    BY <1>3 DEF WorkerStep, RequestFailed, RequestAnswered, NextRead,
                NextHandoff, NextExhausted, collectorVars
  <2>2. wpc[w] \in {"request", "next", "advance"}
    BY <1>3 DEF WorkerStep, RequestFailed, RequestAnswered, NextRead,
                NextHandoff, NextExhausted
  <2>3. \A v \in Worker : v # w => wpc'[v] = wpc[v]
    BY <1>3 DEF WorkerStep, RequestFailed, RequestAnswered, NextRead,
                NextHandoff, NextExhausted, TInv, TypeOK
  <2>4. ASSUME NEW k \in 1..Len(responses) PROVE wpc'[responses[k].w] = "exit"
    <3>0. responses[k] \in Response
      BY DEF TInv, TypeOK
    <3>1. responses[k].w \in Worker
      BY <3>0 DEF Response
    <3>2. responses[k].w # w
      BY <2>2 DEF TInv, Delivered
    <3>3. QED
      BY <3>1, <3>2, <2>3 DEF TInv, Delivered
  <2>5. QED
    BY <1>0, <2>1, <2>4 DEF TInv, Delivered, OneResponsePerWorker,
                            CountsExact, ClassTally
<1>4. CASE UNCHANGED vars
  BY <1>0, <1>4 DEF vars, TInv, Delivered, OneResponsePerWorker, CountsExact,
                    ClassTally
<1>5. QED
  BY <1>1, <1>2, <1>3, <1>4 DEF Next

\* Spec 8: no worker's response is tallied twice (each worker sends on
\* q.responsec once, and then leaves work()).
THEOREM OneResponse == Spec => []OneResponsePerWorker
BY TInvInit, TInvNext, PTL DEF Spec, TInv

-----------------------------------------------------------------------------
(* getResponse implements QuorumDecision.                                  *)

LEMMA RefineInit == Init => Abstract!Init
BY RefineTallyInit DEF Init, CollectorInit

LEMMA RefineStep ==
  IInv /\ TInv /\ [Next]_vars => [Abstract!Next]_<<responses, result>>
<1> SUFFICES ASSUME IInv, TInv, [Next]_vars
             PROVE  [Abstract!Next]_<<responses, result>>
  OBVIOUS
<1>1. CASE CollectorStep
  <2>1. CInv /\ CountsExact
    BY TypeTally DEF IInv, CInv, TInv
  <2>2. \A v \in Worker : wpc[v] = "deliver" => v \notin Abstract!Responded
    BY DEF TInv, Delivered, Abstract!Responded
  <2>3. QED
    BY <1>1, <2>1, <2>2, CollectorRefines DEF CollectorStep
<1>2. ASSUME NEW w \in Worker, WorkerStep(w)
      PROVE  [Abstract!Next]_<<responses, result>>
  BY <1>2 DEF WorkerStep, RequestFailed, RequestAnswered, NextRead,
              NextHandoff, NextExhausted, collectorVars
<1>3. CASE UNCHANGED vars
  BY <1>3 DEF vars
<1>4. QED
  BY <1>1, <1>2, <1>3 DEF Next

\* Spec 4.4 and 8: quorumResponse's getResponse implements QuorumDecision
\* under the mapping tally <- q.responses, decision <- its result.
THEOREM Refinement == Spec => DecisionRefined
<1>1. Spec => [](IInv /\ TInv)
  BY IInvInit, IInvNext, TInvInit, TInvNext, PTL DEF Spec
<1>2. QED
  BY <1>1, RefineInit, RefineStep, PTL DEF Spec, DecisionRefined, Abstract!Spec

=============================================================================
