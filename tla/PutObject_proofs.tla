--------------------------- MODULE PutObject_proofs ---------------------------
(***************************************************************************)
(* Proofs about the streaming object PUT (putObject): its state is well   *)
(* typed, a 2xx it returns stands for q backends that stored the whole    *)
(* body, and its getResponse implements QuorumDecision, for every replica *)
(* count, handoff count, body length and set of backend answers in which  *)
(* no backend answers 2xx before its body has ended.                      *)
(***************************************************************************)
EXTENDS PutObject, QuorumCollector_proofs

USE ReplicaCountAssumption, HandoffsAssumption, ChunksAssumption,
    EarlyClassesAssumption, FinalClassesAssumption, MidBodyClassesAssumption

\* w's backend answered 2xx for the whole body.
Durable(w) == banswer[w] = 2 /\ recv[w] = Chunks

\* Once q.start() has returned, every worker has called wg.Done: it awaits
\* its final answer, is blocked on q.responsec, or has returned.
Started == ppc # "start" => \A w \in Worker : wpc[w] \in {"await", "deliver", "exit"}

\* Nothing is copied before q.start() returns.
NothingCopied == ppc = "start" => copied = 0 /\ \A w \in Worker : recv[w] = 0

\* During common.Copy every listed writer has received every chunk copied.
CopyInStep == ppc = "copy" => \A w \in writers : recv[w] = copied

\* A worker that has not yet appended its writer has an open pipe.
OpenBeforeAwait ==
    \A w \in Worker : wpc[w] \in {"request", "next", "advance", "append"} => w \notin closed

\* A worker awaiting its final answer whose pipe is closed has had the
\* whole body: putObject closed it after a complete copy.
ClosedAwaitWhole == \A w \in Worker : w \in closed /\ wpc[w] = "await" => recv[w] = Chunks

\* A backend answers once its pipe is closed, or with what client.Do
\* returns mid-body.
AnswerAfterClose ==
    \A w \in Worker : banswer[w] # NoResp => w \in closed \/ banswer[w] \in MidBodyClasses

\* A worker's response is 2xx only if its backend stored the whole body.
TwoXXDurable == \A w \in Worker : wresp[w] = 2 => Durable(w) /\ w \in closed

\* Every worker whose response is in q.responses has left work(), and the
\* tallied class is that worker's response.
Delivered ==
    \A k \in 1..Len(responses) :
        /\ wpc[responses[k].w] = "exit"
        /\ wresp[responses[k].w] = responses[k].cls

\* The tally: who is in it, once each, and counted exactly.
TallyInv == Delivered /\ OneResponsePerWorker /\ CountsExact

\* getResponse is only called after the copy.
CollectAfterCopy == ppc # "collect" => gpc = "idle"

\* The pipes and the body.
BodyInv ==
    /\ Started /\ NothingCopied /\ CopyInStep /\ OpenBeforeAwait
    /\ ClosedAwaitWhole /\ AnswerAfterClose /\ CollectAfterCopy

\* The inductive invariant: getResponse's own (CInv), the tally's and the
\* body's. It holds whatever the backends answer.
PInv == TypeOK /\ GraceChosen /\ NoResultYet /\ ResultHasQuorum /\ TallyInv /\ BodyInv

\* With TwoXXDurable, the inductive invariant for DurableQuorum.
DInv == PInv /\ TwoXXDurable

LEMMA TypeTally == TypeOK => TallyTypeOK
BY DEF TypeOK, TallyTypeOK

LEMMA PInvInit == Init => PInv
<1> SUFFICES ASSUME Init PROVE PInv
  OBVIOUS
<1>1. TypeOK
  BY DEF Init, TallyInit, TypeOK, Worker, Device, StatusClass, NoResp,
         NoResult, Unavailable, WorkerState
<1>2. \A c \in 0..4 : ClassTally(c) = 0
  BY FS_EmptySet DEF Init, TallyInit, ClassTally
<1>3. QED
  BY <1>1, <1>2 DEF Init, TallyInit, PInv, TallyInv, BodyInv, GraceChosen, NoResultYet,
     ResultHasQuorum, Delivered, OneResponsePerWorker, CountsExact, StatusClass,
     Started, NothingCopied, CopyInStep, OpenBeforeAwait, ClosedAwaitWhole,
     AnswerAfterClose, CollectAfterCopy, NoResp


\* A step of one worker that leaves getResponse alone, moves no worker out
\* of "exit" and changes no other worker's state keeps the tally's
\* invariants: every tallied worker has exited.
LEMMA TallyFrame ==
  ASSUME PInv, NEW w \in Worker,
         UNCHANGED collectorVars, wpc[w] # "exit",
         \A v \in Worker \ {w} : wpc'[v] = wpc[v] /\ wresp'[v] = wresp[v]
  PROVE  (GraceChosen /\ NoResultYet /\ ResultHasQuorum /\ TallyInv)'
<1>1. (GraceChosen /\ NoResultYet /\ ResultHasQuorum)'
  BY DEF PInv, GraceChosen, NoResultYet, ResultHasQuorum, HasQuorum,
         collectorVars
<1>2. Delivered'
  <2> SUFFICES ASSUME NEW k \in 1..Len(responses)
               PROVE  /\ wpc'[responses[k].w] = "exit"
                      /\ wresp'[responses[k].w] = responses[k].cls
    BY DEF Delivered, collectorVars
  <2>1. responses[k].w \in Worker
    <3>1. responses[k] \in Response
      BY DEF PInv, TypeOK
    <3>2. QED
      BY <3>1 DEF Response
  <2>2. responses[k].w # w
    BY DEF PInv, TallyInv, Delivered
  <2>3. QED
    BY <2>1, <2>2 DEF PInv, TallyInv, Delivered
<1>3. (OneResponsePerWorker /\ CountsExact)'
  BY DEF PInv, TallyInv, OneResponsePerWorker, CountsExact, ClassTally,
         collectorVars
<1>4. QED
  BY <1>1, <1>2, <1>3 DEF TallyInv

\* A worker still in "request" is in q.start(): workerGroup.Wait() has not
\* returned.
LEMMA RequestInStart ==
  ASSUME PInv, NEW w \in Worker, wpc[w] \in {"request", "next", "advance", "append"}
  PROVE  ppc = "start"
BY DEF PInv, BodyInv, Started

\* Every step of quorumWorker.work keeps PInv.
LEMMA WorkerInv ==
  ASSUME PInv, NEW w \in Worker, WorkerStep(w)
  PROVE  PInv'
<1> USE DEF PInv, TypeOK, BodyInv
<1>1. (GraceChosen /\ NoResultYet /\ ResultHasQuorum /\ TallyInv)'
  <2>1. UNCHANGED collectorVars /\ wpc[w] # "exit"
    BY DEF WorkerStep, EarlyFailed, EarlyAnswered, NextRead, NextHandoff,
           NextExhausted, Continued, AddWriter, FinalAnswered, PutTimeout
  <2>2. \A v \in Worker \ {w} : wpc'[v] = wpc[v] /\ wresp'[v] = wresp[v]
    BY DEF WorkerStep, EarlyFailed, EarlyAnswered, NextRead, NextHandoff,
           NextExhausted, Continued, AddWriter, FinalAnswered, PutTimeout
  <2>3. QED
    BY <2>1, <2>2, TallyFrame
<1> SUFFICES TypeOK' /\ BodyInv'
  BY <1>1
<1> DEFINE Body == Started /\ NothingCopied /\ CopyInStep /\ OpenBeforeAwait
                   /\ ClosedAwaitWhole /\ AnswerAfterClose /\ CollectAfterCopy
<1> USE DEF Started, NothingCopied, CopyInStep, OpenBeforeAwait,
            ClosedAwaitWhole, AnswerAfterClose, CollectAfterCopy, WorkerState,
            collectorVars
<1>2. CASE EarlyFailed(w)
  <2>1. ppc = "start"
    BY <1>2, RequestInStart DEF EarlyFailed
  <2>2. QED
    BY <1>2, <2>1 DEF EarlyFailed
<1>3. ASSUME NEW c \in EarlyClasses, EarlyAnswered(w, c)
      PROVE  TypeOK' /\ BodyInv'
  <2>1. c \in StatusClass
    BY EarlyClassesAssumption DEF StatusClass
  <2>2. ppc = "start"
    BY <1>3, RequestInStart DEF EarlyAnswered
  <2>3. QED
    BY <1>3, <2>1, <2>2 DEF EarlyAnswered, putVars
<1>4. CASE NextRead(w)
  <2>1. ppc = "start"
    BY <1>4, RequestInStart DEF NextRead
  <2>2. QED
    BY <1>4, <2>1 DEF NextRead
<1>5. CASE NextHandoff(w)
  <2>1. wlocal[w] \in 1..Handoffs /\ ReplicaCount + wlocal[w] \in Device
    BY <1>5 DEF NextHandoff, Device
  <2>2. ppc = "start"
    BY <1>5, RequestInStart DEF NextHandoff
  <2>3. QED
    BY <1>5, <2>1, <2>2 DEF NextHandoff
<1>6. CASE NextExhausted(w)
  <2>1. ppc = "start"
    BY <1>6, RequestInStart DEF NextExhausted
  <2>2. QED
    BY <1>6, <2>1 DEF NextExhausted, putVars
<1>7. CASE Continued(w)
  <2>1. ppc = "start"
    BY <1>7, RequestInStart DEF Continued
  <2>2. QED
    BY <1>7, <2>1 DEF Continued
<1>8. CASE AddWriter(w)
  <2>1. ppc = "start"
    BY <1>8, RequestInStart DEF AddWriter
  <2>2. QED
    BY <1>8, <2>1 DEF AddWriter
<1>9. CASE FinalAnswered(w)
  BY <1>9 DEF FinalAnswered, putVars
<1>10. CASE PutTimeout(w)
  BY <1>10 DEF PutTimeout
<1>11. QED
  BY <1>2, <1>3, <1>4, <1>5, <1>6, <1>7, <1>8, <1>9, <1>10 DEF WorkerStep

\* A backend's answer keeps PInv.
LEMMA BackendInv ==
  ASSUME PInv, NEW w \in Worker, BackendStep(w)
  PROVE  PInv'
<1>1. PICK c \in FinalClasses : BackendAnswered(w, c)
  BY DEF BackendStep
<1>2. c \in StatusClass
  BY FinalClassesAssumption DEF StatusClass
<1>3. (GraceChosen /\ NoResultYet /\ ResultHasQuorum /\ TallyInv)'
  BY <1>1 DEF BackendAnswered, PInv, GraceChosen, NoResultYet, ResultHasQuorum,
              HasQuorum, TallyInv, Delivered, OneResponsePerWorker, CountsExact,
              ClassTally, collectorVars
<1>4. TypeOK' /\ BodyInv'
  BY <1>1, <1>2 DEF BackendAnswered, PInv, TypeOK, BodyInv, Started,
                    NothingCopied, CopyInStep, OpenBeforeAwait, ClosedAwaitWhole,
                    AnswerAfterClose, CollectAfterCopy, collectorVars
<1>5. QED
  BY <1>3, <1>4 DEF PInv

\* A failure of the client's body or of a backend connection keeps PInv.
LEMMA FailureInv ==
  ASSUME PInv, FailureStep
  PROVE  PInv'
<1>1. CASE CopySourceFailed
  BY <1>1 DEF CopySourceFailed, PInv, TypeOK, GraceChosen, NoResultYet,
              ResultHasQuorum, HasQuorum, TallyInv, Delivered,
              OneResponsePerWorker, CountsExact, ClassTally, BodyInv, Started,
              NothingCopied, CopyInStep, OpenBeforeAwait, ClosedAwaitWhole,
              AnswerAfterClose, CollectAfterCopy, collectorVars
<1>2. ASSUME NEW w \in Worker, NEW c \in MidBodyClasses, BackendAborted(w, c)
      PROVE  PInv'
  <2>1. c \in StatusClass
    BY MidBodyClassesAssumption DEF StatusClass
  <2>2. (GraceChosen /\ NoResultYet /\ ResultHasQuorum /\ TallyInv)'
    BY <1>2 DEF BackendAborted, PInv, GraceChosen, NoResultYet, ResultHasQuorum,
                HasQuorum, TallyInv, Delivered, OneResponsePerWorker,
                CountsExact, ClassTally, collectorVars
  <2>3. TypeOK' /\ BodyInv'
    BY <1>2, <2>1 DEF BackendAborted, PInv, TypeOK, BodyInv, Started,
                      NothingCopied, CopyInStep, OpenBeforeAwait,
                      ClosedAwaitWhole, AnswerAfterClose, CollectAfterCopy,
                      collectorVars
  <2>4. QED
    BY <2>2, <2>3 DEF PInv
<1>3. QED
  BY <1>1, <1>2 DEF FailureStep

\* The steps of putObject that leave getResponse and the workers alone
\* keep the tally's invariants.
LEMMA PutFrame ==
  ASSUME PInv, UNCHANGED <<gi, responses, counts, chosen, result, wpc, wresp>>,
         gpc' = gpc \/ (gpc' = "loop" /\ gpc = "idle")
  PROVE  (GraceChosen /\ NoResultYet /\ ResultHasQuorum /\ TallyInv)'
BY DEF PInv, GraceChosen, NoResultYet, ResultHasQuorum, HasQuorum, TallyInv,
       Delivered, OneResponsePerWorker, CountsExact, ClassTally

\* Every step of putObject itself keeps PInv.
LEMMA PutInv ==
  ASSUME PInv, PutStep
  PROVE  PInv'
<1> USE DEF PInv, TypeOK, BodyInv, Started, NothingCopied, CopyInStep,
            OpenBeforeAwait, ClosedAwaitWhole, AnswerAfterClose,
            CollectAfterCopy, collectorVars
<1>1. (GraceChosen /\ NoResultYet /\ ResultHasQuorum /\ TallyInv)'
  <2>1. gpc' = gpc \/ (gpc' = "loop" /\ gpc = "idle")
    BY DEF PutStep, StartUnavailable, StartCopy, CopyChunk, CopyFailed, CopyDone
  <2>2. QED
    BY <2>1, PutFrame DEF PutStep, StartUnavailable, StartCopy, CopyChunk,
                          CopyFailed, CopyDone
<1> SUFFICES TypeOK' /\ BodyInv'
  BY <1>1
<1>2. CASE StartUnavailable
  BY <1>2 DEF StartUnavailable, WorkersStarted
<1>3. CASE StartCopy
  BY <1>3 DEF StartCopy, WorkersStarted
<1>4. CASE CopyChunk
  <2>1. \A w \in writers : recv[w] + 1 \in 0..Chunks
    BY <1>4 DEF CopyChunk
  <2>2. recv' \in [Worker -> 0..Chunks]
    BY <1>4, <2>1 DEF CopyChunk
  <2>3. ClosedAwaitWhole'
    BY <1>4 DEF CopyChunk
  <2>4. QED
    BY <1>4, <2>2, <2>3 DEF CopyChunk
<1>5. CASE CopyFailed
  BY <1>5 DEF CopyFailed
<1>6. CASE CopyDone
  <2>1. ClosedAwaitWhole'
    BY <1>6 DEF CopyDone
  <2>2. QED
    BY <1>6, <2>1 DEF CopyDone
<1>7. QED
  BY <1>2, <1>3, <1>4, <1>5, <1>6 DEF PutStep

\* getResponse's receipt of a response keeps the tally's invariants.
LEMMA TallyDeliver ==
  ASSUME PInv, NEW w \in Worker, Deliver(w), UNCHANGED wresp
  PROVE  TallyInv'
<1>1. responses \in Seq(Response) /\ wresp[w] \in StatusClass
  BY DEF PInv, TypeOK
<1>2. w \notin {responses[k].w : k \in 1..Len(responses)}
  BY DEF PInv, TallyInv, Delivered, Deliver
<1>3. Delivered'
  BY <1>1 DEF PInv, TypeOK, TallyInv, Delivered, Deliver, AddResponse
<1>4. OneResponsePerWorker'
  <2> DEFINE r == [w |-> w, cls |-> wresp[w]]
  <2>1. responses' = Append(responses, r)
    BY DEF Deliver, AddResponse
  <2>2. /\ Len(responses') = Len(responses) + 1
        /\ \A k \in 1..Len(responses) : responses'[k] = responses[k]
        /\ responses'[Len(responses) + 1] = r
    BY <1>1, <2>1
  <2>3. \A i, j \in 1..Len(responses) : i # j => responses[i].w # responses[j].w
    BY DEF PInv, TallyInv, OneResponsePerWorker
  <2>4. QED
    BY <1>1, <1>2, <2>2, <2>3 DEF OneResponsePerWorker
<1>5. CountsExact'
  BY TypeTally, CountsAfterAdd DEF PInv, TallyInv, Deliver
<1>6. QED
  BY <1>3, <1>4, <1>5 DEF TallyInv

\* Every step of getResponse keeps PInv.
LEMMA CollectorInv ==
  ASSUME PInv, CollectorStep
  PROVE  PInv'
<1>1. CInv
  BY TypeTally DEF PInv, CInv
<1>2. CInv'
  BY <1>1, CInvCollector DEF CollectorStep
<1>3. gpc # "idle" /\ ppc = "collect"
  BY DEF CollectorStep, Collector, LoopExhausted, LoopQuorum, LoopImpossible,
         LoopWait, WaitTimeout, GraceTimeout, GraceDone, WaitRecv, GraceRecv,
         PInv, BodyInv, CollectAfterCopy
<1>4. CASE \E w \in Worker : WaitRecv(w) \/ GraceRecv(w)
  <2>1. PICK w \in Worker : WaitRecv(w) \/ GraceRecv(w)
    BY <1>4
  <2>2. Deliver(w) /\ UNCHANGED wresp /\ UNCHANGED putVars
    BY <2>1 DEF WaitRecv, GraceRecv, CollectorStep
  <2>3. TallyInv'
    BY <2>2, TallyDeliver
  <2>4. wpc[w] = "deliver" /\ wpc' = [wpc EXCEPT ![w] = "exit"]
    BY <2>2 DEF Deliver
  <2>5. TypeOK'
    BY <1>2, <2>2, <2>4 DEF PInv, TypeOK, CInv, TallyTypeOK, putVars,
                           WorkerState
  <2>6. BodyInv'
    BY <1>3, <2>2, <2>4 DEF PInv, TypeOK, BodyInv, Started, NothingCopied,
                           CopyInStep, OpenBeforeAwait, ClosedAwaitWhole,
                           AnswerAfterClose, CollectAfterCopy, putVars
  <2>7. QED
    BY <1>2, <2>3, <2>5, <2>6 DEF PInv, CInv
<1>5. CASE ~\E w \in Worker : WaitRecv(w) \/ GraceRecv(w)
  <2>1. UNCHANGED <<gi, responses, counts, wpc, wresp, putVars>>
    BY <1>5 DEF CollectorStep, Collector, LoopExhausted, LoopQuorum,
                LoopImpossible, LoopWait, WaitTimeout, GraceTimeout, GraceDone
  <2>2. TallyInv'
    BY <2>1 DEF PInv, TallyInv, Delivered, OneResponsePerWorker, CountsExact,
                ClassTally
  <2>3. TypeOK'
    BY <1>2, <2>1 DEF PInv, TypeOK, CInv, TallyTypeOK, putVars
  <2>4. BodyInv'
    BY <1>3, <2>1 DEF PInv, BodyInv, Started, NothingCopied, CopyInStep,
                      OpenBeforeAwait, ClosedAwaitWhole, AnswerAfterClose,
                      CollectAfterCopy, putVars
  <2>5. QED
    BY <1>2, <2>2, <2>3, <2>4 DEF PInv, CInv
<1>6. QED
  BY <1>4, <1>5

\* PInv is inductive.
LEMMA PInvNext ==
  ASSUME PInv, [Next]_vars
  PROVE  PInv'
<1>1. CASE PutStep
  BY <1>1, PutInv
<1>2. CASE CollectorStep
  BY <1>2, CollectorInv
<1>3. ASSUME NEW w \in Worker, WorkerStep(w) PROVE PInv'
  BY <1>3, WorkerInv
<1>4. ASSUME NEW w \in Worker, BackendStep(w) PROVE PInv'
  BY <1>4, BackendInv
<1>7. CASE FailureStep
  BY <1>7, FailureInv
<1>5. CASE UNCHANGED vars
  BY <1>5 DEF vars, putVars, PInv, TypeOK, GraceChosen, NoResultYet,
              ResultHasQuorum, HasQuorum, TallyInv, Delivered,
              OneResponsePerWorker, CountsExact, ClassTally, BodyInv, Started,
              NothingCopied, CopyInStep, OpenBeforeAwait, ClosedAwaitWhole,
              AnswerAfterClose, CollectAfterCopy
<1>6. QED
  BY <1>1, <1>2, <1>3, <1>4, <1>5, <1>7 DEF Next

\* putObject, its workers, their backends and getResponse keep every
\* variable in its type, whatever the backends answer.
THEOREM TypeCorrect == Spec => []TypeOK
<1>1. Init => PInv
  BY PInvInit
<1>2. PInv /\ [Next]_vars => PInv'
  BY PInvNext
<1>3. PInv => TypeOK
  BY DEF PInv
<1>4. QED
  BY <1>1, <1>2, <1>3, PTL DEF Spec

\* No backend answers 2xx before its 100-continue: an early 2xx would be a
\* response for a body the backend never read.
NoEarly2xx == 2 \notin EarlyClasses

\* Nor while its body is still being sent: a transport error is a 500, and
\* an object server that stops reading the body answers with an error.
NoMidBody2xx == 2 \notin MidBodyClasses

\* A worker's 2xx keeps standing for a backend that stored the whole body.
LEMMA TwoXXNext ==
  ASSUME NoEarly2xx, NoMidBody2xx, PInv, TwoXXDurable, [Next]_vars
  PROVE  TwoXXDurable'
<1> USE DEF TwoXXDurable, Durable, PInv, TypeOK
<1>1. ASSUME NEW w \in Worker, WorkerStep(w) PROVE TwoXXDurable'
  <2>1. CASE \E c \in EarlyClasses : EarlyAnswered(w, c)
    BY <2>1 DEF NoEarly2xx, EarlyAnswered, putVars
  <2>2. CASE FinalAnswered(w)
    <3>1. banswer[w] = 2 => w \in closed /\ recv[w] = Chunks
      BY <2>2 DEF FinalAnswered, BodyInv, AnswerAfterClose, ClosedAwaitWhole,
                  NoResp, NoMidBody2xx
    <3>2. QED
      BY <2>2, <3>1 DEF FinalAnswered, putVars
  <2>3. CASE EarlyFailed(w) \/ NextRead(w) \/ NextHandoff(w) \/ NextExhausted(w)
             \/ Continued(w) \/ AddWriter(w) \/ PutTimeout(w)
    BY <2>3 DEF EarlyFailed, NextRead, NextHandoff, NextExhausted, Continued,
                AddWriter, PutTimeout, putVars
  <2>4. QED
    BY <1>1, <2>1, <2>2, <2>3 DEF WorkerStep
<1>2. ASSUME NEW w \in Worker, BackendStep(w) PROVE TwoXXDurable'
  <2>1. PICK c \in FinalClasses : BackendAnswered(w, c)
    BY <1>2 DEF BackendStep
  <2>2. wresp[w] # 2
    BY <2>1 DEF BackendAnswered, NoResp
  <2>3. QED
    BY <2>1, <2>2 DEF BackendAnswered
<1>3. CASE PutStep
  <2>1. CASE CopyChunk
    <3>1. \A v \in Worker : wresp[v] = 2 => v \notin writers
      BY <2>1 DEF CopyChunk
    <3>2. QED
      BY <2>1, <3>1 DEF CopyChunk
  <2>2. CASE StartUnavailable \/ StartCopy \/ CopyFailed \/ CopyDone
    BY <2>2 DEF StartUnavailable, StartCopy, CopyFailed, CopyDone
  <2>3. QED
    BY <1>3, <2>1, <2>2 DEF PutStep
<1>4. CASE CollectorStep
  <2>1. UNCHANGED <<wresp, banswer, recv, closed>>
    BY <1>4 DEF CollectorStep, Collector, LoopExhausted, LoopQuorum,
                LoopImpossible, LoopWait, WaitTimeout, GraceTimeout, GraceDone,
                WaitRecv, GraceRecv, putVars
  <2>2. QED
    BY <2>1
<1>7. CASE FailureStep
  <2>1. CASE CopySourceFailed
    BY <2>1 DEF CopySourceFailed
  <2>2. ASSUME NEW w \in Worker, NEW c \in MidBodyClasses, BackendAborted(w, c)
        PROVE  TwoXXDurable'
    <3>1. wresp[w] # 2
      BY <2>2 DEF BackendAborted, NoResp
    <3>2. QED
      BY <2>2, <3>1 DEF BackendAborted
  <2>3. QED
    BY <1>7, <2>1, <2>2 DEF FailureStep
<1>5. CASE UNCHANGED vars
  BY <1>5 DEF vars, putVars
<1>6. QED
  BY <1>1, <1>2, <1>3, <1>4, <1>5, <1>7 DEF Next

\* DInv is inductive when no backend answers 2xx early.
LEMMA DInvNext ==
  ASSUME NoEarly2xx, NoMidBody2xx, DInv, [Next]_vars
  PROVE  DInv'
BY PInvNext, TwoXXNext DEF DInv

\* The responses of class c that getResponse tallied come from distinct
\* workers, each of which has a 2xx: the tally injects into the durable
\* backends.
LEMMA TallyInjectsDurable ==
  ASSUME DInv
  PROVE  ClassTally(2) <= Cardinality({w \in Worker : Durable(w)})
<1> DEFINE K == {k \in DOMAIN responses : responses[k].cls = 2}
           D == {w \in Worker : Durable(w)}
           f == [k \in K |-> responses[k].w]
<1>1. responses \in Seq(Response) /\ DOMAIN responses = 1..Len(responses)
  BY DEF DInv, PInv, TypeOK
<1>2. \A k \in K : responses[k].w \in Worker /\ wresp[responses[k].w] = 2
  <2> SUFFICES ASSUME NEW k \in K
               PROVE  responses[k].w \in Worker /\ wresp[responses[k].w] = 2
    OBVIOUS
  <2>1. k \in 1..Len(responses) /\ responses[k].cls = 2
    BY <1>1
  <2>2. responses[k] \in Response
    BY <1>1, <2>1
  <2>3. responses[k].w \in Worker
    BY <2>2 DEF Response
  <2>4. wresp[responses[k].w] = responses[k].cls
    BY <2>1 DEF DInv, PInv, TallyInv, Delivered
  <2>5. QED
    BY <2>1, <2>3, <2>4
<1>3. f \in [K -> D]
  BY <1>2 DEF DInv, TwoXXDurable
<1>4. IsInjective(f)
  BY <1>1 DEF DInv, PInv, TallyInv, OneResponsePerWorker, IsInjective
<1>5. IsFiniteSet(D)
  <2>1. IsFiniteSet(Worker)
    BY FS_Interval DEF Worker
  <2>2. QED
    BY <2>1, FS_Subset
<1>6. f \in Injection(K, D)
  BY <1>3, <1>4 DEF Injection
<1>7. QED
  BY <1>5, <1>6, FS_Injection DEF ClassTally

\* Spec 4.5 and 8, for every replica count, handoff count and body length,
\* and whatever the backends answer after the body: a 2xx that putObject
\* returns from getResponse stands for q backends that each answered 2xx
\* for the whole body. It rests on no backend answering 2xx before its
\* 100-continue or before the end of its body.
THEOREM DurableQuorumHolds ==
  ASSUME NoEarly2xx, NoMidBody2xx
  PROVE  Spec => []DurableQuorum
<1>1. Init => DInv
  <2>1. Init => TwoXXDurable
    BY DEF Init, TwoXXDurable, NoResp
  <2>2. QED
    BY <2>1, PInvInit DEF DInv
<1>2. DInv /\ [Next]_vars => DInv'
  BY DInvNext
<1>3. DInv => DurableQuorum
  <2> SUFFICES ASSUME DInv, gpc = "done", result \in 1..Len(responses),
                      responses[result].cls = 2
               PROVE  Q <= Cardinality({w \in Worker : Durable(w)})
    BY DEF DurableQuorum, Durable
  <2>1. counts[2] >= Q
    BY DEF DInv, PInv, ResultHasQuorum
  <2>2. counts[2] = ClassTally(2)
    BY DEF DInv, PInv, TallyInv, CountsExact
  <2>3. ClassTally(2) <= Cardinality({w \in Worker : Durable(w)})
    BY TallyInjectsDurable
  <2>4. Q \in Nat
    BY ReplicaCountAssumption DEF Q
  <2>6. counts[2] \in Nat
    BY DEF DInv, PInv, TypeOK, StatusClass
  <2>7. Cardinality({w \in Worker : Durable(w)}) \in Nat
    <3>1. IsFiniteSet(Worker)
      BY FS_Interval DEF Worker
    <3>2. IsFiniteSet({w \in Worker : Durable(w)})
      BY <3>1, FS_Subset
    <3>3. QED
      BY <3>2, FS_CardinalityType
  <2>5. QED
    BY <2>1, <2>2, <2>3, <2>4, <2>6, <2>7
<1>4. QED
  BY <1>1, <1>2, <1>3, PTL DEF Spec

\* Every step of the streaming PUT is a step of QuorumDecision on
\* (q.responses, result) or leaves both alone.
LEMMA RefineStep ==
  ASSUME PInv, [Next]_vars
  PROVE  [Abstract!Next]_<<responses, result>>
<1>1. CASE CollectorStep
  <2>1. CInv /\ CountsExact
    BY TypeTally DEF PInv, CInv, TallyInv
  <2>2. \A v \in Worker : wpc[v] = "deliver" => v \notin Abstract!Responded
    BY DEF PInv, TallyInv, Delivered, Abstract!Responded
  <2>3. QED
    BY <1>1, <2>1, <2>2, CollectorRefines DEF CollectorStep
<1>2. CASE PutStep
  BY <1>2 DEF PutStep, StartUnavailable, StartCopy, CopyChunk, CopyFailed,
              CopyDone, collectorVars
<1>3. ASSUME NEW w \in Worker, WorkerStep(w) \/ BackendStep(w)
      PROVE  [Abstract!Next]_<<responses, result>>
  BY <1>3 DEF WorkerStep, EarlyFailed, EarlyAnswered, NextRead, NextHandoff,
              NextExhausted, Continued, AddWriter, FinalAnswered, PutTimeout,
              BackendStep, BackendAnswered, collectorVars
<1>6. CASE FailureStep
  BY <1>6 DEF FailureStep, CopySourceFailed, BackendAborted, collectorVars
<1>4. CASE UNCHANGED vars
  BY <1>4 DEF vars
<1>5. QED
  BY <1>1, <1>2, <1>3, <1>4, <1>6 DEF Next

\* Spec 4.4 and 8: the getResponse that putObject calls after the copy
\* implements QuorumDecision under tally <- q.responses, decision <- its
\* result, whatever the backends answer; the copy, the workers and the
\* backends only stutter it.
THEOREM Refinement == Spec => DecisionRefined
<1>1. Spec => []PInv
  BY PInvInit, PInvNext, PTL DEF Spec
<1>2. Init => Abstract!Init
  BY RefineTallyInit DEF Init
<1>3. QED
  BY <1>1, <1>2, RefineStep, PTL DEF Spec, DecisionRefined, Abstract!Spec
=============================================================================
