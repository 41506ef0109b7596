------------------------------ MODULE PutObject ------------------------------
(***************************************************************************)
(* standardObjectClient.putObject (src/unnamed/part_000): the streaming   *)
(* object PUT. putQuorumer.start launches one quorumWorker per primary    *)
(* device and waits (workerGroup) until each has either a writer or a     *)
(* final answer, or has run out of handoffs. A worker's request carries   *)
(* "Expect: 100-Continue" and a putReader body: the transport reads the   *)
(* body only after the backend's 100, and the first Read hands the pipe's *)
(* writer to the worker over its ready channel. The worker then adds it   *)
(* to q.writers, unsynchronised, from its own goroutine. putObject copies *)
(* the source once to all listed writers, closes them, and collects the   *)
(* final answers with getResponse (QuorumCollector).                       *)
(*                                                                         *)
(* The body is Chunks chunks long. A backend answers its final status     *)
(* once its body ends, which is when its pipe writer is closed: by        *)
(* putObject after the copy, or by the worker's own postPutTimeout. Or    *)
(* client.Do returns while the body is still being sent (a transport     *)
(* error, or a backend that answers without reading it all); the body's   *)
(* pipe is then read by no one, and a Write to it blocks.                 *)
(***************************************************************************)
EXTENDS QuorumCollector, FiniteSets

CONSTANTS
    Handoffs,       \* how many handoff devices GetMoreNodes(partition) yields
    Chunks,         \* length of the source body, in chunks
    EarlyClasses,   \* classes a backend can answer before its 100-continue
    FinalClasses,   \* classes a backend can answer once its body has ended
    MidBodyClasses  \* classes client.Do returns while the body is being sent

ASSUME HandoffsAssumption == Handoffs \in Nat
ASSUME ChunksAssumption == Chunks \in Nat \ {0}
ASSUME EarlyClassesAssumption == EarlyClasses \subseteq 1..5
ASSUME FinalClassesAssumption == FinalClasses \subseteq 1..5
ASSUME MidBodyClassesAssumption == MidBodyClasses \subseteq 1..5

Device == 1..(ReplicaCount + Handoffs)

VARIABLES
    ppc,        \* putObject: "start" (in q.start()), "copy", "collect",
                \* or "failed" once it has returned a ResponseStub(503)
    wdev,       \* the device the worker is working on (dev), then qw.dev
    wlocal,     \* the iterator position a worker's unfinished Next read
    cursor,     \* the position of the shared iterator q.more
    wsnap,      \* the q.writers a worker's unfinished append read
    writers,    \* q.writers, as the set of workers whose writer it lists
    ready,      \* workers that received a writer (qw.writer != nil)
    closed,     \* workers whose pipe writer has been closed
    recv,       \* chunks the backend of each ready worker has received
    banswer,    \* the final answer a backend has sent on oneResponse
    copied      \* chunks common.Copy has written so far

putVars == <<ppc, wdev, wlocal, cursor, wsnap, writers, ready, closed, recv,
             banswer, copied>>
vars == <<gpc, gi, responses, counts, chosen, result, wpc, wresp, putVars>>

WorkerState ==
    {"request", "next", "advance", "append", "await", "deliver", "exit"}

TypeOK ==
    /\ ppc \in {"start", "copy", "collect", "failed"}
    /\ gpc \in {"idle", "loop", "wait", "grace", "done"}
    /\ gi \in Nat
    /\ responses \in Seq(Response)
    /\ counts \in [StatusClass -> Nat]
    /\ chosen \in Nat
    /\ result \in Nat \cup {Unavailable}
    /\ wpc \in [Worker -> WorkerState]
    /\ wresp \in [Worker -> StatusClass]
    /\ wdev \in [Worker -> Device]
    /\ wlocal \in [Worker -> 1..(Handoffs + 1)]
    /\ cursor \in 1..(Handoffs + 1)
    /\ wsnap \in [Worker -> SUBSET Worker]
    /\ writers \subseteq Worker
    /\ ready \subseteq Worker
    /\ closed \subseteq Worker
    /\ recv \in [Worker -> 0..Chunks]
    /\ banswer \in [Worker -> StatusClass]
    /\ copied \in 0..Chunks

Init ==
    /\ gpc = "idle"         \* getResponse is called after the copy
    /\ TallyInit
    /\ ppc = "start"
    /\ wpc = [w \in Worker |-> "request"]
    /\ wresp = [w \in Worker |-> NoResp]
    /\ wdev = [w \in Worker |-> w]
    /\ wlocal = [w \in Worker |-> 1]
    /\ cursor = 1
    /\ wsnap = [w \in Worker |-> {}]
    /\ writers = {}
    /\ ready = {}
    /\ closed = {}
    /\ recv = [w \in Worker |-> 0]
    /\ banswer = [w \in Worker |-> NoResp]
    /\ copied = 0

-----------------------------------------------------------------------------
(* quorumWorker.work, for the requests putObject makes.                   *)

\* The backend refuses before its 100-continue (or the transport fails):
\* a 5xx sends the worker to more.Next().
EarlyFailed(w) ==
    /\ wpc[w] = "request"
    /\ 5 \in EarlyClasses
    /\ wpc' = [wpc EXCEPT ![w] = "next"]
    /\ UNCHANGED <<collectorVars, wresp, ppc, wdev, wlocal, cursor, wsnap,
                   writers, ready, closed, recv, banswer, copied>>

\* Any other early answer becomes qw.response; after wg.Done the worker
\* blocks sending it on q.responsec.
EarlyAnswered(w, c) ==
    /\ wpc[w] = "request"
    /\ c < 5
    /\ wpc' = [wpc EXCEPT ![w] = "deliver"]
    /\ wresp' = [wresp EXCEPT ![w] = c]
    /\ UNCHANGED <<collectorVars, putVars>>

\* more.Next(), first half: read the iterator's position.
NextRead(w) ==
    /\ wpc[w] = "next"
    /\ wlocal' = [wlocal EXCEPT ![w] = cursor]
    /\ wpc' = [wpc EXCEPT ![w] = "advance"]
    /\ UNCHANGED <<collectorVars, wresp, ppc, wdev, cursor, wsnap, writers,
                   ready, closed, recv, banswer, copied>>

\* more.Next(), second half: take the device at the position read and store
\* the advanced position.
NextHandoff(w) ==
    /\ wpc[w] = "advance"
    /\ wlocal[w] <= Handoffs
    /\ cursor' = wlocal[w] + 1
    /\ wdev' = [wdev EXCEPT ![w] = ReplicaCount + wlocal[w]]
    /\ wpc' = [wpc EXCEPT ![w] = "request"]
    /\ UNCHANGED <<collectorVars, wresp, ppc, wlocal, wsnap, writers, ready,
                   closed, recv, banswer, copied>>

\* No handoff left: the worker has neither writer nor response and returns.
NextExhausted(w) ==
    /\ wpc[w] = "advance"
    /\ wlocal[w] > Handoffs
    /\ wpc' = [wpc EXCEPT ![w] = "exit"]
    /\ UNCHANGED <<collectorVars, wresp, putVars>>

\* The backend sends 100 Continue, the transport calls putReader.Read, and
\* its `p.ready <- p.w` meets the worker's `case qw.writer = <-ready`. The
\* worker then runs q.addWriter: `append` reads q.writers ...
Continued(w) ==
    /\ wpc[w] = "request"
    /\ ready' = ready \cup {w}
    /\ wsnap' = [wsnap EXCEPT ![w] = writers]
    /\ wpc' = [wpc EXCEPT ![w] = "append"]
    /\ UNCHANGED <<collectorVars, wresp, ppc, wdev, wlocal, cursor, writers,
                   closed, recv, banswer, copied>>

\* ... and stores the slice with the writer appended. Then wg.Done, and
\* the worker starts its postPutTimeout and waits for the final answer.
AddWriter(w) ==
    /\ wpc[w] = "append"
    /\ writers' = wsnap[w] \cup {w}
    /\ wpc' = [wpc EXCEPT ![w] = "await"]
    /\ UNCHANGED <<collectorVars, wresp, ppc, wdev, wlocal, cursor, wsnap,
                   ready, closed, recv, banswer, copied>>

\* `case qw.response = <-oneResponse`: the final answer, whatever its
\* class, goes on q.responsec.
FinalAnswered(w) ==
    /\ wpc[w] = "await"
    /\ banswer[w] # NoResp
    /\ wresp' = [wresp EXCEPT ![w] = banswer[w]]
    /\ wpc' = [wpc EXCEPT ![w] = "deliver"]
    /\ UNCHANGED <<collectorVars, putVars>>

\* `case <-responseTimeout`: qw.writer.Close(), and the worker returns.
PutTimeout(w) ==
    /\ wpc[w] = "await"
    /\ closed' = closed \cup {w}
    /\ wpc' = [wpc EXCEPT ![w] = "exit"]
    /\ UNCHANGED <<collectorVars, wresp, ppc, wdev, wlocal, cursor, wsnap,
                   writers, ready, recv, banswer, copied>>

\* The backend of a ready worker sees the end of its body when the pipe
\* writer is closed, and answers; client.Do returns and f sends the answer
\* on oneResponse. A 2xx means the backend stored the recv[w] chunks it got.
BackendAnswered(w, c) ==
    /\ w \in ready \cap closed
    /\ banswer[w] = NoResp
    /\ banswer' = [banswer EXCEPT ![w] = c]
    /\ UNCHANGED <<collectorVars, wpc, wresp, ppc, wdev, wlocal, cursor, wsnap,
                   writers, ready, closed, recv, copied>>

\* client.Do returns before the body has ended: a transport error becomes
\* ResponseStub(500), or the backend answers without reading the rest. The
\* answer goes on oneResponse; nothing reads the pipe any more, and the
\* request body is a NopCloser around putReader, so the pipe stays open.
BackendAborted(w, c) ==
    /\ w \in ready \ closed
    /\ banswer[w] = NoResp
    /\ banswer' = [banswer EXCEPT ![w] = c]
    /\ UNCHANGED <<collectorVars, wpc, wresp, ppc, wdev, wlocal, cursor, wsnap,
                   writers, ready, closed, recv, copied>>

WorkerStep(w) ==
    \/ EarlyFailed(w)
    \/ \E c \in EarlyClasses : EarlyAnswered(w, c)
    \/ NextRead(w)
    \/ NextHandoff(w)
    \/ NextExhausted(w)
    \/ Continued(w)
    \/ AddWriter(w)
    \/ FinalAnswered(w)
    \/ PutTimeout(w)

BackendStep(w) == \E c \in FinalClasses : BackendAnswered(w, c)

-----------------------------------------------------------------------------
(* putObject itself.                                                       *)

\* Fault variant: wg.Done after the worker's send on q.responsec, so a
\* worker holding an early response is not counted until it has delivered.
WorkersStartedAfterSend == \A w \in Worker : wpc[w] \in {"await", "exit"}

\* workerGroup.Wait() returns once every worker has called wg.Done: it holds
\* a writer, holds a response, or has returned.
WorkersStarted == \A w \in Worker : wpc[w] \in {"await", "deliver", "exit"}

\* q.responseCount(): the workers whose qw.response is set.
ResponseCount == Cardinality({w \in Worker : wresp[w] # NoResp})

\* q.start() returns, listWriters() is read, and too few writers and
\* responses make a quorum: ResponseStub(503), with the writers left open.
StartUnavailable ==
    /\ ppc = "start"
    /\ WorkersStarted
    /\ Cardinality(writers) + ResponseCount < Q
    /\ ppc' = "failed"
    /\ UNCHANGED <<collectorVars, wpc, wresp, wdev, wlocal, cursor, wsnap,
                   writers, ready, closed, recv, banswer, copied>>

\* ... or enough: go on to common.Copy(src, writers...).
StartCopy ==
    /\ ppc = "start"
    /\ WorkersStarted
    /\ Cardinality(writers) + ResponseCount >= Q
    /\ ppc' = "copy"
    /\ UNCHANGED <<collectorVars, wpc, wresp, wdev, wlocal, cursor, wsnap,
                   writers, ready, closed, recv, banswer, copied>>

\* Fault variant: Copy goes on writing once src is exhausted.
CopyChunkPastEnd ==
    /\ ppc = "copy"
    /\ writers # {}
    /\ writers \cap closed = {}
    /\ \A w \in writers : banswer[w] = NoResp
    /\ recv' = [w \in Worker |-> IF w \in writers THEN recv[w] + 1 ELSE recv[w]]
    /\ copied' = copied + 1
    /\ UNCHANGED <<collectorVars, wpc, wresp, ppc, wdev, wlocal, cursor, wsnap,
                   writers, ready, closed, banswer>>

\* common.Copy reads a chunk of src and writes it to every listed writer;
\* each backend reads it from its pipe. An io.Pipe Write returns once the
\* reader has taken the data: it fails on a closed pipe, and blocks on one
\* whose backend has answered and stopped reading.
CopyChunk ==
    /\ ppc = "copy"
    /\ copied < Chunks
    /\ writers # {}
    /\ writers \cap closed = {}
    /\ \A w \in writers : banswer[w] = NoResp
    /\ recv' = [w \in Worker |-> IF w \in writers THEN recv[w] + 1 ELSE recv[w]]
    /\ copied' = copied + 1
    /\ UNCHANGED <<collectorVars, wpc, wresp, ppc, wdev, wlocal, cursor, wsnap,
                   writers, ready, closed, banswer>>

\* Copy fails: a listed writer was closed by its worker's timeout, and the
\* write returns io.ErrClosedPipe. ResponseStub(503), with the other
\* writers left open.
CopyFailed ==
    /\ ppc = "copy"
    /\ copied < Chunks
    /\ writers \cap closed # {}
    /\ ppc' = "failed"
    /\ UNCHANGED <<collectorVars, wpc, wresp, wdev, wlocal, cursor, wsnap,
                   writers, ready, closed, recv, banswer, copied>>

\* Copy fails because reading src fails (the client went away): the same
\* ResponseStub(503).
CopySourceFailed ==
    /\ ppc = "copy"
    /\ copied < Chunks
    /\ writers # {}
    /\ ppc' = "failed"
    /\ UNCHANGED <<collectorVars, wpc, wresp, wdev, wlocal, cursor, wsnap,
                   writers, ready, closed, recv, banswer, copied>>

\* Fault variant: the writers are closed without waiting for Copy to end.
CopyDoneEarly ==
    /\ ppc = "copy"
    /\ closed' = closed \cup writers
    /\ ppc' = "collect"
    /\ gpc' = "loop"
    /\ UNCHANGED <<gi, responses, counts, chosen, result, wpc, wresp, wdev,
                   wlocal, cursor, wsnap, writers, ready, recv, banswer, copied>>

\* Copy has returned (or there was no writer to copy to): close every
\* listed writer, then getResponse(postPutTimeout).
CopyDone ==
    /\ ppc = "copy"
    /\ copied = Chunks \/ writers = {}
    /\ closed' = closed \cup writers
    /\ ppc' = "collect"
    /\ gpc' = "loop"
    /\ UNCHANGED <<gi, responses, counts, chosen, result, wpc, wresp, wdev,
                   wlocal, cursor, wsnap, writers, ready, recv, banswer, copied>>

PutStep == StartUnavailable \/ StartCopy \/ CopyChunk \/ CopyFailed \/ CopyDone

\* getResponse, once putObject has called it.
CollectorStep ==
    /\ Collector
    /\ UNCHANGED putVars

\* What fails outside the program: the client's body, a backend connection.
FailureStep ==
    \/ CopySourceFailed
    \/ \E w \in Worker, c \in MidBodyClasses : BackendAborted(w, c)

Next ==
    \/ PutStep
    \/ CollectorStep
    \/ \E w \in Worker : WorkerStep(w) \/ BackendStep(w)
    \/ FailureStep

Spec == Init /\ [][Next]_vars

\* Runnable goroutines are scheduled: putObject's own steps, getResponse,
\* each worker, and each backend request (the HTTP client has a timeout).
\* postPutTimeout is part of WorkerStep, so a waiting worker's timer fires.
\* Failures (FailureStep) may happen or not: no fairness.
Fairness ==
    /\ WF_vars(PutStep)
    /\ WF_vars(CollectorStep)
    /\ \A w \in Worker : WF_vars(WorkerStep(w)) /\ WF_vars(BackendStep(w))

FairSpec == Spec /\ Fairness

-----------------------------------------------------------------------------
(* Properties of the streaming PUT.                                        *)

\* Spec 4.5 and 8: a 2xx that putObject returns stands for a quorum of
\* backends that each received the whole body and answered 2xx. This rests
\* on putObject closing the writers only after a complete Copy, and on a
\* timed-out worker (whose backend may answer for a truncated body) never
\* sending that answer on q.responsec.
DurableQuorum ==
    (gpc = "done" /\ result \in 1..Len(responses)
                 /\ responses[result].cls = 2)
        => Q <= Cardinality({w \in Worker : banswer[w] = 2 /\ recv[w] = Chunks})

\* client.Do has returned for w while its body was still being sent.
Stalled(w) == w \in ready \ closed /\ banswer[w] # NoResp

\* putObject returns as long as no backend answers before the end of its
\* body: q.start()'s workerGroup.Wait() is released because every worker
\* calls wg.Done before it blocks on q.responsec, and then either the 503
\* of the early quorum check, a failed Copy's 503 or getResponse's result
\* is returned. A worker that sent on responsec before wg.Done would wait
\* for a getResponse that only runs after Wait returns. (When a backend
\* does answer mid-body, its worker blocks on q.responsec with the pipe
\* open, and common.Copy blocks on that pipe for good.)
PutReturns ==
    [](\A w \in Worker : ~Stalled(w)) => <>(ppc = "failed" \/ gpc = "done")

\* Spec 7: "every writer in the ready set receives exactly the byte
\* sequence S[0..n)": once putObject has copied and closed, every worker
\* that got a writer from its putReader has had the whole body.
ReadyWritersReceiveAll ==
    ppc = "collect" => \A w \in ready : recv[w] = Chunks

\* Spec 4.5: a writer whose response deadline passes is ABORTED. A backend
\* only answers 2xx for a body it received whole. quorumWorker.work ends a
\* timed-out upload with writer.Close(), a clean end of body.
NoTruncatedCommit ==
    \A w \in Worker : banswer[w] = 2 => recv[w] = Chunks
=============================================================================
