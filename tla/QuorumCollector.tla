-------------------------- MODULE QuorumCollector --------------------------
(***************************************************************************)
(* The response-collecting half of the quorumer in the proxy direct       *)
(* client (src/unnamed/part_000): stdQuorumer.addResponse and             *)
(* stdQuorumer.getResponse, which read the per-device workers' results    *)
(* off the unbuffered channel q.responsec, keep the response-class tally *)
(* and pick the response that represents a quorum, or a synthetic 503.    *)
(*                                                                         *)
(* The workers that feed the channel differ between quorumResponse (the   *)
(* plain write path) and putObject (the streaming PUT); the modules that  *)
(* model them EXTEND this one. A worker blocked on                        *)
(* `qw.responses <- qw.response` has wpc[w] = "deliver" and its response  *)
(* class in wresp[w]; the unbuffered send and the collector's receive are *)
(* one step, which moves the worker to "exit".                            *)
(***************************************************************************)
EXTENDS Integers, Sequences

CONSTANTS
    ReplicaCount    \* r.ReplicaCount(): one worker per primary device

ASSUME ReplicaCountAssumption == ReplicaCount \in Nat \ {0}

\* Workers are indexed like the devices r.GetNodes(partition) they start on.
Worker == 1..ReplicaCount

\* newQuorumer: q = int(math.Ceil(float64(r.ReplicaCount()) / 2.0))
Q == (ReplicaCount + 1) \div 2

\* A response is abstracted to its class StatusCode/100: responseClassCounts
\* has six cells, 0..5. Class 5 stands for every status >= 500, and for the
\* ResponseStub(500, ...) built when a request fails in transport.
StatusClass == 0..5
NoResp == 0             \* no response yet (no status below 100 is ever built)

\* getResponse returns either one of q.responses or a ResponseStub(503).
NoResult == 0
Unavailable == -1       \* ResponseStub(http.StatusServiceUnavailable, ...)

Response == [w : Worker, cls : StatusClass]

VARIABLES
    gpc,        \* where getResponse is: "loop" head, "wait" select,
                \* "grace" (post-quorum) select, "done"
    gi,         \* the loop counter i of getResponse
    responses,  \* q.responses, in arrival order
    counts,     \* q.responseClassCounts
    chosen,     \* the index in responses of r, the response found with quorum
    result,     \* what getResponse returned: an index into responses,
                \* Unavailable, or NoResult while it runs
    wpc,        \* each worker's control point
    wresp       \* each worker's qw.response, as a class

collectorVars == <<gpc, gi, responses, counts, chosen, result>>

-----------------------------------------------------------------------------
\* Fault variant: the `>= 500` early return is dropped, 5xx are counted.
AddResponseCountAll(w) ==
    /\ responses' = Append(responses, [w |-> w, cls |-> wresp[w]])
    /\ counts' = [counts EXCEPT ![wresp[w]] = @ + 1]

(* stdQuorumer.addResponse: append, and count only non-5xx responses.     *)
AddResponse(w) ==
    /\ responses' = Append(responses, [w |-> w, cls |-> wresp[w]])
    /\ counts' = IF wresp[w] >= 5 THEN counts
                 ELSE [counts EXCEPT ![wresp[w]] = @ + 1]

\* Fault variant: the worker stays able to send its response again.
DeliverTwice(w) ==
    /\ wpc[w] = "deliver"
    /\ AddResponse(w)
    /\ UNCHANGED wpc

\* The worker's `qw.responses <- qw.response` meets the collector's receive.
Deliver(w) ==
    /\ wpc[w] = "deliver"
    /\ AddResponse(w)
    /\ wpc' = [wpc EXCEPT ![w] = "exit"]

\* outstandingRequests := len(q.workers) - len(q.responses)
Outstanding == ReplicaCount - Len(responses)

\* Fault variant: the threshold compared with > instead of >=, one short.
HasQuorumOffByOne(k) == counts[responses[k].cls] >= Q - 1

\* q.responseClassCounts[r.StatusCode/100] >= q.q for the k-th response
HasQuorum(k) == counts[responses[k].cls] >= Q

\* quorumPossible: some class could still reach q with every outstanding
\* request answering in it.
QuorumPossible == \E c \in StatusClass : counts[c] + Outstanding >= Q

(* The head of getResponse's `for i := 0; i < len(q.workers); i++` loop.  *)

\* The loop has run len(q.workers) times: the trailing ResponseStub(503).
LoopExhausted ==
    /\ gpc = "loop"
    /\ gi >= ReplicaCount
    /\ result' = Unavailable
    /\ gpc' = "done"
    /\ UNCHANGED <<gi, responses, counts, chosen, wpc, wresp>>

\* `for _, r := range q.responses`: the first response whose class has
\* reached q starts the post-quorum grace period.
LoopQuorum ==
    /\ gpc = "loop"
    /\ gi < ReplicaCount
    /\ \E k \in 1..Len(responses) :
          /\ HasQuorum(k)
          /\ \A j \in 1..(k - 1) : ~HasQuorum(j)
          /\ chosen' = k
    /\ gpc' = "grace"
    /\ UNCHANGED <<gi, responses, counts, result, wpc, wresp>>

\* No quorum yet and none possible: ResponseStub(503).
LoopImpossible ==
    /\ gpc = "loop"
    /\ gi < ReplicaCount
    /\ \A k \in 1..Len(responses) : ~HasQuorum(k)
    /\ ~QuorumPossible
    /\ result' = Unavailable
    /\ gpc' = "done"
    /\ UNCHANGED <<gi, responses, counts, chosen, wpc, wresp>>

\* No quorum yet, still possible, requests outstanding: enter the select.
\* (With no request outstanding and no quorum, no class can reach q, so the
\* `if outstandingRequests > 0` test never fails after quorumPossible.)
LoopWait ==
    /\ gpc = "loop"
    /\ gi < ReplicaCount
    /\ \A k \in 1..Len(responses) : ~HasQuorum(k)
    /\ QuorumPossible
    /\ Outstanding > 0
    /\ gpc' = "wait"
    /\ UNCHANGED <<gi, responses, counts, chosen, result, wpc, wresp>>

\* `case response := <-q.responsec`: add it, then i++.
WaitRecv(w) ==
    /\ gpc = "wait"
    /\ Deliver(w)
    /\ gi' = gi + 1
    /\ gpc' = "loop"
    /\ UNCHANGED <<chosen, result, wresp>>

\* Fault variant: the select has no timeout case.
WaitTimeoutMissing == FALSE

\* Fault variant: the timeout case sets the 503 but does not return.
WaitTimeoutNoReturn ==
    /\ gpc = "wait"
    /\ result' = Unavailable
    /\ UNCHANGED <<gpc, gi, responses, counts, chosen, wpc, wresp>>

\* `case <-getResponseTimeout` (postPutTimeout, 30 s): ResponseStub(503).
WaitTimeout ==
    /\ gpc = "wait"
    /\ result' = Unavailable
    /\ gpc' = "done"
    /\ UNCHANGED <<gi, responses, counts, chosen, wpc, wresp>>

(* The grace loop `for len(q.workers) > len(q.responses)` after quorum.   *)
GraceRecv(w) ==
    /\ gpc = "grace"
    /\ ReplicaCount > Len(responses)
    /\ Deliver(w)
    /\ UNCHANGED <<gpc, gi, chosen, result, wresp>>

\* finalizeTimeout (PostQuorumTimeoutMs) fires: return r.
GraceTimeout ==
    /\ gpc = "grace"
    /\ ReplicaCount > Len(responses)
    /\ result' = chosen
    /\ gpc' = "done"
    /\ UNCHANGED <<gi, responses, counts, chosen, wpc, wresp>>

\* Every worker has answered: return r.
GraceDone ==
    /\ gpc = "grace"
    /\ ReplicaCount <= Len(responses)
    /\ result' = chosen
    /\ gpc' = "done"
    /\ UNCHANGED <<gi, responses, counts, chosen, wpc, wresp>>

\* getResponse's state when it is called.
TallyInit ==
    /\ gi = 0
    /\ responses = << >>
    /\ counts = [c \in StatusClass |-> 0]
    /\ chosen = 0
    /\ result = NoResult

CollectorInit == gpc = "loop" /\ TallyInit

Collector ==
    \/ LoopExhausted \/ LoopQuorum \/ LoopImpossible \/ LoopWait
    \/ WaitTimeout \/ GraceTimeout \/ GraceDone
    \/ \E w \in Worker : WaitRecv(w) \/ GraceRecv(w)

-----------------------------------------------------------------------------
(* Properties of getResponse.                                              *)

\* Spec 8: the dispatcher returns a response whose status class has reached
\* the quorum threshold q = ceil(R/2) in the tally at the moment it returns,
\* or a synthetic 503 (getResponse's choice of r and its grace loop).
ResultHasQuorum ==
    result \in 1..Len(responses) => counts[responses[result].cls] >= Q

\* Spec 4.4: "after each response arrives, if any class count reaches q" the
\* dispatcher returns a response of that class; so a synthetic 503 is only
\* returned when no class has reached q (getResponse's loop bound).
NoFalseUnavailable ==
    result = Unavailable => \A c \in StatusClass : counts[c] < Q

\* Each worker's response is tallied once: no worker appears twice in
\* q.responses (the unbuffered hand-over on responsec in getResponse).
OneResponsePerWorker ==
    \A i, j \in 1..Len(responses) : i # j => responses[i].w # responses[j].w

\* getResponse as its callers see it: q.responses and what it returned.
Abstract == INSTANCE QuorumDecision WITH tally <- responses, decision <- result

\* Spec 4.4 and 8: getResponse implements QuorumDecision. It tallies each
\* worker's response once and only before it returns, its class counts in
\* q.responseClassCounts are the true counts of the non-5xx classes, and
\* it returns once, a 503 or a response of a class that q responses share.
DecisionRefined == Abstract!Spec

\* getResponse returns: under the timers of its two selects it always
\* ends, whatever the workers do.
DispatchTerminates == <>(gpc = "done")
=============================================================================
