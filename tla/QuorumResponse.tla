--------------------------- MODULE QuorumResponse ---------------------------
(***************************************************************************)
(* ProxyDirectClient.quorumResponse (src/unnamed/part_000): the write     *)
(* path of account, container and object PUT/POST/DELETE. q.start()       *)
(* launches one quorumWorker per primary device; each sends the request,  *)
(* and on a 5xx or a transport error moves to the next handoff device     *)
(* from the ring's MoreNodes iterator, until it holds a non-5xx response, *)
(* which it sends on q.responsec, or the handoffs run out. getResponse    *)
(* (QuorumCollector) collects concurrently.                               *)
(*                                                                         *)
(* All workers share the one iterator q.more, and call more.Next() from   *)
(* their own goroutines with no lock: Next is a read of the iterator's    *)
(* position and a later write of the advanced position, and another       *)
(* worker's Next can run in between. Devices 1..ReplicaCount are the      *)
(* primaries, ReplicaCount+1..ReplicaCount+Handoffs the handoffs in the   *)
(* order the iterator yields them.                                        *)
(***************************************************************************)
EXTENDS QuorumCollector, FiniteSets

CONSTANTS
    Handoffs,   \* how many handoff devices GetMoreNodes(partition) yields
    Classes     \* the classes a backend answer can have (5: >= 500 or error)

ASSUME HandoffsAssumption == Handoffs \in Nat
ASSUME ClassesAssumption == Classes \subseteq 1..5

Device == 1..(ReplicaCount + Handoffs)

VARIABLES
    wdev,       \* the device the worker is working on (dev), then qw.dev
    wlocal,     \* the iterator position a worker's unfinished Next read
    cursor      \* the position of the shared iterator q.more

vars == <<gpc, gi, responses, counts, chosen, result,
          wpc, wresp, wdev, wlocal, cursor>>

TypeOK ==
    /\ gpc \in {"loop", "wait", "grace", "done"}
    /\ gi \in Nat
    /\ responses \in Seq(Response)
    /\ counts \in [StatusClass -> Nat]
    /\ chosen \in Nat
    /\ result \in Nat \cup {Unavailable}
    /\ wpc \in [Worker -> {"request", "next", "advance", "deliver", "exit"}]
    /\ wresp \in [Worker -> StatusClass]
    /\ wdev \in [Worker -> Device]
    /\ wlocal \in [Worker -> 1..(Handoffs + 1)]
    /\ cursor \in 1..(Handoffs + 1)

Init ==
    /\ CollectorInit
    /\ wpc = [w \in Worker |-> "request"]
    /\ wresp = [w \in Worker |-> NoResp]
    /\ wdev = [w \in Worker |-> w]
    /\ wlocal = [w \in Worker |-> 1]
    /\ cursor = 1

-----------------------------------------------------------------------------
(* quorumWorker.work, for the requests quorumResponse makes.              *)

\* `go qw.f(...)` sends the request to dev and the answer comes back on
\* oneResponse: devToRequest and client.Do failing give a ResponseStub(500),
\* StubResponse(r) keeps the backend's status. A 5xx sends the worker to
\* more.Next().
RequestFailed(w) ==
    /\ wpc[w] = "request"
    /\ 5 \in Classes
    /\ wpc' = [wpc EXCEPT ![w] = "next"]
    /\ UNCHANGED <<collectorVars, wresp, wdev, wlocal, cursor>>

\* Any other answer becomes qw.response, dev stays as qw.dev, and the worker
\* goes on to send the response on q.responsec.
RequestAnswered(w, c) ==
    /\ wpc[w] = "request"
    /\ c < 5
    /\ wpc' = [wpc EXCEPT ![w] = "deliver"]
    /\ wresp' = [wresp EXCEPT ![w] = c]
    /\ UNCHANGED <<collectorVars, wdev, wlocal, cursor>>

\* more.Next(), first half: read the iterator's position.
NextRead(w) ==
    /\ wpc[w] = "next"
    /\ wlocal' = [wlocal EXCEPT ![w] = cursor]
    /\ wpc' = [wpc EXCEPT ![w] = "advance"]
    /\ UNCHANGED <<collectorVars, wresp, wdev, cursor>>

\* Fault variant: Next does not check for the end of the handoff list.
NextHandoffUnchecked(w) ==
    /\ wpc[w] = "advance"
    /\ cursor' = wlocal[w] + 1
    /\ wdev' = [wdev EXCEPT ![w] = ReplicaCount + wlocal[w]]
    /\ wpc' = [wpc EXCEPT ![w] = "request"]
    /\ UNCHANGED <<collectorVars, wresp, wlocal>>

\* more.Next(), second half: take the device at the position read and store
\* the advanced position (over whatever another worker stored meanwhile).
NextHandoff(w) ==
    /\ wpc[w] = "advance"
    /\ wlocal[w] <= Handoffs
    /\ cursor' = wlocal[w] + 1
    /\ wdev' = [wdev EXCEPT ![w] = ReplicaCount + wlocal[w]]
    /\ wpc' = [wpc EXCEPT ![w] = "request"]
    /\ UNCHANGED <<collectorVars, wresp, wlocal>>

\* No handoff left: Next returns nil, the `for dev != nil` loop ends with
\* neither a writer nor a response, and the worker returns without sending.
NextExhausted(w) ==
    /\ wpc[w] = "advance"
    /\ wlocal[w] > Handoffs
    /\ wpc' = [wpc EXCEPT ![w] = "exit"]
    /\ UNCHANGED <<collectorVars, wresp, wdev, wlocal, cursor>>

WorkerStep(w) ==
    \/ RequestFailed(w)
    \/ \E c \in Classes : RequestAnswered(w, c)
    \/ NextRead(w)
    \/ NextHandoff(w)
    \/ NextExhausted(w)

\* The worker's send on q.responsec is a step of the collector.
CollectorStep ==
    /\ Collector
    /\ UNCHANGED <<wdev, wlocal, cursor>>

Next ==
    \/ CollectorStep
    \/ \E w \in Worker : WorkerStep(w)

\* Every goroutine keeps running while it can (the Go scheduler is fair to
\* runnable goroutines), and both timers of getResponse fire when due.
Fairness ==
    /\ WF_vars(CollectorStep)
    /\ \A w \in Worker : WF_vars(WorkerStep(w))

Spec == Init /\ [][Next]_vars /\ Fairness

-----------------------------------------------------------------------------
(* Properties of the whole write path.                                    *)

\* The quorum a backend response is returned for is a quorum of distinct
\* devices: the responses of the returned class come from at least q
\* different devices (spec 4.1: the handoff iterator yields each device
\* once; spec 4.5: access to it is serialised). quorumWorker.work calls the
\* shared more.Next() unsynchronised.
QuorumOfDistinctDevices ==
    result \in 1..Len(responses) =>
        LET cls == responses[result].cls
        IN  Q <= Cardinality({ wdev[responses[k].w] :
                                  k \in { j \in 1..Len(responses) :
                                            responses[j].cls = cls } })

\* Spec 5: every per-device worker drains and returns once the dispatch has
\* returned; quorumWorker.work ends with an unconditional send on
\* q.responsec.
WorkersExit == \A w \in Worker : <>(wpc[w] = "exit")
=============================================================================
