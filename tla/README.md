# TLA+ models of the hummingbird proxy client and S3 auth middleware

This directory holds TLA+ models of the concurrent parts of
`src/unnamed/part_000` (Go package `client`: the proxy's direct client to the
account, container and object servers) and of
`src/proxyserver/middleware/s3auth.go`. It also holds TLC configurations that
check the models on small instances, and TLAPS proofs for every instance.
These prove type correctness, the quorum of the returned response, one
response per worker, the refinement of an abstract quorum decision, and
distinct devices on the read path.

## The system

* **Quorum write path.** `quorumResponse` (part_000:255) serves
  account, container and object PUT, POST and DELETE.
  * `stdQuorumer.start` launches one `quorumWorker` goroutine per primary
    device.
  * Each worker sends the request. On a 5xx or a transport error it moves to
    the next handoff device from the ring's `MoreNodes` iterator, which all
    workers share without a lock. Otherwise it sends its response on the
    unbuffered channel `q.responsec`.
  * Concurrently, `getResponse` receives the responses, tallies them by status
    class and returns a response whose class reached `q = ceil(R/2)`, or a
    synthetic 503. It uses a 30 s overall timeout and a post-quorum grace
    timeout.
* **Streaming object PUT.** `standardObjectClient.putObject` (851) uses the
  same workers through `putQuorumer`, whose `start` waits on a WaitGroup.
  * Requests carry `Expect: 100-Continue`. The first `putReader.Read` hands
    the worker a pipe writer, which the worker appends to `q.writers`
    (`addWriter`, unsynchronised).
  * `putObject` then checks `writers + responses >= q`, copies the body to
    all writers, closes them and calls `getResponse`.
  * A worker whose final answer does not come within `postPutTimeout` closes
    its writer.
* **Read path.** `firstResponse` (271) serves GET and HEAD.
  * It shuffles the primaries and makes up to R+2 attempts, with handoffs
    after the primaries.
  * Each request runs in a goroutine that offers its response on `success`.
    The loop waits up to one second per attempt.
  * The first success is returned. At the end it returns 503 if it saw at
    least R internal errors, else 404.
* **Container info cache.** `GetContainerInfo` (578) reads a per-request
  local map, then memcache. On a miss it HEADs the container and stores the
  result in memcache for 30 s. `proxyClient.Put/Post/DeleteContainer`
  invalidate both tiers in a `defer` after the mutation.
* **S3 auth middleware.** `NewS3Auth` enables the handler unless the option
  is absent or "false". `ServeHTTP` takes `key:signature` from the
  Authorization header, or from the form, or from the query parameters. It
  builds the V2 string to sign from sorted `x-amz-` headers and sorted signed
  subresources, and stashes the result on the request context.

## Modules

| Module | Models | State | Actions |
|---|---|---|---|
| `QuorumCollector` | `addResponse`, `getResponse` | `gpc` (loop/wait/grace/done), `gi`, `responses`, `counts`, `chosen`, `result`; workers' `wpc`, `wresp` | `LoopExhausted`, `LoopQuorum`, `LoopImpossible`, `LoopWait`, `WaitRecv`, `WaitTimeout`, `GraceRecv`, `GraceTimeout`, `GraceDone` |
| `QuorumDecision` | what `getResponse` promises (abstract) | `tally` (the responses taken in), `decision` | `TakeIn(w, c)`, `Decide(k)`, `GiveUp` |
| `QuorumResponse` | `quorumResponse`, `stdQuorumer.start`, `quorumWorker.work` | the collector, plus `wdev`, `wlocal` (the position a worker's `Next` read), `cursor` (the iterator) | `RequestFailed`, `RequestAnswered`, `NextRead`, `NextHandoff`, `NextExhausted`, and the collector |
| `PutObject` | `putObject`, `putQuorumer.start`, `putReader.Read`, `addWriter`, `responseCount`, the writer half of `work` | the collector, plus `ppc`, `writers`, `wsnap` (the slice an unfinished append read), `ready`, `closed`, `recv`, `banswer`, `copied` | `EarlyFailed`, `EarlyAnswered`, `Next*`, `Continued`, `AddWriter`, `FinalAnswered`, `PutTimeout`, `BackendAnswered`, `BackendAborted`, `StartUnavailable`, `StartCopy`, `CopyChunk`, `CopyFailed`, `CopySourceFailed`, `CopyDone` |
| `FirstResponse` | `firstResponse` | `devs`, `si`, `rc`, `taken`, `ierr`, `handoffs`; per attempt `reqdev`, `rstate`, `ranswer`; `result` | `ShuffleStep(j)`, `ShuffleDone`, `LoopEnds`, `BuildFailed`, `Fire`, `ReceiveSuccess`, `ReceiveOther`, `SelectTimeout`, `Answered`, `Abandoned` |
| `ContainerInfoCache` | `GetContainerInfo`, `invalidateContainerInfo`, the container mutators | `bver` (container version), `mc`, `lc`, per client `cpc`, `snap`, `got` | `LocalHit`, `SharedHit`, `Miss`, `HeadOk`, `HeadFailed`, `Fill`, `Mutate`, `Invalidate`, `Expire` |
| `S3Auth` | `NewS3Auth`, `s3AuthHandler.ServeHTTP`, `S3Subresources` | `req` (the request), `out` | `ServeHTTP` (one step per request, over every header-map iteration order) |

`MC*` modules give the constants their values for TLC. `PROJECT.json`'s
`map` names the source lines of every definition.

### Modelling choices

* **Channels.** An unbuffered send that meets a receive is one step: a
  worker's delivery is part of the collector's `WaitRecv` or `GraceRecv`. A
  goroutine blocked on a send is a control state (`deliver`, `offer`).
* **Racy operations are split into a read step and a write step.**
  * `more.Next()` is `NextRead` followed by `NextHandoff`.
  * `q.writers = append(q.writers, w)` is `Continued` (which reads the slice)
    followed by `AddWriter` (which stores the old slice plus `w`).
  * Another goroutine's step can come in between, as the Go memory model
    allows for a data race.
* **Responses are their status class** (`StatusCode/100`), because that is
  all the tally and the checks use. Class 5 also stands for transport
  errors, which the code turns into `ResponseStub(500)`.
* **Timers are nondeterministic actions.** These are getResponse's two
  timeouts, `postPutTimeout`, firstResponse's one-second select and
  memcache's 30 s TTL.
* **The PUT body is `Chunks` chunks.** `recv` records how much each backend
  received. A backend answers its final status once its pipe is closed
  (`BackendAnswered`). Or `client.Do` returns while the body is still being
  sent (`BackendAborted`, classes `MidBodyClasses`): a transport error
  becomes `ResponseStub(500)` (part_000:879), or the backend stops reading
  and answers. The request body is a `NopCloser` around `putReader`, so the
  pipe then stays open and nobody reads it. `CopyChunk` needs every listed
  pipe open and still read, since an `io.Pipe` `Write` returns only once
  the reader has taken the data. `CopyFailed` is a `Write` to a pipe the
  worker's timeout closed (`io.ErrClosedPipe`); `CopySourceFailed` is a
  failed read of the client's body.
* **S3 strings.** Strings whose characters matter are sequences of
  characters over small alphabets. These are the credentials, the config
  value and the header names. `ToLower`, byte-order comparison and the
  colon split are modelled by what they do.
* Fault variants (operators named `...Unchecked`, `...Twice`, `...Never`,
  etc.) sit just before the definition they mutate. They are used only by
  the mutant runs.

## Runs

| Run | Checks | Result |
|---|---|---|
| `quorum` (R=3, 1 handoff, classes {2,4,5}) | `TypeOK`, `ResultHasQuorum`, `OneResponsePerWorker`, `DecisionRefined`, `DispatchTerminates` | pass |
| `quorum_unavailable` | `NoFalseUnavailable` | violated: `getResponse` loops `len(q.workers)` times and never checks the last response received, so it returns 503 with a quorum in hand (part_000:168) |
| `quorum_handoff_race` | `QuorumOfDistinctDevices` | violated: two workers read the same iterator position and write to the same handoff, which the quorum counts twice (816) |
| `quorum_leak` | `WorkersExit` | violated: a worker answering after `getResponse` returned blocks for ever on `q.responsec` (847) |
| `put` (R=3, 1 handoff, 2 chunks) | `TypeOK`, `DurableQuorum`, `DecisionRefined`, `PutReturns` | pass |
| `put_lost_writer` | `ReadyWritersReceiveAll` | violated: two concurrent `addWriter`s lose a writer, whose backend gets no data (155) |
| `put_truncated` | `NoTruncatedCommit` | violated: the timeout's `writer.Close()` ends a partial body cleanly, so the backend can commit it (843) |
| `first_response` (R=2, up to 2 handoffs) | `TypeOK`, `DistinctDevices`, `ResponsesReleased` | pass |
| `cache` (2 clients, 2 mutations) | `StaleInfoExpires` | pass |
| `cache_stale` | `SharedCacheFresh` | violated: a HEAD read before a mutation is stored into memcache after the mutation's invalidation (623) |
| `s3auth` | `HeaderCredentials`, `StringToSignDeterministic` | pass |
| `s3auth_query` | `QueryCredentialsAccepted` | violated: if the form was parsed, a query `AWSAccessKeyId` without a colon becomes a deny-all authorizer (s3auth.go:92) |

`DurableQuorum` is the central PUT property: a 2xx from putObject stands for
q backends that received the whole body and answered 2xx. It holds in the
model even though `NoTruncatedCommit` fails. A worker that timed out never
delivers its answer, so a truncated commit cannot be counted toward the
returned quorum; it can only leave an extra, truncated replica behind.

**Abstract specification and refinement.** `QuorumDecision` states what
`getResponse` promises, without its loop, its selects or its counters:
* it takes in at most one response per worker;
* it then decides once, either for a taken-in response whose class is not
  5xx and is shared by q of them, or for the synthetic 503.

`QuorumCollector` defines
`Abstract == INSTANCE QuorumDecision WITH tally <- responses, decision <- result`.
The `quorum` and `put` runs check `DecisionRefined == Abstract!Spec` as a
property. The mapping works as follows:
* `WaitRecv` and `GraceRecv` are `TakeIn`.
* `GraceTimeout` and `GraceDone` are `Decide(chosen)`.
* The 503 exits are `GiveUp`.
* Every other step, including every worker step, is a stutter.

Two refinement mutants show that the mapping constrains the code:
* a tally that also counts 5xx lets `Decide` pick a response without a
  quorum;
* a timeout that does not return lets a response be taken in after the
  decision.

**putObject returns.** `PutReturns` is checked under fairness (`FairSpec`).
`q.start()` blocks in `workerGroup.Wait()` until every worker has called
`wg.Done`. A worker holding an early response calls `wg.Done` *before* it
blocks on the unbuffered `q.responsec` (part_000:832-834), and so `Wait`
returns. The mutant that counts a worker as started only after its send
deadlocks putObject.

`PutReturns` has a hypothesis: no backend is `Stalled`, i.e. no
`client.Do` returns while its body is still being sent. Without that
hypothesis putObject can hang, and TLC finds a trace of it:
1. Two workers get an early 4xx; the third gets its 100-continue and its
   writer.
2. That backend's connection fails mid-body: `client.Do` returns an
   error, and the worker takes `ResponseStub(500)` and blocks on
   `q.responsec` (part_000:841) with its pipe open.
3. `q.start()` returns; 1 writer + 2 responses >= q, so putObject starts
   `common.Copy` (part_000:900).
4. The first `Write` to the pipe blocks: nobody reads it, and nobody will
   close it. putObject never returns, and its caller's goroutine leaks.

No run checks the unconditional form; the hazard list in `PROJECT.json`
records it at part_000:900.

**firstResponse and absent answers.** Spec 7 says an absent response counts as
an internal error. `firstResponse` counts only the responses its select
received (part_000:326-328). If every request is still in flight when its
one-second select times out, the loop ends and returns 404 with no backend
having answered. The spec would give 503 here.

**Mutants.** Every property of a passing run has a mutant: a plausible code
bug that TLC shows violates it (see `PROJECT.json`). Examples:
* the `>=` threshold one short;
* a worker delivering twice;
* a missing timeout case;
* closing the writers before the copy finishes;
* a Fisher-Yates swap that only copies;
* splitting credentials at the first colon;
* leaving the `x-amz-` headers unsorted.

**Bounds.** Three replicas give q = 2, so a quorum needs two workers and can
be lost by one. One handoff is enough for two workers to race on it. Two
chunks separate "nothing", "part" and "all" of a body. For `firstResponse`,
R=2 with 0..2 handoffs reaches both loop exits, the `nil` break and the
spent budget, within the time limit. Two cache clients and two versions give
one reader and one mutator, with a second mutation after the first. The S3
run enumerates every request over three-character credentials, three
header names (one upper-case, one with `_` that sorts differently after
lowercasing) and queries of up to two parts.

**Fairness.** Only the runs with liveness properties assume it.
* `quorum` assumes weak fairness of the collector and of each worker.
  Runnable goroutines are scheduled, and `getResponse`'s timers fire.
* `first_response` assumes weak fairness of the loop and of each request
  goroutine. The one-second timer fires, and `client.Do` returns under its
  timeout.
* `cache` assumes weak fairness of expiry (the memcache TTL) and of a
  request's own continuation.
* `put` assumes weak fairness of putObject's own steps, of `getResponse`,
  and of each worker and backend request. `client.Do` returns under its
  timeout, and `postPutTimeout` fires. Failures (`FailureStep`: a failed
  read of the client's body, a mid-body answer) have no fairness: they may
  happen or not.

## Proofs

Five modules hold TLAPS proofs. The proofs cover every value of the
constants: `ReplicaCount >= 1`, any `Handoffs`/`MaxHandoffs`, any body
length `Chunks >= 1`, any sets of answer classes, and any set of
Authorization values. Every safety invariant a passing run checks is
proved, except `S3Auth`'s `StringToSignDeterministic` (see below). The
container-info cache has no safety invariant that holds: its one safety
property, `SharedCacheFresh`, is violated (the `cache_stale` run), and its
`StaleInfoExpires` is liveness.

### `QuorumCollector_proofs`

These are lemmas about `getResponse` alone, shared by the proofs of both
write paths:
* `AddResponseGrows` and `QuorumStable`: `addResponse` only appends and
  only increases counts, so a quorum, once reached, is kept.
* `CountsAfterAdd`: `addResponse` keeps `CountsExact`.
* `CInvCollector` and `CInvFrame`: every collector step keeps
  `CInv == TallyTypeOK /\ GraceChosen /\ NoResultYet /\ ResultHasQuorum`,
  and so does every step that leaves it alone.
* `ChosenRepresentative`, `RefineTallyInit` and `CollectorRefines`: a
  collector step is a `QuorumDecision` step, provided that no worker still
  waiting to send is already in the tally.

### `QuorumResponse_proofs`

* `TypeCorrect`: `Spec => []TypeOK`, one lemma per group of actions.
* `ResultQuorum`: `Spec => []ResultHasQuorum`.
* `OneResponse`: `Spec => []OneResponsePerWorker`.
* `Refinement`: `Spec => DecisionRefined`, so the quorum write path
  implements `QuorumDecision`.

**Why `ResultHasQuorum` needs a stronger invariant.** It is not inductive by
itself. The grace loop returns `chosen`, so the invariant must know that
`chosen` had a quorum when the grace loop began. It must also know that
nothing was returned before. The inductive invariant is
`IInv == TypeOK /\ GraceChosen /\ NoResultYet /\ ResultHasQuorum`:
* `GraceChosen`: in the grace loop, `chosen` indexes a response whose class
  has reached q.
* `NoResultYet`: no result exists before `done`.

Two lemmas carry that argument:
* `AddResponseGrows`: `addResponse` only appends and only increases counts.
* `QuorumStable`: therefore a quorum, once reached, is kept while more
  responses arrive in the grace loop.

**The second invariant, `TInv`.** `OneResponse` and the refinement rest on
`TInv == TypeOK /\ Delivered /\ OneResponsePerWorker /\ CountsExact`:
* `Delivered`: a worker whose response is tallied has finished.
* `CountsExact`: `counts[c]` is the number of tallied responses of class c
  for c < 5, and `counts[5] = 0`, because `addResponse` returns early on a
  5xx.

**The refinement proof.**
* `RefineInit` shows that the initial states map to initial states.
* `RefineStep` takes one case per action.
* The grace-loop exits map to `Decide(chosen)`. `ChosenRepresentative`
  shows that `chosen` then satisfies the abstract `Representative`: its
  class is not 5xx (because `counts[5] = 0`), and `counts` equals the
  abstract `ClassCount`.
* `CardSame` identifies the instantiated module's `Cardinality` with the
  local one.

### `FirstResponse_proofs`

* `TypeCorrect`: `Spec => []TypeOK`.
* `Distinct`: `Spec => []DistinctDevices`.

The inductive invariant is `IInv == TypeOK /\ Permutation /\ Progress`:
* `Permutation`: the Fisher-Yates swaps keep `devs` injective.
* `Progress` ties everything to `requestCount`:
  * nothing is attempted while shuffling;
  * `taken = max(0, rc - R)`: `more.Next()` is called once per attempt past
    the primaries;
  * attempts beyond `rc` are untouched, and attempt a went to `devs[a]` or
    to handoff device a;
  * `ierr + |Pending| <= rc`, which bounds the internal-error counter
    (`TypeOK` needs it). Each error is an attempt that failed to build or
    whose response was received. The cardinality steps use
    `FiniteSetTheorems`.

### `PutObject_proofs`

* `TypeCorrect`: `Spec => []TypeOK`, whatever the backends answer.
* `DurableQuorumHolds`: under `NoEarly2xx` and `NoMidBody2xx`,
  `Spec => []DurableQuorum`.
* `Refinement`: `Spec => DecisionRefined`.

**The inductive invariant `PInv`.** Even `TypeOK` is not inductive for
the PUT. `CopyChunk` adds one chunk to each listed writer, and only
`copied < Chunks` bounds that. `PInv` adds the following conjuncts:
* `CInv`, as for the collector.
* `TallyInv`: every tallied worker has exited, with the response it
  tallied. The tally holds at most one response per worker.
  `CountsExact` also holds.
* `Started`: once `q.start()` has returned, every worker is past
  `wg.Done`. As a consequence, the workers' request steps all happen
  while `ppc = "start"`.
* `NothingCopied` and `CopyInStep`: during the copy, every listed writer
  has received exactly `copied` chunks.
* `OpenBeforeAwait`, `ClosedAwaitWhole` and `AnswerAfterClose`:
  * a worker's pipe is open until it awaits its answer;
  * a worker awaiting its answer on a closed pipe has had the whole body;
  * a backend answers after its pipe is closed, or with a mid-body
    class (`BackendAborted`).
* `CollectAfterCopy`: `getResponse` runs only after the copy.

TLC checked `PInv` on the `put` instance before it was proved, with
`EarlyClasses = {4, 5}` and with `MidBodyClasses = {4, 5}`. The proof has one lemma per group of actions:
`WorkerInv`, `BackendInv`, `PutInv` and `CollectorInv`. They are combined
in `PInvNext`.

**Why `DurableQuorum` needs the hypotheses `NoEarly2xx` and `NoMidBody2xx`.**
`DInv == PInv /\ TwoXXDurable` adds that a worker whose response is 2xx
has a closed pipe and a backend that answered 2xx for the whole body.
`FinalAnswered` keeps this: the answer came after the close, and the
worker was still awaiting, so it had the whole body.

An early 2xx, answered before the 100-continue, would break it. No body
was sent, yet `putObject` counts that response toward the quorum. With
`EarlyClasses = {2, 4, 5}`, TLC finds `DurableQuorum` violated. The code
relies on the object server never answering 2xx before it has read the
body, so the theorem states that as its hypothesis. A 2xx while the body
is still being sent breaks it in the same way: with
`MidBodyClasses = {2, 5}` TLC finds `DurableQuorum` violated. A transport
error is a 500, and an object server that stops reading answers with an
error, hence `NoMidBody2xx`. `TypeCorrect` and `Refinement` need neither.

From `DInv`, `TallyInjectsDurable` maps each tallied 2xx to its worker.
`OneResponsePerWorker` makes this map injective, and it lands in the
durable backends. `FS_Injection` then gives
`counts[2] = ClassTally(2) <= |durable|`, and `ResultHasQuorum` gives
`Q <= counts[2]`.

### `S3Auth_proofs`

* `HeaderCredentialsHold`: `Spec => []HeaderCredentials`. For any
  Authorization value `AWS k:s` where `k` and `s` are non-empty and `s`
  has no colon, a served request that is not disabled and not already
  done yields exactly key `k` and signature `s`. This is the split at
  `strings.LastIndex(authStr, ":")` in `ServeHTTP`, and it holds whatever
  `k` contains, colons included.
* It assumes `AuthBodyAssumption`: every Authorization body is a sequence
  of characters, as a Go string is.
* The inductive invariant is `ServedAsComputed`. Once `out` is set, it
  equals `Serve(req, order)` for some iteration order of the header map.
  `HeaderCredentials` is about the output of a step, so it is not
  inductive by itself.
* The argument rests on three lemmas:
  * `LastColon`: `SelectLastInSeq` finds the last colon.
  * `SplitCredentials`: splitting `k \o ":" \o s` at its last colon
    gives back `k` and `s`. It uses `ConcatProperties` and
    `SubSeqProperties`.
  * `ServeHeader`: `Serve` takes the header branch on such a request.

**Only model-checked.** TLC alone checks the following, because TLAPS does
not handle fairness and ENABLED: the liveness properties
`DispatchTerminates`, `PutReturns`, `ResponsesReleased` and
`StaleInfoExpires`. The refinements are proved as safety (`[][Next]`)
properties; `QuorumDecision` has no fairness.

`S3Auth`'s `StringToSignDeterministic` is only model-checked too. It says
that the string to sign does not depend on the header map's iteration
order. A proof would need two facts for every input:
* `ByteLess`, the byte order of `sort.Strings`, is a strict total order on
  all names;
* a sorted arrangement of a set of names (or of a multiset, for the query)
  is unique.
Both are induction over data, which is outside TLAPS's reach here.

## Not modelled

* URL and header construction (`mkquery`, `addUpdateHeaders`, the
  `devToRequest` closures). The account, container and object methods that
  only route to `quorumResponse` or `firstResponse` are not modelled either.
* `PutContainer`'s policy lookup, and the lazy `c.policyList` load.
* `directClient` and its JSON listing decode.
* Client construction.
* `validateSignature` (HMAC-SHA1) and the S3 response-writer wrapper.
* The Makefile.

Apart from the `policyList` load, none of these holds state shared between
concurrent calls. Two concurrent first `PutContainer` calls can both load the
list, an unsynchronised write of the same value (part_000:502). It is listed
as a hazard in `PROJECT.json`, but no property covers it: the only wrong
outcome is a torn slice header, which is below the level of this model. It
is left to the race detector.
