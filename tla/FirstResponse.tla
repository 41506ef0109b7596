---------------------------- MODULE FirstResponse ----------------------------
(***************************************************************************)
(* ProxyDirectClient.firstResponse (src/unnamed/part_000): the read path  *)
(* of GET/HEAD. It shuffles the primaries in place (Fisher-Yates), then   *)
(* makes up to ReplicaCount+2 attempts, primaries first, then handoffs    *)
(* from the ring's MoreNodes iterator. Each attempt's request runs in its *)
(* own goroutine and offers its response on the unbuffered channel        *)
(* success; between attempts the loop waits for any offered response or  *)
(* one second. A success is returned at once; after the last attempt a   *)
(* synthetic 503 or 404 is returned, and `returned` is closed so that     *)
(* goroutines still offering close their response and end.               *)
(*                                                                         *)
(* A backend answer is abstracted to what firstResponse tells apart:      *)
(* "ok" (2xx, 304, 412, 416), "other" (any other status below 500), "err" *)
(* (5xx) and "none" (client.Do failed: a nil response).                   *)
(***************************************************************************)
EXTENDS Naturals, FiniteSets

CONSTANTS
    ReplicaCount,   \* r.ReplicaCount(), and len(r.GetNodes(partition))
    MaxHandoffs,    \* the most handoff devices GetMoreNodes(partition) yields
    Answers,        \* the answers a backend can give
    BuildFails      \* whether devToRequest can return an error

ASSUME ReplicaCountAssumption == ReplicaCount \in Nat \ {0}
ASSUME MaxHandoffsAssumption == MaxHandoffs \in Nat
ASSUME AnswersAssumption == Answers \subseteq {"ok", "other", "err", "none"}
ASSUME BuildFailsAssumption == BuildFails \in BOOLEAN

\* int(r.ReplicaCount() + 2): the attempt budget.
Budget == ReplicaCount + 2
Attempt == 1..Budget

\* Primaries are devices 1..ReplicaCount, handoffs the next ones.
Device == 1..(ReplicaCount + MaxHandoffs)
NoDevice == 0

\* An answer counts as an internal error: resp == nil or a 5xx.
InternalError == {"err", "none"}

VARIABLES
    handoffs,   \* how many handoffs this partition's iterator yields
    fpc,        \* "shuffle", "attempt" (loop head), "select", "done"
    si,         \* the shuffle's loop index i
    devs,       \* devs, the primaries as a sequence (1-based here)
    rc,         \* requestCount
    taken,      \* how many handoffs more.Next() has yielded
    ierr,       \* internalErrors
    reqdev,     \* the device each attempt's request was sent to
    rstate,     \* each attempt's goroutine: "idle" (not started), "inflight",
                \* "offer" (blocked on success <- response), "taken", "closed"
    ranswer,    \* what each attempt's client.Do returned
    result      \* "pending", "found", "unavailable" (503), "notfound" (404)

vars == <<handoffs, fpc, si, devs, rc, taken, ierr, reqdev, rstate, ranswer, result>>

TypeOK ==
    /\ handoffs \in 0..MaxHandoffs
    /\ fpc \in {"shuffle", "attempt", "select", "done"}
    /\ si \in 0..ReplicaCount
    /\ devs \in [1..ReplicaCount -> 1..ReplicaCount]
    /\ rc \in 0..Budget
    /\ taken \in 0..handoffs
    /\ ierr \in 0..Budget
    /\ reqdev \in [Attempt -> Device \cup {NoDevice}]
    /\ rstate \in [Attempt -> {"idle", "inflight", "offer", "taken", "closed"}]
    /\ ranswer \in [Attempt -> Answers \cup {"-"}]
    /\ result \in {"pending", "found", "unavailable", "notfound"}

Init ==
    /\ handoffs \in 0..MaxHandoffs
    /\ fpc = "shuffle"
    /\ si = 0
    /\ devs = [i \in 1..ReplicaCount |-> i]
    /\ rc = 0
    /\ taken = 0
    /\ ierr = 0
    /\ reqdev = [a \in Attempt |-> NoDevice]
    /\ rstate = [a \in Attempt |-> "idle"]
    /\ ranswer = [a \in Attempt |-> "-"]
    /\ result = "pending"

-----------------------------------------------------------------------------
(* Fisher-Yates: for i := range devs { j := rand.Intn(i + 1); swap }.    *)

\* Fault variant: the swap only copies devs[j] into devs[i].
ShuffleStepCopy(j) ==
    /\ fpc = "shuffle"
    /\ si < ReplicaCount
    /\ devs' = [devs EXCEPT ![si + 1] = devs[j + 1]]
    /\ si' = si + 1
    /\ UNCHANGED <<handoffs, fpc, rc, taken, ierr, reqdev, rstate, ranswer, result>>

ShuffleStep(j) ==
    /\ fpc = "shuffle"
    /\ si < ReplicaCount
    /\ devs' = [devs EXCEPT ![si + 1] = devs[j + 1], ![j + 1] = devs[si + 1]]
    /\ si' = si + 1
    /\ UNCHANGED <<handoffs, fpc, rc, taken, ierr, reqdev, rstate, ranswer, result>>

ShuffleDone ==
    /\ fpc = "shuffle"
    /\ si = ReplicaCount
    /\ fpc' = "attempt"
    /\ UNCHANGED <<handoffs, si, devs, rc, taken, ierr, reqdev, rstate, ranswer, result>>

-----------------------------------------------------------------------------
(* The attempt loop.                                                       *)

\* The device for attempt requestCount: devs[requestCount] while primaries
\* last, else more.Next(), which is nil once the handoffs are used up.
HasDevice == rc < ReplicaCount \/ taken < handoffs
NextDevice == IF rc < ReplicaCount THEN devs[rc + 1]
              ELSE ReplicaCount + taken + 1
TakenAfter == IF rc < ReplicaCount THEN taken ELSE taken + 1

\* The loop ends: the budget is spent, or more.Next() returned nil (break).
\* internalErrors >= ReplicaCount gives a 503, anything else a 404; the
\* deferred close(returned) releases the goroutines still offering.
LoopEnds ==
    /\ fpc = "attempt"
    /\ rc >= Budget \/ ~HasDevice
    /\ result' = IF ierr >= ReplicaCount THEN "unavailable" ELSE "notfound"
    /\ fpc' = "done"
    /\ UNCHANGED <<handoffs, si, devs, rc, taken, ierr, reqdev, rstate, ranswer>>

\* devToRequest(dev) fails: internalErrors++, continue with the next attempt.
BuildFailed ==
    /\ fpc = "attempt"
    /\ BuildFails
    /\ rc < Budget
    /\ HasDevice
    /\ taken' = TakenAfter
    /\ ierr' = ierr + 1
    /\ rc' = rc + 1
    /\ UNCHANGED <<handoffs, fpc, si, devs, reqdev, rstate, ranswer, result>>

\* Fault variant: more.Next()'s nil is not checked.
FireUnchecked ==
    /\ fpc = "attempt"
    /\ rc < Budget
    /\ reqdev' = [reqdev EXCEPT ![rc + 1] = NextDevice]
    /\ rstate' = [rstate EXCEPT ![rc + 1] = "inflight"]
    /\ taken' = TakenAfter
    /\ rc' = rc + 1
    /\ fpc' = "select"
    /\ UNCHANGED <<handoffs, si, devs, ierr, ranswer, result>>

\* `go func(r)`: the request goes out, and the loop enters its select.
\* (requestCount++ of the loop's post statement is taken here.)
Fire ==
    /\ fpc = "attempt"
    /\ rc < Budget
    /\ HasDevice
    /\ reqdev' = [reqdev EXCEPT ![rc + 1] = NextDevice]
    /\ rstate' = [rstate EXCEPT ![rc + 1] = "inflight"]
    /\ taken' = TakenAfter
    /\ rc' = rc + 1
    /\ fpc' = "select"
    /\ UNCHANGED <<handoffs, si, devs, ierr, ranswer, result>>

\* `case resp = <-success` with a terminal success: return it.
ReceiveSuccess(a) ==
    /\ fpc = "select"
    /\ rstate[a] = "offer"
    /\ ranswer[a] = "ok"
    /\ rstate' = [rstate EXCEPT ![a] = "taken"]
    /\ result' = "found"
    /\ fpc' = "done"
    /\ UNCHANGED <<handoffs, si, devs, rc, taken, ierr, reqdev, ranswer>>

\* Any other response: nil or 5xx counts as an internal error; the body is
\* closed, and the loop goes on.
ReceiveOther(a) ==
    /\ fpc = "select"
    /\ rstate[a] = "offer"
    /\ ranswer[a] # "ok"
    /\ rstate' = [rstate EXCEPT ![a] = "taken"]
    /\ ierr' = IF ranswer[a] \in InternalError THEN ierr + 1 ELSE ierr
    /\ fpc' = "attempt"
    /\ UNCHANGED <<handoffs, si, devs, rc, taken, reqdev, ranswer, result>>

\* `case <-time.After(time.Second)`: fire the next attempt without
\* cancelling this one.
SelectTimeout ==
    /\ fpc = "select"
    /\ fpc' = "attempt"
    /\ UNCHANGED <<handoffs, si, devs, rc, taken, ierr, reqdev, rstate, ranswer, result>>

Loop ==
    \/ LoopEnds \/ BuildFailed \/ Fire \/ SelectTimeout
    \/ \E a \in Attempt : ReceiveSuccess(a) \/ ReceiveOther(a)

-----------------------------------------------------------------------------
(* An attempt's goroutine.                                                 *)

\* c.client.Do(r) returns (an error gives a nil response), and the
\* goroutine blocks in its select on `success <- response`.
Answered(a, x) ==
    /\ rstate[a] = "inflight"
    /\ rstate' = [rstate EXCEPT ![a] = "offer"]
    /\ ranswer' = [ranswer EXCEPT ![a] = x]
    /\ UNCHANGED <<handoffs, fpc, si, devs, rc, taken, ierr, reqdev, result>>

\* Fault variant: nothing ever closes `returned`.
AbandonedNever(a) == FALSE

\* `case <-returned`: firstResponse has returned; close the body and end.
Abandoned(a) ==
    /\ fpc = "done"
    /\ rstate[a] = "offer"
    /\ rstate' = [rstate EXCEPT ![a] = "closed"]
    /\ UNCHANGED <<handoffs, fpc, si, devs, rc, taken, ierr, reqdev, ranswer, result>>

Request(a) == (\E x \in Answers : Answered(a, x)) \/ Abandoned(a)

\* firstResponse's own goroutine: rand.Intn(i + 1) picks j in 0..i.
Main == (\E j \in 0..si : ShuffleStep(j)) \/ ShuffleDone \/ Loop

Next ==
    \/ Main
    \/ \E a \in Attempt : Request(a)

\* The loop's one-second timer always fires, and client.Do always returns
\* (its 120-minute timeout), so firstResponse and every request goroutine
\* are weakly fair.
Fairness ==
    /\ WF_vars(Main)
    /\ \A a \in Attempt : WF_vars(Request(a))

Spec == Init /\ [][Next]_vars /\ Fairness

-----------------------------------------------------------------------------
(* Properties of the read path.                                            *)

\* No two requests of one read go to the same device: the in-place
\* Fisher-Yates shuffle leaves devs a permutation of the primaries, and
\* the handoffs more.Next() yields come after them (spec 4.3 steps 1-2).
DistinctDevices ==
    \A a, b \in Attempt :
        (a # b /\ reqdev[a] # NoDevice /\ reqdev[b] # NoDevice)
            => reqdev[a] # reqdev[b]

\* Spec 4.3 step 7 and spec 8: once firstResponse has returned, no request
\* goroutine is left holding a response: each is received by the loop or
\* sees `returned` closed and closes its body.
ResponsesReleased ==
    <>[](\A a \in Attempt : rstate[a] \in {"idle", "taken", "closed"})
=============================================================================
