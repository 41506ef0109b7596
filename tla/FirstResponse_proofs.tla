------------------------- MODULE FirstResponse_proofs -------------------------
(***************************************************************************)
(* TLAPS proofs about firstResponse, for every replica count and every    *)
(* number of handoffs: the state stays well typed, and no two attempts of *)
(* one read go to the same device.                                        *)
(***************************************************************************)
EXTENDS FirstResponse, FiniteSetTheorems, TLAPS

\* The attempts whose goroutine still holds its request or its response.
Pending == {a \in Attempt : rstate[a] \in {"inflight", "offer"}}

\* The device attempt a goes to: the a-th shuffled primary, then handoff
\* number a - ReplicaCount, which is device a.
AttemptDevice(a) == IF a <= ReplicaCount THEN devs[a] ELSE a

\* The in-place shuffle keeps devs a permutation of the primaries.
Permutation == \A i, j \in 1..ReplicaCount : i # j => devs[i] # devs[j]

\* How far the attempt loop has got, in terms of requestCount:
\*  - nothing is attempted while shuffling;
\*  - more.Next() has been called once for each attempt past the primaries;
\*  - attempts not yet made are untouched, and attempt a went to its device;
\*  - each internal error is an attempt that failed to build or whose
\*    response was received, so it is not among the pending ones.
Progress ==
    /\ fpc = "shuffle" => rc = 0
    /\ taken = IF rc <= ReplicaCount THEN 0 ELSE rc - ReplicaCount
    /\ \A a \in Attempt : a > rc => rstate[a] = "idle" /\ reqdev[a] = NoDevice
    /\ \A a \in Attempt : reqdev[a] # NoDevice => reqdev[a] = AttemptDevice(a)
    /\ ierr + Cardinality(Pending) <= rc

IInv == TypeOK /\ Permutation /\ Progress

-----------------------------------------------------------------------------
(* Lemmas about the pending attempts.                                      *)

LEMMA AttemptFinite ==
  ASSUME NEW S \in SUBSET Attempt
  PROVE  IsFiniteSet(S) /\ Cardinality(S) \in Nat
<1>1. IsFiniteSet(Attempt)
  BY FS_Interval, ReplicaCountAssumption DEF Attempt, Budget
<1>2. IsFiniteSet(S)
  BY <1>1, FS_Subset
<1>3. QED
  BY <1>2, FS_CardinalityType

\* The internal-error count stays within the attempt budget.
LEMMA IerrBound ==
  ASSUME NEW i \in Nat, NEW r \in 0..Budget, NEW S \in SUBSET Attempt,
         i + Cardinality(S) <= r
  PROVE  i \in 0..Budget
<1>1. Cardinality(S) \in Nat
  BY AttemptFinite
<1>2. QED
  BY <1>1, ReplicaCountAssumption DEF Budget

\* One more pending attempt, or one fewer.
LEMMA PendingAdd ==
  ASSUME NEW S \in SUBSET Attempt, NEW x \in Attempt, x \notin S
  PROVE  Cardinality(S \cup {x}) = Cardinality(S) + 1
BY AttemptFinite, FS_AddElement

LEMMA PendingRemove ==
  ASSUME NEW S \in SUBSET Attempt, NEW x \in S
  PROVE  Cardinality(S \ {x}) = Cardinality(S) - 1 /\ Cardinality(S) >= 1
<1>1. Cardinality(S \ {x}) = Cardinality(S) - 1
  BY AttemptFinite, FS_AddElement, FS_RemoveElement
<1>2. Cardinality(S \ {x}) \in Nat
  BY AttemptFinite
<1>3. QED
  BY <1>1, <1>2, AttemptFinite

-----------------------------------------------------------------------------
(* The inductive invariant.                                                *)

LEMMA IInvInit == Init => IInv
<1> SUFFICES ASSUME Init PROVE IInv  OBVIOUS
<1>1. Pending = {}
  BY DEF Init, Pending
<1>2. TypeOK
  BY ReplicaCountAssumption, MaxHandoffsAssumption
  DEF Init, TypeOK, Budget, Attempt, Device, NoDevice
<1>3. Permutation
  BY DEF Init, Permutation
<1>4. Progress
  BY <1>1, FS_EmptySet, ReplicaCountAssumption
  DEF Init, Progress, NoDevice, Attempt, Budget
<1>5. QED
  BY <1>2, <1>3, <1>4 DEF IInv

\* Steps that leave the loop's counters, the devices and the goroutines
\* alone keep the invariant.
LEMMA IInvFrame ==
  ASSUME IInv, [Next]_vars,
         UNCHANGED <<handoffs, si, devs, rc, taken, ierr, reqdev, rstate, ranswer>>,
         fpc' \in {"attempt", "select", "done"},
         result' \in {"pending", "found", "unavailable", "notfound"}
  PROVE  IInv'
BY DEF IInv, TypeOK, Permutation, Progress, Pending, AttemptDevice

\* A Fisher-Yates swap keeps devs a permutation; nothing is attempted yet.
LEMMA IInvShuffle ==
  ASSUME IInv, NEW j \in 0..si, ShuffleStep(j)
  PROVE  IInv'
<1> USE ReplicaCountAssumption
<1>1. rc = 0 /\ si < ReplicaCount
  BY DEF ShuffleStep, IInv, Progress
<1> DEFINE i == si + 1
<1>a. i \in 1..ReplicaCount /\ j + 1 \in 1..ReplicaCount
  BY <1>1 DEF IInv, TypeOK
<1>b. /\ devs \in [1..ReplicaCount -> 1..ReplicaCount]
      /\ devs' = [k \in 1..ReplicaCount |->
                    IF k = i THEN devs[j + 1]
                    ELSE IF k = j + 1 THEN devs[i] ELSE devs[k]]
  BY <1>a DEF ShuffleStep, IInv, TypeOK
<1>2. devs' \in [1..ReplicaCount -> 1..ReplicaCount] /\ si' \in 0..ReplicaCount
  <2>1. si' \in 0..ReplicaCount
    BY <1>1 DEF ShuffleStep, IInv, TypeOK
  <2>2. \A k \in 1..ReplicaCount :
          (IF k = i THEN devs[j + 1]
           ELSE IF k = j + 1 THEN devs[i] ELSE devs[k]) \in 1..ReplicaCount
    BY <1>a, <1>b
  <2>3. QED
    BY <1>b, <2>1, <2>2
<1>3. Permutation'
  BY <1>a, <1>b DEF IInv, Permutation
<1>4. Pending' = Pending
  BY DEF ShuffleStep, Pending
<1>5. Progress'
  BY <1>1, <1>4 DEF ShuffleStep, IInv, Progress, Attempt, Budget, NoDevice
<1>6. QED
  BY <1>2, <1>3, <1>5 DEF ShuffleStep, IInv, TypeOK

\* A request that cannot be built counts as an internal error.
LEMMA IInvBuildFailed ==
  ASSUME IInv, BuildFailed
  PROVE  IInv'
<1> USE ReplicaCountAssumption, MaxHandoffsAssumption
<1>1. Pending' = Pending /\ Pending \in SUBSET Attempt
  BY DEF BuildFailed, Pending
<1>2. Progress'
  <2>1. (fpc = "shuffle" => rc = 0)'
    BY DEF BuildFailed
  <2>2. (taken = IF rc <= ReplicaCount THEN 0 ELSE rc - ReplicaCount)'
    BY DEF BuildFailed, IInv, TypeOK, Progress, TakenAfter
  <2>3. (\A a \in Attempt : a > rc => rstate[a] = "idle" /\ reqdev[a] = NoDevice)'
    BY DEF BuildFailed, IInv, TypeOK, Progress, Attempt
  <2>4. (\A a \in Attempt : reqdev[a] # NoDevice => reqdev[a] = AttemptDevice(a))'
    BY DEF BuildFailed, IInv, Progress, AttemptDevice
  <2>5. (ierr + Cardinality(Pending) <= rc)'
    <3>1. Cardinality(Pending) \in Nat
      BY <1>1, AttemptFinite
    <3>2. QED
      BY <1>1, <3>1 DEF BuildFailed, IInv, TypeOK, Progress
  <2>6. QED
    BY <2>1, <2>2, <2>3, <2>4, <2>5 DEF Progress
<1>3. ierr' \in 0..Budget
  <2>1. ierr' \in Nat /\ rc' \in 0..Budget
    BY DEF BuildFailed, IInv, TypeOK, Budget
  <2>2. QED
    BY <1>1, <1>2, <2>1, IerrBound DEF Progress
<1>4. taken' \in 0..handoffs'
  BY DEF BuildFailed, IInv, TypeOK, Progress, HasDevice, TakenAfter
<1>5. QED
  BY <1>2, <1>3, <1>4 DEF BuildFailed, IInv, TypeOK, Permutation, Budget

\* Firing attempt rc + 1 sends it to the next primary or the next handoff,
\* and its goroutine joins the pending ones.
LEMMA IInvFire ==
  ASSUME IInv, Fire
  PROVE  IInv'
<1> USE ReplicaCountAssumption, MaxHandoffsAssumption
<1> DEFINE x == rc + 1
<1>1. x \in Attempt /\ rstate[x] = "idle" /\ reqdev[x] = NoDevice
  BY DEF Fire, IInv, TypeOK, Progress, Attempt, Budget
<1>2. NextDevice = AttemptDevice(x) /\ NextDevice \in Device
  BY DEF Fire, HasDevice, NextDevice, AttemptDevice, IInv, TypeOK, Progress,
         Device
<1>3. Pending' = Pending \cup {x} /\ x \notin Pending /\ Pending \in SUBSET Attempt
  BY <1>1 DEF Fire, Pending, IInv, TypeOK
<1>4. Cardinality(Pending') = Cardinality(Pending) + 1
  BY <1>1, <1>3, PendingAdd
<1>5. Progress'
  <2>1. (taken = IF rc <= ReplicaCount THEN 0 ELSE rc - ReplicaCount)'
    BY DEF Fire, IInv, TypeOK, Progress, TakenAfter
  <2>2. (\A a \in Attempt : a > rc => rstate[a] = "idle" /\ reqdev[a] = NoDevice)'
    BY DEF Fire, IInv, TypeOK, Progress, Attempt
  <2>3. (\A a \in Attempt : reqdev[a] # NoDevice => reqdev[a] = AttemptDevice(a))'
    BY <1>2 DEF Fire, IInv, TypeOK, Progress, AttemptDevice
  <2>4. (ierr + Cardinality(Pending) <= rc)'
    <3>1. Cardinality(Pending) \in Nat
      BY <1>3, AttemptFinite
    <3>2. QED
      BY <1>4, <3>1 DEF Fire, IInv, TypeOK, Progress
  <2>5. QED
    BY <2>1, <2>2, <2>3, <2>4 DEF Fire, Progress
<1>6. TypeOK'
  <2>1. reqdev' \in [Attempt -> Device \cup {NoDevice}]
    BY <1>1, <1>2 DEF Fire, IInv, TypeOK
  <2>2. taken' \in 0..handoffs'
    BY DEF Fire, IInv, TypeOK, HasDevice, TakenAfter
  <2>3. QED
    BY <2>1, <2>2, <1>1 DEF Fire, IInv, TypeOK, Budget
<1>7. QED
  BY <1>5, <1>6 DEF Fire, IInv, Permutation

\* The loop takes a pending attempt's response: it is no longer pending,
\* and a nil or 5xx response adds one internal error.
LEMMA IInvReceive ==
  ASSUME IInv, NEW a \in Attempt, ReceiveSuccess(a) \/ ReceiveOther(a)
  PROVE  IInv'
<1> USE ReplicaCountAssumption
<1>1. rstate[a] = "offer" /\ rstate' = [rstate EXCEPT ![a] = "taken"]
      /\ ierr' \in {ierr, ierr + 1}
      /\ UNCHANGED <<handoffs, si, devs, rc, taken, reqdev, ranswer>>
  BY DEF ReceiveSuccess, ReceiveOther
<1>2. Pending' = Pending \ {a} /\ a \in Pending /\ Pending \in SUBSET Attempt
  BY <1>1 DEF Pending, IInv, TypeOK
<1>3. Cardinality(Pending') = Cardinality(Pending) - 1 /\ Cardinality(Pending) >= 1
  BY <1>2, PendingRemove
<1>4. (ierr + Cardinality(Pending) <= rc)'
  <2>1. Cardinality(Pending) \in Nat
    BY <1>2, AttemptFinite
  <2>2. QED
    BY <1>1, <1>3, <2>1 DEF IInv, TypeOK, Progress
<1>5. Progress'
  BY <1>1, <1>4 DEF IInv, Progress, AttemptDevice, ReceiveSuccess, ReceiveOther
<1>6. ierr' \in 0..Budget
  BY <1>1, <1>2, <1>4, IerrBound DEF IInv, TypeOK
<1>7. QED
  BY <1>1, <1>5, <1>6 DEF IInv, TypeOK, Permutation, ReceiveSuccess, ReceiveOther

\* client.Do returns: the goroutine stays pending, now offering.
LEMMA IInvAnswered ==
  ASSUME IInv, NEW a \in Attempt, NEW x \in Answers, Answered(a, x)
  PROVE  IInv'
<1>1. Pending' = Pending
  BY DEF Answered, Pending, IInv, TypeOK
<1>2. a <= rc
  BY DEF Answered, IInv, TypeOK, Progress, Attempt
<1>3. Progress'
  BY <1>1, <1>2 DEF Answered, IInv, TypeOK, Progress, AttemptDevice
<1>4. QED
  BY <1>3 DEF Answered, IInv, TypeOK, Permutation

\* After the return, an offering goroutine sees `returned` closed.
LEMMA IInvAbandoned ==
  ASSUME IInv, NEW a \in Attempt, Abandoned(a)
  PROVE  IInv'
<1>1. Pending' = Pending \ {a} /\ a \in Pending /\ Pending \in SUBSET Attempt
  BY DEF Abandoned, Pending, IInv, TypeOK
<1>2. Cardinality(Pending') = Cardinality(Pending) - 1 /\ Cardinality(Pending) \in Nat
  BY <1>1, PendingRemove, AttemptFinite
<1>3. Progress'
  BY <1>2 DEF Abandoned, IInv, TypeOK, Progress, AttemptDevice
<1>4. QED
  BY <1>3 DEF Abandoned, IInv, TypeOK, Permutation

LEMMA IInvNext == IInv /\ [Next]_vars => IInv'
<1> SUFFICES ASSUME IInv, [Next]_vars PROVE IInv'
  OBVIOUS
<1>1. CASE \E j \in 0..si : ShuffleStep(j)
  BY <1>1, IInvShuffle
<1>2. CASE ShuffleDone \/ LoopEnds \/ SelectTimeout
  <2>1. UNCHANGED <<handoffs, si, devs, rc, taken, ierr, reqdev, rstate, ranswer>>
    BY <1>2 DEF ShuffleDone, LoopEnds, SelectTimeout
  <2>2. fpc' \in {"attempt", "select", "done"}
    BY <1>2 DEF ShuffleDone, LoopEnds, SelectTimeout
  <2>3. result' \in {"pending", "found", "unavailable", "notfound"}
    BY <1>2 DEF ShuffleDone, LoopEnds, SelectTimeout, IInv, TypeOK
  <2>4. QED
    BY <2>1, <2>2, <2>3, IInvFrame
<1>3. CASE BuildFailed
  BY <1>3, IInvBuildFailed
<1>4. CASE Fire
  BY <1>4, IInvFire
<1>5. CASE \E a \in Attempt : ReceiveSuccess(a) \/ ReceiveOther(a)
  BY <1>5, IInvReceive
<1>6. CASE \E a \in Attempt : \E x \in Answers : Answered(a, x)
  BY <1>6, IInvAnswered
<1>7. CASE \E a \in Attempt : Abandoned(a)
  BY <1>7, IInvAbandoned
<1>8. CASE UNCHANGED vars
  BY <1>8 DEF vars, IInv, TypeOK, Permutation, Progress, Pending, AttemptDevice
<1>9. QED
  BY <1>1, <1>2, <1>3, <1>4, <1>5, <1>6, <1>7, <1>8
  DEF Next, Main, Loop, Request

\* firstResponse's state is well typed in every reachable state, for every
\* replica count and handoff count (the run checks TypeOK for R = 2).
THEOREM TypeCorrect == Spec => []TypeOK
<1>1. IInv => TypeOK
  BY DEF IInv
<1>2. QED
  BY <1>1, IInvInit, IInvNext, PTL DEF Spec

\* No two attempts of one read go to the same device, for every replica
\* count and handoff count: the in-place Fisher-Yates shuffle of devs
\* is a permutation of the primaries, and more.Next() is called once per
\* attempt past them, so the handoffs come after the primaries and each
\* only once, whatever the one-second timeouts and build failures do.
THEOREM Distinct == Spec => []DistinctDevices
<1>1. IInv => DistinctDevices
  <2> SUFFICES ASSUME IInv, NEW a \in Attempt, NEW b \in Attempt, a # b,
                      reqdev[a] # NoDevice, reqdev[b] # NoDevice
               PROVE  reqdev[a] # reqdev[b]
    BY DEF DistinctDevices
  <2>1. reqdev[a] = AttemptDevice(a) /\ reqdev[b] = AttemptDevice(b)
    BY DEF IInv, Progress
  <2>2. devs \in [1..ReplicaCount -> 1..ReplicaCount] /\ Permutation
    BY DEF IInv, TypeOK
  <2>3. QED
    BY <2>1, <2>2 DEF AttemptDevice, Permutation, Attempt
<1>2. QED
  BY <1>1, IInvInit, IInvNext, PTL DEF Spec
=============================================================================
