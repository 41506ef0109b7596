------------------------- MODULE ContainerInfoCache -------------------------
(***************************************************************************)
(* The container-info cache of the proxy client (src/unnamed/part_000),   *)
(* for one container: ProxyDirectClient.GetContainerInfo reads the        *)
(* request's local map lc, then the shared memcache mc, and on a miss     *)
(* HEADs the container and stores what it read into mc for 30 seconds.    *)
(* proxyClient.PutContainer, PostContainer and DeleteContainer send the   *)
(* mutation and then, deferred, invalidateContainerInfo deletes the key   *)
(* from lc and mc.                                                         *)
(*                                                                         *)
(* Clients are concurrent proxy requests, each with its own lc; mc and    *)
(* the container servers are shared. The container's state on its        *)
(* servers is a version number, bumped by a mutation that takes effect;   *)
(* a ContainerInfo is the version it was read from.                       *)
(***************************************************************************)
EXTENDS Integers

CONSTANTS
    Client,     \* concurrent proxy requests
    MaxVersion  \* how many mutations take effect, at most

ASSUME MaxVersionAssumption == MaxVersion \in Nat

Version == 0..MaxVersion
None == -1          \* no entry; also the nil *ContainerInfo
Failed == -2        \* GetContainerInfo returned an error

VARIABLES
    bver,       \* the container's state on its servers
    mc,         \* the memcache entry for "container/a/c"
    lc,         \* each request's local-map entry
    cpc,        \* each client: "idle", "head" (HEAD in flight), "set" (about
                \* to mc.Set), "invalidate" (mutation sent, defer pending)
    snap,       \* the version a client's HEAD read
    got         \* what a client's last GetContainerInfo returned

vars == <<bver, mc, lc, cpc, snap, got>>

\* The local map may already hold the container's info when the request
\* starts (its owner fills it outside this package).
Init ==
    /\ bver = 0
    /\ mc = None
    /\ lc \in [Client -> {None, 0}]
    /\ cpc = [c \in Client |-> "idle"]
    /\ snap = [c \in Client |-> None]
    /\ got = [c \in Client |-> None]

-----------------------------------------------------------------------------
(* GetContainerInfo.                                                       *)

\* ci = lc[key] is not nil: return it.
LocalHit(c) ==
    /\ cpc[c] = "idle"
    /\ lc[c] # None
    /\ got' = [got EXCEPT ![c] = lc[c]]
    /\ UNCHANGED <<bver, mc, lc, cpc, snap>>

\* mc.GetStructured finds the key: return it (lc is not filled).
SharedHit(c) ==
    /\ cpc[c] = "idle"
    /\ lc[c] = None
    /\ mc # None
    /\ got' = [got EXCEPT ![c] = mc]
    /\ UNCHANGED <<bver, mc, lc, cpc, snap>>

\* Neither tier has it (a GetStructured error counts as a miss): HEAD.
Miss(c) ==
    /\ cpc[c] = "idle"
    /\ lc[c] = None
    /\ cpc' = [cpc EXCEPT ![c] = "head"]
    /\ UNCHANGED <<bver, mc, lc, snap, got>>

\* HeadContainer (firstResponse) answers 2xx and the headers parse.
HeadOk(c) ==
    /\ cpc[c] = "head"
    /\ snap' = [snap EXCEPT ![c] = bver]
    /\ cpc' = [cpc EXCEPT ![c] = "set"]
    /\ UNCHANGED <<bver, mc, lc, got>>

\* A non-2xx status, or a header that does not parse: return an error.
HeadFailed(c) ==
    /\ cpc[c] = "head"
    /\ got' = [got EXCEPT ![c] = Failed]
    /\ cpc' = [cpc EXCEPT ![c] = "idle"]
    /\ UNCHANGED <<bver, mc, lc, snap>>

\* mc.Set(key, ci, 30), and return ci.
Fill(c) ==
    /\ cpc[c] = "set"
    /\ mc' = snap[c]
    /\ got' = [got EXCEPT ![c] = snap[c]]
    /\ cpc' = [cpc EXCEPT ![c] = "idle"]
    /\ UNCHANGED <<bver, lc, snap>>

-----------------------------------------------------------------------------
(* PutContainer, PostContainer, DeleteContainer through proxyClient.       *)

\* The mutation goes to the container servers (quorumResponse); it takes
\* effect, or it fails and changes nothing.
Mutate(c) ==
    /\ cpc[c] = "idle"
    /\ \/ bver' = bver
       \/ bver < MaxVersion /\ bver' = bver + 1
    /\ cpc' = [cpc EXCEPT ![c] = "invalidate"]
    /\ UNCHANGED <<mc, lc, snap, got>>

\* The deferred invalidateContainerInfo: delete(lc, key), mc.Delete(key).
Invalidate(c) ==
    /\ cpc[c] = "invalidate"
    /\ lc' = [lc EXCEPT ![c] = None]
    /\ mc' = None
    /\ cpc' = [cpc EXCEPT ![c] = "idle"]
    /\ UNCHANGED <<bver, snap, got>>

\* Fault variant: mc.Set without an expiry.
ExpireNever == FALSE

\* The 30-second TTL of the entry runs out.
Expire ==
    /\ mc # None
    /\ mc' = None
    /\ UNCHANGED <<bver, lc, cpc, snap, got>>

ClientStep(c) ==
    \/ LocalHit(c) \/ SharedHit(c) \/ Miss(c) \/ HeadOk(c) \/ HeadFailed(c)
    \/ Fill(c) \/ Mutate(c) \/ Invalidate(c)

Next == Expire \/ \E c \in Client : ClientStep(c)

\* Memcache drops an entry when its TTL is up; a request in progress runs
\* on (its HEAD and its mutation return, under the client's timeouts).
Fairness ==
    /\ WF_vars(Expire)
    /\ \A c \in Client : WF_vars(HeadOk(c) \/ HeadFailed(c) \/ Fill(c)
                                 \/ Invalidate(c))

Spec == Init /\ [][Next]_vars /\ Fairness

-----------------------------------------------------------------------------
(* Properties of the cache.                                                *)

\* No mutation is between sending and its deferred invalidation.
Quiescent == \A c \in Client : cpc[c] # "invalidate"

\* Spec 8, cache write-through: once a mutation has returned (and its
\* deferred invalidateContainerInfo has run), memcache holds no info older
\* than the container's state. GetContainerInfo stores what its HEAD read,
\* whenever that HEAD was.
SharedCacheFresh == (Quiescent /\ mc # None) => mc = bver

\* Whatever stale info memcache is given, it goes: eventually, and for
\* good, memcache holds nothing or the container's current state (the
\* 30-second TTL of mc.Set).
StaleInfoExpires == <>[](mc = None \/ mc = bver)
=============================================================================
