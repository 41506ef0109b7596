------------------------------ MODULE S3Auth_proofs ------------------------------
(***************************************************************************)
(* Proofs about the S3 auth middleware: an Authorization header           *)
(* "AWS <key>:<sig>" whose signature has no colon yields exactly that key  *)
(* and signature, for every key, signature and request.                   *)
(***************************************************************************)
EXTENDS S3Auth, SequenceTheorems, TLAPS

\* strings.LastIndex(b, ":") finds the colon at l + 1 when no colon
\* follows it.
LEMMA LastColon ==
  ASSUME NEW C, NEW b \in Seq(C), NEW l \in 0..(Len(b) - 1),
         b[l + 1] = Colon,
         \A j \in (l + 2)..Len(b) : b[j] # Colon
  PROVE  SplitAt(b) = l + 1
<1> DEFINE I == {i \in 1..Len(b) : b[i] = Colon}
<1>1. l + 1 \in I
  OBVIOUS
<1>2. \A i \in I : i <= l + 1
  OBVIOUS
<1>3. Max(I) = l + 1
  <2>1. \A x \in I : (\A y \in I : x >= y) <=> x = l + 1
    BY <1>1, <1>2
  <2>2. QED
    BY <2>1, <1>1 DEF Max
<1>4. QED
  BY <1>1, <1>3 DEF SplitAt, SelectLastInSeq

\* Once served, what the middleware did is what ServeHTTP computes for the
\* request under some iteration order of its header map.
ServedAsComputed ==
    /\ req \in Request
    /\ Served => \E order \in SetToSeqs(AmzHeaders(req)) : out = Serve(req, order)

LEMMA ServedInit == Init => ServedAsComputed
BY DEF Init, ServedAsComputed, Served, Pass

LEMMA ServedNext == ServedAsComputed /\ [ServeHTTP]_vars => ServedAsComputed'
BY DEF ServedAsComputed, ServeHTTP, Served, vars

\* ServeHTTP's split of "<k>:<s>" at the last colon gives back k and s
\* when s holds no colon.
LEMMA SplitCredentials ==
  ASSUME NEW C, NEW k \in Seq(C), NEW rest \in Seq(C),
         Colon \notin ToSet(rest)
  PROVE  LET body == k \o <<Colon>> \o rest
         IN  /\ SplitAt(body) = Len(k) + 1
             /\ SubSeq(body, 1, SplitAt(body) - 1) = k
             /\ SubSeq(body, SplitAt(body) + 1, Len(body)) = rest
<1> DEFINE body == k \o <<Colon>> \o rest
           l == Len(k)
<1>1. /\ body \in Seq(C \cup {Colon})
      /\ Len(body) = l + 1 + Len(rest)
      /\ \A i \in 1..Len(body) :
            body[i] = IF i <= l THEN k[i] ELSE IF i = l + 1 THEN Colon ELSE rest[i - l - 1]
  <2>1. k \in Seq(C \cup {Colon}) /\ rest \in Seq(C \cup {Colon})
        /\ <<Colon>> \in Seq(C \cup {Colon})
    OBVIOUS
  <2>2. QED
    BY <2>1, ConcatProperties
<1>2. l \in 0..(Len(body) - 1) /\ body[l + 1] = Colon
  BY <1>1
<1>3. \A j \in (l + 2)..Len(body) : body[j] # Colon
  <2> SUFFICES ASSUME NEW j \in (l + 2)..Len(body) PROVE body[j] # Colon
    OBVIOUS
  <2>1. body[j] = rest[j - l - 1] /\ j - l - 1 \in DOMAIN rest
    BY <1>1
  <2>2. body[j] \in ToSet(rest)
    BY <2>1 DEF ToSet
  <2>3. QED
    BY <2>2
<1>4. SplitAt(body) = l + 1
  BY <1>1, <1>2, <1>3, LastColon
<1>5. SubSeq(body, 1, l) = k
  BY <1>1
<1>6. SubSeq(body, l + 2, Len(body)) = rest
  BY <1>1
<1>7. QED
  BY <1>4, <1>5, <1>6

\* The credential split: a header "AWS <k>:<s>" with a non-empty key and a
\* non-empty signature that holds no colon, on a request the middleware
\* handles, gives kind s3 with key k and signature s, under every header
\* iteration order.
LEMMA ServeHeader ==
  \A r \in Request, k \in Seq(STRING), s \in Seq(STRING) :
     (/\ ~Disabled(r) /\ ~r.done /\ r.auth.aws
      /\ k # << >> /\ s # << >> /\ Colon \notin ToSet(s)
      /\ r.auth.body = k \o <<Colon>> \o s)
        => \A order : /\ Serve(r, order).kind = "s3"
                      /\ Serve(r, order).key = k
                      /\ Serve(r, order).sig = s
<1> SUFFICES ASSUME NEW r \in Request, NEW k \in Seq(STRING), NEW s \in Seq(STRING),
                    ~Disabled(r), ~r.done, r.auth.aws,
                    k # << >>, s # << >>, Colon \notin ToSet(s),
                    r.auth.body = k \o <<Colon>> \o s,
                    NEW order
             PROVE  /\ Serve(r, order).kind = "s3"
                    /\ Serve(r, order).key = k
                    /\ Serve(r, order).sig = s
  OBVIOUS
<1>1. /\ SplitAt(r.auth.body) = Len(k) + 1
      /\ SubSeq(r.auth.body, 1, SplitAt(r.auth.body) - 1) = k
      /\ SubSeq(r.auth.body, SplitAt(r.auth.body) + 1, Len(r.auth.body)) = s
  <2> DEFINE body == k \o <<Colon>> \o s
  <2>1. /\ SplitAt(body) = Len(k) + 1
        /\ SubSeq(body, 1, SplitAt(body) - 1) = k
        /\ SubSeq(body, SplitAt(body) + 1, Len(body)) = s
    BY SplitCredentials
  <2>2. QED
    BY <2>1
<1>2. FromHeader(r) /\ HasAuthStr(r) /\ Trimmed(r) = r.auth.body
  BY DEF FromHeader, HasAuthStr, Trimmed, NoHeader
<1>3. SplitAt(r.auth.body) # 0
  BY <1>1
<1>4. QED
  BY <1>1, <1>2, <1>3 DEF Serve

\* Spec 4.9, for every request: "Authorization: AWS <key>:<sig>" gives
\* exactly that key and signature, whatever the key holds, when the
\* signature has no colon (the split at strings.LastIndex in ServeHTTP).
THEOREM HeaderCredentialsHold == Spec => []HeaderCredentials
<1>1. ServedAsComputed => HeaderCredentials
  <2> SUFFICES ASSUME ServedAsComputed, Served, ~Disabled(req), ~req.done,
                      req.auth.aws,
                      NEW k \in Prefixes(req.auth.body),
                      LET s == SubSeq(req.auth.body, Len(k) + 2, Len(req.auth.body))
                      IN  /\ k # << >> /\ s # << >>
                          /\ req.auth.body = k \o <<Colon>> \o s
                          /\ Colon \notin ToSet(s)
               PROVE  LET s == SubSeq(req.auth.body, Len(k) + 2, Len(req.auth.body))
                      IN  out.kind = "s3" /\ out.key = k /\ out.sig = s
    BY DEF HeaderCredentials
  <2>1. PICK order \in SetToSeqs(AmzHeaders(req)) : out = Serve(req, order)
    BY DEF ServedAsComputed
  <2>2. req \in Request
    BY DEF ServedAsComputed
  <2>3. req.auth.body \in Seq(STRING)
    BY <2>2, AuthBodyAssumption DEF Request, AuthHeader
  <2> DEFINE s == SubSeq(req.auth.body, Len(k) + 2, Len(req.auth.body))
  <2>4. k \in Seq(STRING) /\ s \in Seq(STRING)
    <3>1. PICK l \in 0..Len(req.auth.body) : k = SubSeq(req.auth.body, 1, l)
      BY DEF Prefixes
    <3>2. \A i \in 1..Len(req.auth.body) : req.auth.body[i] \in STRING
      BY <2>3
    <3>3. k \in Seq(STRING)
      BY <3>1, <3>2, SubSeqProperties
    <3>4. Len(k) \in Nat
      BY <3>3
    <3>5. s \in Seq(STRING)
      BY <3>2, <3>4, SubSeqProperties
    <3>6. QED
      BY <3>3, <3>5
  <2>5. k # << >> /\ s # << >> /\ Colon \notin ToSet(s)
        /\ req.auth.body = k \o <<Colon>> \o s
    OBVIOUS
  <2>6. Serve(req, order).kind = "s3" /\ Serve(req, order).key = k
        /\ Serve(req, order).sig = s
    BY <2>2, <2>4, <2>5, ServeHeader, Zenon
  <2>7. QED
    BY <2>1, <2>6
<1>2. QED
  BY <1>1, ServedInit, ServedNext, PTL DEF Spec
=============================================================================
