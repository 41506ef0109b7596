-------------------------------- MODULE S3Auth --------------------------------
(***************************************************************************)
(* The S3 V2 authentication preparation middleware                        *)
(* (src/proxyserver/middleware/s3auth.go): NewS3Auth decides from its     *)
(* config whether the middleware runs at all, and s3AuthHandler.ServeHTTP *)
(* takes the credentials from the Authorization header or from the       *)
(* query's AWSAccessKeyId and Signature, and either installs an           *)
(* authorizer that always denies, passes the request on untouched, or     *)
(* stashes {key, signature, string to sign} on the request context.       *)
(*                                                                         *)
(* The handler serves one request: the state is the request and what the  *)
(* handler made of it. Strings whose characters matter (credentials, the  *)
(* config value, x-amz header names) are sequences of one-character       *)
(* strings; the string to sign keeps the two parts whose order the code   *)
(* computes, the x-amz header lines and the signed query tokens.          *)
(***************************************************************************)
EXTENDS Naturals, Sequences, SequencesExt, TLC

CONSTANTS
    AuthBody,       \* Authorization values, after an optional "AWS " prefix
    QueryKey,       \* AWSAccessKeyId query values
    QuerySig,       \* Signature query values
    ConfigValue,    \* values of the "enabled" config option
    HeaderName,     \* the request headers, as canonical names
    QueryToken,     \* the &-separated parts of a raw query
    MaxQueryLen     \* how many parts a raw query has, at most

\* An Authorization value is a Go string: a sequence of characters.
ASSUME AuthBodyAssumption == AuthBody \subseteq Seq(STRING)

Colon == ":"
\* Header.Get gives "" for an absent or an empty Authorization header.
NoHeader == [aws |-> FALSE, body |-> << >>]

\* Byte order of the characters used in names. strings.ToLower maps A-Z.
Code == [c \in {"-", "A", "B", "X", "_", "a", "b", "m", "x", "z"} |->
            CASE c = "-" -> 45 [] c = "A" -> 65 [] c = "B" -> 66
              [] c = "X" -> 88 [] c = "_" -> 95 [] c = "a" -> 97
              [] c = "b" -> 98 [] c = "m" -> 109 [] c = "x" -> 120
              [] c = "z" -> 122]
LowerChar(c) ==
    CASE c = "A" -> "a" [] c = "B" -> "b" [] c = "X" -> "x" [] c = "F" -> "f"
      [] c = "L" -> "l" [] c = "S" -> "s" [] c = "E" -> "e" [] OTHER -> c
ToLower(s) == [i \in DOMAIN s |-> LowerChar(s[i])]

\* sort.Strings: byte-wise lexicographic order.
ByteLess(s, t) ==
    \/ Len(s) < Len(t) /\ SubSeq(t, 1, Len(s)) = s
    \/ \E i \in 1..Len(s) :
          /\ i <= Len(t)
          /\ SubSeq(s, 1, i - 1) = SubSeq(t, 1, i - 1)
          /\ Code[s[i]] < Code[t[i]]

\* S3Subresources, listed in byte order (the order sort.Strings gives).
S3Subresources ==
    << "acl", "cors", "delete", "lifecycle", "location", "logging",
       "notification", "partNumber", "policy", "requestPayment",
       "response-cache-control", "response-content-disposition",
       "response-content-encoding", "response-content-language",
       "response-content-type", "response-expires", "restore", "tagging",
       "torrent", "uploadId", "uploads", "versionId", "versioning",
       "versions", "website" >>
SubresourceRank(t) == CHOOSE i \in 1..Len(S3Subresources) : S3Subresources[i] = t

AmzPrefix == <<"x", "-", "a", "m", "z", "-">>

\* An Authorization value: "AWS " or not, then the rest. (Its absence is
\* NoHeader; an absent query parameter reads as "", << >> here.)
AuthHeader == [aws : BOOLEAN, body : AuthBody]

\* A request as the middleware sees it.
Request ==
    [ hasopt  : BOOLEAN,            \* config.Section has "enabled"
      enabled : ConfigValue,
      auth    : AuthHeader,
      qkey    : QueryKey,
      qsig    : QuerySig,
      parsed  : BOOLEAN,            \* request.Form was already parsed
      done    : BOOLEAN,            \* ctx.S3Auth was already set
      headers : SUBSET HeaderName,
      query   : SeqOf(QueryToken, MaxQueryLen) ]

VARIABLES
    req,        \* the request
    out         \* what the middleware did with it

vars == <<req, out>>

-----------------------------------------------------------------------------
(* NewS3Auth: a missing option or "false" in any case is a pass-through.   *)
Disabled(r) ==
    ~r.hasopt \/ ToLower(r.enabled) = <<"f", "a", "l", "s", "e">>

(* ServeHTTP, lines 89-116: the credentials.                               *)

\* authStr := request.Header.Get("Authorization"), else
\* request.Form.Get("AWSAccessKeyId"), which is "" while Form is nil.
FromHeader(r) == r.auth # NoHeader
FromForm(r) == ~FromHeader(r) /\ r.parsed /\ r.qkey # << >>
HasAuthStr(r) == FromHeader(r) \/ FromForm(r)

\* authStr after strings.TrimPrefix(authStr, "AWS ").
Trimmed(r) == IF FromHeader(r) THEN r.auth.body ELSE r.qkey

\* Fault variant: strings.Index, the first colon.
SplitAtFirst(s) == SelectInSeq(s, LAMBDA c : c = Colon)

\* strings.LastIndex(authStr, ":"), 1-based: 0 when there is no colon.
SplitAt(s) == SelectLastInSeq(s, LAMBDA c : c = Colon)

\* Fault variant: the header names are not sorted.
AmzLinesUnsorted(order) == [i \in DOMAIN order |-> ToLower(order[i])]

\* The x-amz- headers in the order `for k := range request.Header` met
\* them, sorted; each line is the lowercased name.
AmzLines(order) ==
    LET akeys == SortSeq(order, ByteLess)
    IN  [i \in DOMAIN akeys |-> ToLower(akeys[i])]

\* strings.Split(RawQuery, "&"), the parts in S3Subresources, sorted.
SignedQuery(q) ==
    SortSeq(SelectSeq(q, LAMBDA t : t \in ToSet(S3Subresources)),
            LAMBDA s, t : SubresourceRank(s) < SubresourceRank(t))

AmzHeaders(r) == {k \in r.headers : IsPrefix(AmzPrefix, ToLower(k))}

Pass == [kind |-> "pass", key |-> << >>, sig |-> << >>, amz |-> << >>,
         query |-> << >>]

\* The handler, from NewS3Auth's choice to s.next.ServeHTTP. order is the
\* iteration order of the request.Header map, which Go leaves unspecified.
Serve(r, order) ==
    LET t   == Trimmed(r)
        i   == SplitAt(t)
        \* else request.FormValue, which parses the form
        key == IF HasAuthStr(r) THEN SubSeq(t, 1, i - 1) ELSE r.qkey
        sig == IF HasAuthStr(r) THEN SubSeq(t, i + 1, Len(t))
               ELSE r.qsig
    IN  CASE Disabled(r) -> Pass
          [] HasAuthStr(r) /\ i = 0 -> [Pass EXCEPT !.kind = "deny"]
          [] key = << >> \/ sig = << >> \/ r.done -> Pass
          [] OTHER -> [kind |-> "s3", key |-> key, sig |-> sig,
                       amz |-> AmzLines(order), query |-> SignedQuery(r.query)]

Init ==
    /\ req \in Request
    /\ out = [Pass EXCEPT !.kind = "pending"]

ServeHTTP ==
    /\ out.kind = "pending"
    /\ \E order \in SetToSeqs(AmzHeaders(req)) : out' = Serve(req, order)
    /\ UNCHANGED req

Spec == Init /\ [][ServeHTTP]_vars

-----------------------------------------------------------------------------
(* Properties of the middleware.                                           *)

Served == out.kind # "pending"

\* Spec 4.9: "Authorization: AWS <key>:<sig>" gives exactly that key and
\* signature, whatever the key holds, as a base64 signature has no colon
\* (ServeHTTP's split at strings.LastIndex).
HeaderCredentials ==
    (Served /\ ~Disabled(req) /\ ~req.done /\ req.auth.aws)
        => \A k \in Prefixes(req.auth.body) :
              LET s == SubSeq(req.auth.body, Len(k) + 2, Len(req.auth.body))
              IN  (/\ k # << >> /\ s # << >>
                   /\ req.auth.body = k \o <<Colon>> \o s
                   /\ Colon \notin ToSet(s))
                      => out.kind = "s3" /\ out.key = k /\ out.sig = s

\* Spec 8: the string to sign is a function of the request: neither the
\* order in which `range request.Header` visits the headers nor the order
\* of the query's parts changes it (the two sorts in ServeHTTP).
StringToSignDeterministic ==
    out.kind = "s3" =>
        /\ \A order \in SetToSeqs(AmzHeaders(req)) : out.amz = AmzLines(order)
        /\ \A p \in SetToSeqs(DOMAIN req.query) :
              out.query = SignedQuery([i \in DOMAIN p |-> req.query[p[i]]])

\* Spec 4.9: the credentials come from the Authorization header or from
\* the query parameters AWSAccessKeyId and Signature. ServeHTTP reads
\* request.Form first, which holds the query once some earlier handler
\* has parsed the form.
QueryCredentialsAccepted ==
    (/\ Served /\ ~Disabled(req) /\ ~req.done /\ req.auth = NoHeader
     /\ req.qkey # << >> /\ Colon \notin ToSet(req.qkey)
     /\ req.qsig # << >>)
        => out.kind = "s3" /\ out.key = req.qkey /\ out.sig = req.qsig
=============================================================================
