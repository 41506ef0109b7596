-------------------------------- MODULE MCS3Auth --------------------------------
(* S3Auth for TLC: small alphabets for the strings the middleware parses.  *)
EXTENDS S3Auth

\* Credentials over "k" and ":", up to three characters: enough for a key
\* that holds a colon ("::k" is key ":" and signature "k").
MCAuthBody == SeqOf({"k", ":"}, 3)
MCQueryKey == {<< >>, <<"k">>, <<"k", ":", "k">>}
MCQuerySig == {<< >>, <<"k">>}

MCConfigValue == {<<"F", "A", "L", "S", "E">>, <<"t", "r", "u", "e">>}

\* X-Amz-A and X-Amz-_a (their order differs between canonical and lower
\* case), and a header that is not an x-amz- one.
MCHeaderName ==
    { <<"X", "-", "A", "m", "z", "-", "A">>,
      <<"X", "-", "A", "m", "z", "-", "_", "a">>,
      <<"X", "-", "A", "b">> }

\* A sub-resource, another one, and one with a value (not in the list).
MCQueryToken == {"acl", "uploads", "partNumber=2"}
=============================================================================
