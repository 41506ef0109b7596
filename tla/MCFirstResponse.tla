---------------------------- MODULE MCFirstResponse ----------------------------
(* FirstResponse for TLC: the backend answers a run explores.              *)
EXTENDS FirstResponse

\* 200, 404, 503, and a transport error.
MCAnswers == {"ok", "other", "err", "none"}
=============================================================================
