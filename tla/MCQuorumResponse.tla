-------------------------- MODULE MCQuorumResponse --------------------------
(***************************************************************************)
(* Model-checking instance of QuorumResponse. A backend answers in one of *)
(* three classes: 2xx (created), 4xx (e.g. 404 or 409) and 5xx (or a      *)
(* transport error), which is enough to make two classes race for q and   *)
(* to send workers to the handoffs.                                       *)
(***************************************************************************)
EXTENDS QuorumResponse

MCClasses == {2, 4, 5}
=============================================================================
