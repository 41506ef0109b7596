----------------------------- MODULE MCPutObject -----------------------------
(* PutObject for TLC: the backend answer classes a run explores.           *)
EXTENDS PutObject

\* Before its 100-continue an object server refuses with a 4xx (412, 409,
\* 422) or a 5xx (507), or the transport fails.
MCEarlyClasses == {4, 5}

\* After the body: 201, or a 5xx (503, 507 on a full disk, a dropped
\* connection).
MCFinalClasses == {2, 5}

\* While the body is being sent: a transport error (ResponseStub(500)), or
\* a 5xx the object server sends when it stops reading (a disk error).
MCMidBodyClasses == {5}
=============================================================================
