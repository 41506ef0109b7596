------------------------- MODULE MCContainerInfoCache -------------------------
(* ContainerInfoCache for TLC: two concurrent requests.                    *)
EXTENDS ContainerInfoCache, TLC

CONSTANTS c1, c2

MCClient == {c1, c2}

\* The requests are interchangeable.
MCSymmetry == Permutations(MCClient)
=============================================================================
