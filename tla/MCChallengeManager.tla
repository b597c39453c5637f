------------------------- MODULE MCChallengeManager -------------------------
(* A party of two clients and its challenges on the older server.            *)
EXTENDS ChallengeManager, TLC, FiniteSets

CONSTANTS k1, k2, t1

MCClient == {k1, k2}
MCTask == {t1}
MCRetriable == {2}

\* Clients are interchangeable.
MCSymmetry == Permutations(MCClient)
=============================================================================
