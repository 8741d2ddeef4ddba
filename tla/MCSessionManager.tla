-------------------------- MODULE MCSessionManager --------------------------
(***************************************************************************)
(* Instances of SessionManager for TLC: every session is submitted with    *)
(* the same API key.  Pause/resume requests are interchangeable, and so    *)
(* are sessions where all of them use the same kind of executor.           *)
(***************************************************************************)
EXTENDS SessionManager, TLC

CONSTANT k1

SameKey == [s \in Sessions |-> k1]

SessionSymmetry == Permutations(Sessions)
ManagerSymmetry == Permutations(Sessions) \cup Permutations(Calls)
=============================================================================
