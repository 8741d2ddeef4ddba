------------------------------- MODULE MCHITL -------------------------------
(***************************************************************************)
(* An instance of HITL for TLC: one in-process and one wire session, each  *)
(* with one approval request.                                              *)
(***************************************************************************)
EXTENDS HITL

CONSTANTS local, remote, r1, r2

BothSessions == {local, remote}
BothRequests == {r1, r2}
OwnerOf == [r \in BothRequests |-> IF r = r1 THEN local ELSE remote]
=============================================================================
