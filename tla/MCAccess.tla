------------------------------ MODULE MCAccess ------------------------------
(***************************************************************************)
(* Authentication and rate limiting for TLC.  A behaviour is about one     *)
(* part: "boot", workers starting and crashing over an empty table or one  *)
(* left by an older release; "late", an admin making a key by hand under a *)
(* label the other worker is importing; "serve", two started workers over  *)
(* a full table; "rate", the token buckets.                                *)
(***************************************************************************)
EXTENDS Access, RateLimit, TLC

CONSTANTS e1, e2, e3, d1, w1, w2, Parts

VARIABLE part

MCEnvKeys == <<e1, e2, e3>>
MCDashKeys == <<d1>>
ReqSymmetry == Permutations(Reqs)

Held(role) == [Absent EXCEPT !.st = "active", !.role = role, !.made = 0]
EmptyTable == [l \in Labels |-> Absent]
OldTable == [EmptyTable EXCEPT ![d1] = [Held("admin") EXCEPT !.own = FALSE]]
FullTable == [EmptyTable EXCEPT ![e1] = Held("submitter"), ![e3] = Held("submitter"),
                                ![e2] = [Held("admin") EXCEPT !.exp = 1], ![d1] = Held("admin")]
MCInitRows == {EmptyTable, OldTable, FullTable}

\* The admin key e2 is used on both workers, while its owner and a logged-in
\* dashboard user revoke each other's keys; e2 expires on the way.  ByHand
\* makes a key for the label e2 of the environment.
Op(do, w, user, k, t) == [do |-> do, w |-> w, user |-> user, key |-> k, target |-> t,
                          role |-> "viewer", exp |-> 0]
ByHand == Op("create", w1, "none", e1, e2)
MCOps == {Op("call", w, "none", e2, e2) : w \in Workers} \cup
         {Op("revoke", w1, "dash", e1, e2), Op("revoke", w2, "none", e2, d1), ByHand}
Asked == {req[r].op : r \in {q \in Reqs : req[q].pc # "idle"}}

AllUp == \A w \in Workers : boot[w].phase = "up"

Init == /\ part \in Parts
        /\ AccessInit /\ RateInit
        /\ part \in {"serve", "rate"} <=> rows = FullTable
        /\ part = "late" => rows = EmptyTable
        /\ part # "rate" => backend = "memory"

\* In "serve" the clock and the requests start when both workers are up.
Next ==
    /\ UNCHANGED part
    /\ \/ /\ part = "boot" /\ AccessNext /\ UNCHANGED <<now, req>>
          /\ UNCHANGED rateVars
       \/ /\ part = "late" /\ AccessNext /\ UNCHANGED now
          /\ Asked' \subseteq {ByHand}
          /\ boots' <= Cardinality(Workers) /\ \A w \in Workers : boot[w].phase = "down" \/ boot'[w].phase # "down"
          /\ UNCHANGED rateVars
       \/ /\ part = "serve" /\ AccessNext
          /\ AllUp => UNCHANGED boot
          /\ boots' <= Cardinality(Workers)
          /\ AllUp \/ UNCHANGED <<now, req>>
          /\ ByHand \notin Asked'
          /\ UNCHANGED rateVars
       \/ part = "rate" /\ RateNext /\ UNCHANGED accessVars

Spec == Init /\ [][Next]_<<part, accessVars, rateVars>>

=============================================================================
