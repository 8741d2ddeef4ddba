----------------------------- MODULE MCRecords ------------------------------
(* The tables behind the API and the dashboard, one of them in each          *)
(* behaviour: page walks, favourites, comments, templates, credentials, cost *)
(* and retention.                                                            *)
EXTENDS Listing, Collab, Credentials, Retention, Cost, TLC

VARIABLE part

Parts == {"listing", "favorites", "comments", "templates", "vault", "submission", "cost", "retention"}
Topic == [favorites |-> {"session_star", "session_unstar"},
          comments |-> {"comment_create", "comment_update", "comment_delete"},
          templates |-> {"template_create", "template_update", "template_delete"}]

Calls == [vault |-> {"put", "del", "show", "submit"},
          submission |-> {"put", "submit", "retry", "cancel"}]

MCOwnerOf == [i \in RowIds |-> IF i = 2 THEN "bob" ELSE "alice"]

Edit(do, who, id) == [do |-> do, who |-> who, id |-> id]
MCEdits ==
    {Edit("session_star", "alice", 0), Edit("session_unstar", "alice", 0),
     Edit("comment_create", "alice", "alice"),
     Edit("comment_update", "alice", "alice"), Edit("comment_update", "root", "alice"),
     Edit("comment_delete", "alice", "alice"), Edit("comment_delete", "root", "alice"),
     Edit("template_create", "alice", 0), Edit("template_create", "bob", 0),
     Edit("template_update", "alice", 1), Edit("template_update", "root", 1),
     Edit("template_delete", "alice", 1)}

MCRoleOf == [l \in Labels |-> IF l = "root" THEN "admin" ELSE "submitter"]
Call(do, who, owner, body, spec, ids) ==
    [do |-> do, who |-> who, owner |-> owner, body |-> body, spec |-> spec, ids |-> ids]
MCCalls ==
    {Call("submit", "bob", "alice", {}, "secret", << >>),
     Call("submit", "alice", "alice", {"ANTHROPIC_BASE_URL"}, "plain", << >>),
     Call("retry", "bob", "bob", {}, "none", <<1, 2>>),
     Call("retry", "root", "root", {}, "none", <<1>>),
     Call("cancel", "bob", "bob", {}, "none", <<1>>),
     Call("put", "alice", "alice", {}, "ANTHROPIC_API_KEY", << >>),
     Call("put", "root", "bob", {}, "ANTHROPIC_API_KEY", << >>),
     Call("del", "alice", "alice", {}, "ANTHROPIC_API_KEY", << >>),
     Call("show", "root", "alice", {}, "ANTHROPIC_API_KEY", << >>)}

MCOrder == <<"audit_log", "hitl_requests">>
MCKeepDays == [t \in {"audit_log", "hitl_requests"} |-> IF t = "audit_log" THEN 1 ELSE 0]

\* CReqs, SReqs and Jobs are the same two model values.
Symmetry == Permutations(Jobs)

Init == /\ ListingInit /\ CollabInit /\ CredInit /\ RetentionInit /\ CostInit /\ part \in Parts
        /\ part # "listing" => kind = "sessions"
        /\ admins = {"bob"}
        /\ IF part \in DOMAIN Calls THEN key # "k2" ELSE key = Off

ListingStep == part = "listing" /\ ListingNext
               /\ UNCHANGED <<collabVars, credVars, retentionVars, costVars>>
CollabStep == part \in DOMAIN Topic /\ CollabNext
              /\ \A r \in CReqs : creq'[r].do \in Topic[part] \cup {"none"}
              /\ UNCHANGED <<listingVars, credVars, retentionVars, costVars>>
CredStep == part \in DOMAIN Calls /\ CredNext
            /\ \A r \in SReqs : sreq'[r].do \in Calls[part] \cup {"none"}
            /\ UNCHANGED <<listingVars, collabVars, retentionVars, costVars>>
RetentionStep == part = "retention" /\ RetentionNext
                 /\ UNCHANGED <<listingVars, collabVars, credVars, costVars>>
CostStep == part = "cost" /\ CostNext
            /\ UNCHANGED <<listingVars, collabVars, credVars, retentionVars>>

Next == /\ UNCHANGED part
        /\ ListingStep \/ CollabStep \/ CredStep \/ RetentionStep \/ CostStep

Spec == Init /\ [][Next]_<<part, listingVars, collabVars, credVars, retentionVars, costVars>>

=============================================================================
