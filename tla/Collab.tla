------------------------------- MODULE Collab -------------------------------
(***************************************************************************)
(* Favourites, comments and prompt templates.  Every endpoint is a chain   *)
(* of statements of their own: look the row up and authorise, write, add   *)
(* an audit row, read the row back.  Requests interleave between any two   *)
(* of them, and any audit write may fail.                                  *)
(***************************************************************************)
EXTENDS Integers, FiniteSets, Sequences, TLC

CONSTANTS
    CUsers,         \* labels
    CAdmins,        \* subset of CUsers
    CReqs,          \* concurrent requests
    COps,           \* the requests that may be made: [do, who, id]
    Dialect,        \* "postgresql" or "sqlite"
    MaxTemplates,   \* bound on the templates ever created
    MaxTrail,       \* bound on the audit rows of an action before a request for it
    MaxAuditLoss    \* bound on the audit writes that fail

ASSUME CollabAssumption ==
    /\ CAdmins \subseteq CUsers
    /\ Dialect \in {"postgresql", "sqlite"}
    /\ MaxTemplates \in Nat /\ MaxTrail \in Nat /\ MaxAuditLoss \in Nat
    /\ IsFiniteSet(CUsers) /\ IsFiniteSet(CReqs)

VARIABLES
    starred,    \* session_favorites: the users who starred the session
    comment,    \* the one comment of each author: session_comments
    template,   \* prompt_templates, by id
    lastTid,    \* the largest template id ever used
    creq,       \* the requests
    trail,      \* audit_log: how many rows of each action
    lost        \* audit writes that failed

collabVars == <<starred, comment, template, lastTid, creq, trail, lost>>

Tids == 1..MaxTemplates
NoComment == [st |-> "none", body |-> 0]
NoTemplate == [st |-> "none", creator |-> "none", editor |-> "none"]
Quiet == [do |-> "none", who |-> "none", id |-> 0, ph |-> "idle"]
Actions == {"session_star", "session_unstar", "comment_create", "comment_update",
            "comment_delete", "template_create", "template_update", "template_delete"}

\* A comment is named by its author and a template by its number.
ASSUME EditsAssumption ==
    \A op \in COps :
        /\ op.do \in Actions /\ op.who \in CUsers
        /\ op.do \in {"comment_update", "comment_delete"} => op.id \in CUsers
        /\ op.do \in {"template_update", "template_delete"} => op.id \in Tids

\* Stars, comments, templates, audit counts and requests have their shapes.
CollabTypeOK ==
    /\ starred \subseteq CUsers
    /\ \A u \in CUsers : comment[u].st \in {"none", "live", "deleted"} /\ comment[u].body \in 0..3
    /\ \A t \in Tids : template[t].st \in {"none", "live"}
    /\ lastTid \in 0..MaxTemplates
    /\ \A r \in CReqs : creq[r].ph \in {"idle", "check", "write", "audit", "reread", "204",
                                        "403", "404", "409", "500", "assert"}
    /\ trail \in [Actions -> Nat] /\ lost \in 0..MaxAuditLoss

CollabInit ==
    /\ starred = {}
    /\ comment = [u \in CUsers |-> NoComment]
    /\ template = [t \in Tids |-> NoTemplate]
    /\ lastTid = 0
    /\ creq = [r \in CReqs |-> Quiet]
    /\ trail = [a \in Actions |-> 0]
    /\ lost = 0

To(r, ph) == creq' = [creq EXCEPT ![r].ph = ph]

\* The endpoints: whether they look the row up first, who beside the author may
\* write it, whether a failing audit write fails the request, and whether the
\* row is read back for the answer.
StarSession == [looks |-> FALSE, admin |-> FALSE, strict |-> FALSE, rereads |-> FALSE]
UnstarSession == [looks |-> FALSE, admin |-> FALSE, strict |-> FALSE, rereads |-> FALSE]
PostComment == [looks |-> FALSE, admin |-> FALSE, strict |-> TRUE, rereads |-> FALSE]
PatchComment == [looks |-> TRUE, admin |-> FALSE, strict |-> TRUE, rereads |-> TRUE]
RemoveComment == [looks |-> TRUE, admin |-> TRUE, strict |-> TRUE, rereads |-> FALSE]
PostTemplate == [looks |-> FALSE, admin |-> FALSE, strict |-> FALSE, rereads |-> FALSE]
PatchTemplate == [looks |-> TRUE, admin |-> TRUE, strict |-> FALSE, rereads |-> TRUE]
RemoveTemplate == [looks |-> TRUE, admin |-> TRUE, strict |-> FALSE, rereads |-> FALSE]

Route == [session_star |-> StarSession, session_unstar |-> UnstarSession,
          comment_create |-> PostComment, comment_update |-> PatchComment,
          comment_delete |-> RemoveComment, template_create |-> PostTemplate,
          template_update |-> PatchTemplate, template_delete |-> RemoveTemplate]

BeginEdit(r, op) ==
    /\ creq[r] = Quiet /\ trail[op.do] < MaxTrail
    /\ creq' = [creq EXCEPT ![r] = [do |-> op.do, who |-> op.who, id |-> op.id,
                                    ph |-> IF Route[op.do].looks THEN "check" ELSE "write"]]
    /\ UNCHANGED <<starred, comment, template, lastTid, trail, lost>>

-----------------------------------------------------------------------------
(* Look up and authorise                                                   *)

OfComment(q) == q.do \in {"comment_create", "comment_update", "comment_delete"}
Author(q) == IF OfComment(q) THEN q.id ELSE template[q.id].creator

Allowed(q) == q.who = Author(q) \/ (Route[q.do].admin /\ q.who \in CAdmins)

\* get_comment returns tombstones, which the endpoints answer with a 404.
GetComment(q) == comment[q.id].st = "live"
GetTemplate(q) == template[q.id].st = "live"
Present(q) == IF OfComment(q) THEN GetComment(q) ELSE GetTemplate(q)

Authorise(r) ==
    /\ creq[r].ph = "check"
    /\ To(r, IF ~Present(creq[r]) THEN "404" ELSE IF Allowed(creq[r]) THEN "write" ELSE "403")
    /\ UNCHANGED <<starred, comment, template, lastTid, trail, lost>>

-----------------------------------------------------------------------------
(* Write.  An unchanged row ends the request without an audit row.         *)

(* Mutant: add_favorite reports a star although the row was there.         *)
StarAlways(r) ==
    /\ creq[r].do = "session_star"
    /\ starred' = starred \cup {creq[r].who}
    /\ To(r, "audit")
    /\ UNCHANGED <<comment, template, lastTid>>

Star(r) ==
    /\ creq[r].do = "session_star"
    /\ starred' = starred \cup {creq[r].who}
    /\ To(r, IF creq[r].who \in starred THEN "204" ELSE "audit")
    /\ UNCHANGED <<comment, template, lastTid>>

Unstar(r) ==
    /\ creq[r].do = "session_unstar"
    /\ starred' = starred \ {creq[r].who}
    /\ To(r, IF creq[r].who \in starred THEN "audit" ELSE "204")
    /\ UNCHANGED <<comment, template, lastTid>>

CreateComment(r) ==
    /\ creq[r].do = "comment_create"
    /\ comment[creq[r].who].st = "none"
    /\ comment' = [comment EXCEPT ![creq[r].who] = [st |-> "live", body |-> 1]]
    /\ To(r, "audit")
    /\ UNCHANGED <<starred, template, lastTid>>

(* Mutant: the UPDATE does not ask for deleted_at IS NULL.                 *)
UpdateTombstone(r) ==
    /\ creq[r].do = "comment_update"
    /\ comment' = [comment EXCEPT ![creq[r].id].body = IF @ < 3 THEN @ + 1 ELSE @]
    /\ To(r, "audit")
    /\ UNCHANGED <<starred, template, lastTid>>

UpdateComment(r) ==
    LET live == comment[creq[r].id].st = "live" IN
    /\ creq[r].do = "comment_update"
    /\ comment' = IF live THEN [comment EXCEPT ![creq[r].id].body = IF @ < 3 THEN @ + 1 ELSE @]
                          ELSE comment
    /\ To(r, IF live THEN "audit" ELSE "409")
    /\ UNCHANGED <<starred, template, lastTid>>

SoftDeleteComment(r) ==
    LET live == comment[creq[r].id].st = "live" IN
    /\ creq[r].do = "comment_delete"
    /\ comment' = IF live THEN [comment EXCEPT ![creq[r].id].st = "deleted"] ELSE comment
    /\ To(r, IF live THEN "audit" ELSE "404")
    /\ UNCHANGED <<starred, template, lastTid>>

(* Mutant: the largest id in the table plus one, as SQLite does it.        *)
LargestPlusOne ==
    CHOOSE n \in 1..(MaxTemplates + 1) : \A t \in 1..(MaxTemplates + 1) :
        (t >= n) <=> \A u \in Tids : u >= t => template[u].st # "live"

\* PostgreSQL draws the key from a sequence.  The columns say autoincrement,
\* but not sqlite_autoincrement, so SQLite takes the largest rowid plus one.
FreshId == IF Dialect = "sqlite" THEN LargestPlusOne ELSE lastTid + 1

\* The unique (creator, name): one template for each creator.
CreateTemplate(r) ==
    LET who == creq[r].who
        taken == \E t \in Tids : template[t].st = "live" /\ template[t].creator = who
    IN  /\ creq[r].do = "template_create"
        /\ taken \/ FreshId \in Tids
        /\ template' = IF taken THEN template
                       ELSE [template EXCEPT ![FreshId] =
                                [st |-> "live", creator |-> who, editor |-> who]]
        /\ lastTid' = IF taken \/ FreshId < lastTid THEN lastTid ELSE FreshId
        /\ To(r, IF taken THEN "409" ELSE "audit")
        /\ UNCHANGED <<starred, comment>>

UpdateTemplate(r) ==
    LET live == template[creq[r].id].st = "live" IN
    /\ creq[r].do = "template_update"
    /\ template' = IF live THEN [template EXCEPT ![creq[r].id].editor = creq[r].who] ELSE template
    /\ To(r, IF live THEN "audit" ELSE "404")
    /\ UNCHANGED <<starred, comment, lastTid>>

DeleteTemplate(r) ==
    LET live == template[creq[r].id].st = "live" IN
    /\ creq[r].do = "template_delete"
    /\ template' = [template EXCEPT ![creq[r].id] = NoTemplate]
    /\ To(r, IF live THEN "audit" ELSE "404")
    /\ UNCHANGED <<starred, comment, lastTid>>

Write(r) ==
    /\ creq[r].ph = "write"
    /\ \/ Star(r) \/ Unstar(r)
       \/ CreateComment(r) \/ UpdateComment(r) \/ SoftDeleteComment(r)
       \/ CreateTemplate(r) \/ UpdateTemplate(r) \/ DeleteTemplate(r)
    /\ UNCHANGED <<trail, lost>>

-----------------------------------------------------------------------------
(* Audit and answer                                                        *)

RecordAudit(r) ==
    /\ creq[r].ph = "audit"
    /\ trail' = [trail EXCEPT ![creq[r].do] = @ + 1]
    /\ To(r, IF Route[creq[r].do].rereads THEN "reread" ELSE "204")
    /\ UNCHANGED <<starred, comment, template, lastTid, lost>>

\* The comment endpoints let the error out; the others suppress it.
RecordAuditFails(r) ==
    /\ creq[r].ph = "audit" /\ lost < MaxAuditLoss
    /\ lost' = lost + 1
    /\ To(r, IF Route[creq[r].do].strict THEN "500"
             ELSE IF Route[creq[r].do].rereads THEN "reread" ELSE "204")
    /\ UNCHANGED <<starred, comment, template, lastTid, trail>>

\* assert updated is not None.  get_comment returns tombstones too.
Reread(r) ==
    LET q == creq[r]
        there == IF q.do = "comment_update" THEN comment[q.id].st # "none"
                                            ELSE template[q.id].st # "none"
    IN  /\ q.ph = "reread"
        /\ To(r, IF there THEN "204" ELSE "assert")
        /\ UNCHANGED <<starred, comment, template, lastTid, trail, lost>>

Answered(r) == creq[r].ph \in {"204", "403", "404", "409", "500", "assert"}

\* The connection takes another request.
NextRequest(r) ==
    /\ Answered(r) /\ creq[r].ph # "assert"
    /\ creq' = [creq EXCEPT ![r] = Quiet]
    /\ UNCHANGED <<starred, comment, template, lastTid, trail, lost>>

CollabNext ==
    \E r \in CReqs : \/ \E op \in COps : BeginEdit(r, op)
                     \/ Authorise(r) \/ Write(r) \/ RecordAudit(r)
                     \/ RecordAuditFails(r) \/ Reread(r) \/ NextRequest(r)

CollabSpec == CollabInit /\ [][CollabNext]_collabVars

-----------------------------------------------------------------------------
(* What holds                                                              *)

CountOf(S) == Cardinality(S)

\* The audit log accounts for the tables: once every request is answered and no
\* audit write has failed, stars less unstars are the stars, and so for
\* comments and templates, however requests raced ("we skip the audit call so
\* the timeline stays clean").
AuditBalances ==
    (lost = 0 /\ \A r \in CReqs : creq[r] = Quiet \/ Answered(r)) =>
        /\ trail["session_star"] - trail["session_unstar"] = CountOf(starred)
        /\ trail["comment_create"] - trail["comment_delete"]
             = CountOf({u \in CUsers : comment[u].st = "live"})
        /\ trail["template_create"] - trail["template_delete"]
             = CountOf({t \in Tids : template[t].st = "live"})

\* A comment that was deleted keeps the wording it was deleted with: the edit
\* that was authorised before the delete does not land after it.
DeletedIsFrozen ==
    [][\A u \in CUsers : comment[u].st = "deleted" => comment'[u] = comment[u]]_collabVars

\* A template is only ever edited by its creator or an admin, although the row
\* is looked up by id again after the check: ids are not used twice.
EditorMayEdit ==
    \A t \in Tids : template[t].editor \in CAdmins \cup {template[t].creator}

\* The comment an update wrote is there to be read back, a concurrent delete
\* notwithstanding (comments.py, "guaranteed non-null because the update
\* succeeded").
UpdatedCommentIsThere ==
    \A r \in CReqs : creq[r].do = "comment_update" => creq[r].ph # "assert"

\* Edits are accounted for and authorised, and find what they wrote, however the
\* statements of two requests interleave.
CollabInv == CollabTypeOK /\ AuditBalances /\ EditorMayEdit /\ UpdatedCommentIsThere

\* templates.py says the same of a template, which is deleted for good.
UpdatedTemplateIsThere ==
    \A r \in CReqs : creq[r].do = "template_update" => creq[r].ph # "assert"

-----------------------------------------------------------------------------
(* The inductive invariant behind CollabInv, for ids that are not used     *)
(* twice                                                                   *)

\* Ids beyond the last one have no template yet.
TidsAreFresh == \A t \in Tids : t > lastTid => template[t].st = "none"

\* Who may still write a template was allowed to, if it is there.
WriterMayEdit(q) ==
    (q.do = "template_update" /\ q.ph = "write") =>
        /\ q.id <= lastTid
        /\ template[q.id].st = "none" \/ q.who \in CAdmins \cup {template[q.id].creator}

\* The comment an update found is there until it has been read back.
CommentIsThere(q) ==
    q.do = "comment_update" =>
        /\ q.ph \in {"audit", "reread"} => comment[q.id].st # "none"
        /\ q.ph # "assert"

\* Changes that are written and not audited yet.
Unaudited(a) == {r \in CReqs : creq[r].do = a /\ creq[r].ph = "audit"}

\* Audited or about to be, as many rows were added as removed and left.
Balanced(added, removed, rows) ==
    trail[added] + Cardinality(Unaudited(added))
      = trail[removed] + Cardinality(Unaudited(removed)) + Cardinality(rows)

LiveComments == {u \in CUsers : comment[u].st = "live"}
LiveTemplates == {t \in Tids : template[t].st = "live"}

Balances ==
    lost = 0 => /\ Balanced("session_star", "session_unstar", starred)
                /\ Balanced("comment_create", "comment_delete", LiveComments)
                /\ Balanced("template_create", "template_delete", LiveTemplates)

EditsInv == TidsAreFresh /\ EditorMayEdit /\ Balances
            /\ \A r \in CReqs : WriterMayEdit(creq[r]) /\ CommentIsThere(creq[r])

=============================================================================
