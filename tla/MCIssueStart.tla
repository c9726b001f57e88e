----------------------------- MODULE MCIssueStart -----------------------------
(* Repositories and issues for TLC.                                        *)
EXTENDS IssueStart

Ready(content) ==
  [Empty EXCEPT !.flavor = "ours", !.method = content, !.locked = content,
     !.skill = "complete", !.issues = "working", !.adapters = TRUE, !.actors = TRUE,
     !.swarm["delivery"] = [status |-> "ready", owner |-> TRUE, developer |-> TRUE]]

Shared == [Ready("packaged") EXCEPT !.work = {"delivery"}]

Vague == [p \in Parts |-> p = "title"]

Plain(base) == [base |-> base, remote |-> Absent, linked |-> Absent, issue |-> Vague]

Same(base) == [Plain(base) EXCEPT !.remote = base]

MCCases ==
  {Plain(Empty), Plain([Empty EXCEPT !.flavor = "other"]),
   Plain([Ready("packaged") EXCEPT !.flavor = "unset", !.issues = "malformed",
                                   !.skill = "partial"]),
   Plain([Ready("packaged") EXCEPT !.issues = "edited"]),
   [Plain(Ready("packaged")) EXCEPT !.remote = Shared],
   [Plain(Ready("packaged")) EXCEPT !.linked = "foreign"],
   [Plain(Ready("packaged")) EXCEPT !.issue = [p \in Parts |-> p # "title"]],
   Same(Ready("restricted")),
   Plain(Ready("legacy")), Plain(Ready("broken"))}
=============================================================================
