---------------------------- MODULE StartPreflight ----------------------------
(***************************************************************************)
(* ensure_start_ready: what each step of the preparation of a repository   *)
(* does to the governed state (the .agora tree) of one checkout.  A step   *)
(* is a set-valued operator: the states it may leave, none when it raises. *)
(*                                                                         *)
(* The Method Pack is a content.  "packaged" is what the package ships,    *)
(* "canonical" the same rendered again by the repair of its front matter,  *)
(* "wrapped" has front matter an external formatter broke, "reformatted"   *)
(* does not load but differs from the package in formatting only,          *)
(* "edited" is a customization that loads, "restricted" one whose Developer*)
(* lacks review.write, "legacy" one whose Product Owner lacks issue.read,  *)
(* and "broken" a customization that does not load.  "locked" is the       *)
(* content the pack lock pins.  The project metadata file, which is written*)
(* when it is missing and only names the pathway, is left out.             *)
(***************************************************************************)
EXTENDS Naturals, Sequences

Swarms == {"delivery", "issue-delivery"}
Kinds  == {"intent", "requirements", "unit-of-work"}

Contents == {"none", "packaged", "canonical", "wrapped", "reformatted",
             "edited", "restricted", "legacy", "broken"}
Custom   == {"edited", "restricted", "legacy", "broken"}

NoSwarm == [status |-> "none", owner |-> FALSE, developer |-> FALSE]

(* The governed state of a checkout in which nothing was prepared.         *)
Empty ==
  [flavor |-> "absent", method |-> "none", locked |-> "none",
   skill |-> "none", issues |-> "none", adapters |-> FALSE, actors |-> FALSE,
   swarm |-> [s \in Swarms |-> NoSwarm], work |-> {}, read |-> "none",
   intent |-> FALSE, draft |-> FALSE, handoff |-> FALSE, written |-> {}, artifacts |-> {},
   elaborated |-> FALSE, clarified |-> FALSE]

Governed ==
  [flavor : {"absent", "unset", "ours", "other"}, method : Contents,
   locked : Contents, skill : {"none", "partial", "edited", "complete"},
   issues : {"none", "malformed", "edited", "working"}, adapters : BOOLEAN,
   actors : BOOLEAN,
   swarm : [Swarms -> [status : {"none", "ready", "terminal"},
                       owner : BOOLEAN, developer : BOOLEAN]],
   work : SUBSET Swarms, read : {"none", "launched", "failed", "completed"},
   intent : BOOLEAN, draft : BOOLEAN, handoff : BOOLEAN, written : SUBSET Kinds, artifacts : SUBSET Kinds,
   elaborated : BOOLEAN, clarified : BOOLEAN]

-----------------------------------------------------------------------------
(* Core initializes the project with the flavor already selected.          *)
Initialized(g) == IF g.flavor = "absent" THEN {[g EXCEPT !.flavor = "ours"]}
                                         ELSE {g}

RepairsFrontMatter(g) == g.method = "wrapped"

FrontMatterRepaired(g) ==
  IF RepairsFrontMatter(g) THEN {[g EXCEPT !.method = "canonical"]} ELSE {g}

ProjectSelected(g) ==
  IF g.flavor = "other" THEN {} ELSE {[g EXCEPT !.flavor = "ours"]}

(* Core's install pins what it installed; the repair of a pack that differs*)
(* in formatting only copies the files and leaves the lock alone.          *)
Installed(g) == [g EXCEPT !.method = "packaged", !.locked = "packaged"]

MethodEnsured(g) ==
  CASE g.method = "none"                        -> {Installed(g)}
    [] g.method \in {"broken", "wrapped"}       -> {}
    [] g.method = "reformatted"                 -> {[g EXCEPT !.method = "packaged"]}
    [] OTHER                                    -> {g}

ReviewWriteEnsured(g) == IF g.method = "restricted" THEN {Installed(g)} ELSE {g}

LockRefreshed(g) == {[g EXCEPT !.locked = g.method]}

SkillEnsured(g) ==
  IF g.skill = "edited" THEN {} ELSE {[g EXCEPT !.skill = "complete"]}

(* A malformed adapter is repaired and the lock refreshed right after.     *)
IssuesAdapterEnsured(g) ==
  CASE g.issues = "edited"    -> {}
    [] g.issues = "malformed" -> {[g EXCEPT !.issues = "working", !.locked = g.method]}
    [] OTHER                  -> {[g EXCEPT !.issues = "working"]}

(* The repository and pull-request adapters are installed and the lock is  *)
(* refreshed after each.                                                   *)
AdaptersEnsured(g) ==
  IF g.adapters THEN {g}
  ELSE {[g EXCEPT !.adapters = TRUE, !.locked = g.method]}

ActorsEnsured(g) == {[g EXCEPT !.actors = TRUE]}

-----------------------------------------------------------------------------
(* The swarm of a start that asked for "delivery": a terminal one is left  *)
(* alone and the issue gets a swarm of its own.                            *)

(* Mutant: the requested swarm, whatever its status. *)
RequestedSwarm(g) == "delivery"

ResolvedSwarm(g) == IF g.swarm["delivery"].status = "terminal"
                      THEN "issue-delivery" ELSE "delivery"

(* Only a swarm that was missing, or the issue's own, is ensured: an       *)
(* existing ready "delivery" is returned as it is.                         *)
EnsuresSwarm(g) ==
  \/ g.swarm["delivery"].status = "none"
  \/ ResolvedSwarm(g) = "issue-delivery"

SwarmResolved(g) ==
  LET s == ResolvedSwarm(g) IN
  CASE g.swarm[s].status = "terminal" -> {}
    [] g.swarm[s].status = "none"     -> {[g EXCEPT !.swarm[s].status = "ready"]}
    [] OTHER                          -> {g}

OwnerAssigned(g, s)     == {[g EXCEPT !.swarm[s].owner = TRUE]}
DeveloperAssigned(g, s) == {[g EXCEPT !.swarm[s].developer = TRUE]}

-----------------------------------------------------------------------------
(* The steps before the swarm, in their order; "refresh" is taken only     *)
(* after a repair of front matter.                                         *)
Preparation == <<"initialize", "frontmatter", "selection", "method", "review",
                 "refresh", "skill", "issues", "adapters", "actors", "swarm">>

Prepared(step, g) ==
  CASE step = "initialize"  -> Initialized(g)
    [] step = "frontmatter" -> FrontMatterRepaired(g)
    [] step = "selection"   -> ProjectSelected(g)
    [] step = "method"      -> MethodEnsured(g)
    [] step = "review"      -> ReviewWriteEnsured(g)
    [] step = "refresh"     -> LockRefreshed(g)
    [] step = "skill"       -> SkillEnsured(g)
    [] step = "issues"      -> IssuesAdapterEnsured(g)
    [] step = "adapters"    -> AdaptersEnsured(g)
    [] step = "actors"      -> ActorsEnsured(g)
    [] step = "swarm"       -> SwarmResolved(g)

=============================================================================
