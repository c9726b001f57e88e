------------------------------ MODULE WorkPlans ------------------------------
(* The two plan documents an executor goes by: the bolt plan of a Unit of    *)
(* Work and the Level-N plan of a pathway.  They share no state.             *)
EXTENDS Naturals, Sequences, FiniteSets

------------------------------------------------------------------------------
(* The bolt-plan document of one Unit of Work (bolts.py).  The AI proposes   *)
(* Bolts, a human approves the plan, an executor starts and ends them; each  *)
(* of them writes the document, and a document parse_bolt_plan refuses is    *)
(* not used by anybody.  The order in which they write is theirs: the module *)
(* only answers whether a document, a start or a change of status is legal.  *)

CONSTANTS
    Paths,        \* what a Bolt may write: sequences of directory names
    NumBolts,     \* bound: Bolts of a plan
    MaxEdits      \* bound: edits of a plan

ASSUME BoltAssumption == NumBolts \in Nat \ {0} /\ MaxEdits \in Nat

VARIABLES
    doc,      \* the accepted document
    edits     \* how often the plan was edited

boltVars == <<doc, edits>>

Bolts == 1 .. NumBolts
Modes == {"sequential", "parallel"}
Statuses == {"proposed", "approved", "running", "completed", "failed"}

Transitions == [proposed |-> {"approved"}, approved |-> {"running"},
                running |-> {"completed", "failed"},
                completed |-> {}, failed |-> {}]

\* What the proposer may write of a Bolt.
Contents(b) == [mode : Modes, dependsOn : SUBSET (Bolts \ {b}),
                writes : {{}} \union {{p} : p \in Paths}]

\* Transitive dependencies: what lies in every set of Bolts that holds the
\* dependencies of b and those of its own Bolts.
Holding(bolts, b) ==
    {S \in SUBSET Bolts : /\ bolts[b].dependsOn \subseteq S
                          /\ \A a \in S : bolts[a].dependsOn \subseteq S}
Ancestors(bolts) ==
    [b \in Bolts |-> {a \in Bolts : \A S \in Holding(bolts, b) : a \in S}]

IsParent(p, q) == Len(p) < Len(q) /\ SubSeq(q, 1, Len(p)) = p
SamePath(p, q) == p = q
Overlaps(p, q) == p = q \/ IsParent(p, q) \/ IsParent(q, p)

Clash(bolts, b, c) ==
    \E p \in bolts[b].writes, q \in bolts[c].writes : Overlaps(p, q)

\* Two Bolts with no dependency path between them write the same place.
Conflict(bolts) ==
    LET before == Ancestors(bolts)
    IN  \E b, c \in Bolts : b < c /\ b \notin before[c] /\ Clash(bolts, b, c)

DependenciesDone(bolts, b) ==
    \A a \in bolts[b].dependsOn : bolts[a].status = "completed"

NamesOtherBolts(bolts, b) == bolts[b].dependsOn \subseteq Bolts \ {b}
NamesEarlierBolts(bolts, b) == bolts[b].dependsOn \subseteq 1 .. (b - 1)

ApprovalConsistent(d) ==
    IF d.approval = "approved"
    THEN d.approvedBy /\ d.approvedRevision = d.revision
    ELSE ~d.approvedBy /\ d.approvedRevision = 0

Accepted(d) ==
    /\ ApprovalConsistent(d)
    /\ \A b \in Bolts : NamesEarlierBolts(d.bolts, b)
    /\ LET before == Ancestors(d.bolts)
       IN  \A b \in Bolts : d.bolts[b].mode = "sequential" => before[b] = 1 .. (b - 1)
    /\ ~Conflict(d.bolts)
    /\ \A b \in Bolts :
         /\ d.approval # "approved" => d.bolts[b].status = "proposed"
         /\ d.bolts[b].status \in {"running", "completed"}
            => DependenciesDone(d.bolts, b)
         /\ d.bolts[b].status = "completed" => d.bolts[b].evidence

CanStart(d, b) ==
    /\ d.approval = "approved" /\ d.approvedRevision = d.revision
    /\ "running" \in Transitions[d.bolts[b].status]
    /\ DependenciesDone(d.bolts, b)

Ready(d) ==
    IF d.approval # "approved" THEN {}
    ELSE {b \in Bolts : /\ d.bolts[b].status = "approved"
                        /\ DependenciesDone(d.bolts, b)}

Complete(d) == \A b \in Bolts : d.bolts[b].status = "completed"

-----------------------------------------------------------------------------
(* Whoever writes the document parses it again before relying on it. *)
Written(d) == Accepted(d) /\ doc' = d

Content(bolts) == [b \in Bolts |-> [mode |-> bolts[b].mode, writes |-> bolts[b].writes,
                                    dependsOn |-> bolts[b].dependsOn]]
NewBolt(c) == [mode |-> c.mode, writes |-> c.writes, dependsOn |-> c.dependsOn,
               status |-> "proposed", evidence |-> FALSE]
Status(b, s) == [doc EXCEPT !.bolts[b].status = s]

(* A first proposal the parser accepts. *)
BoltInit ==
    /\ \E c \in [Bolts -> UNION {Contents(b) : b \in Bolts}] :
         /\ \A b \in Bolts : c[b] \in Contents(b)
         /\ doc = [revision |-> 1, approval |-> "pending", approvedBy |-> FALSE,
                   approvedRevision |-> 0, bolts |-> [b \in Bolts |-> NewBolt(c[b])]]
    /\ Accepted(doc)
    /\ edits = 0

\* The proposer changes a Bolt: a new revision, to be approved again.
Revise(b) ==
    /\ edits < MaxEdits /\ edits' = edits + 1
    /\ \E c \in Contents(b) :
         Written([revision |-> doc.revision + 1, approval |-> "pending",
                  approvedBy |-> FALSE, approvedRevision |-> 0,
                  bolts |-> [x \in Bolts |-> NewBolt(IF x = b THEN c
                                                     ELSE Content(doc.bolts)[x])]])

(* The same edit without a new number: the revision of an artifact is that   *)
(* of the Work it belongs to, and nothing compares the text with what was    *)
(* approved.                                                                 *)
EditInPlace(b) ==
    /\ edits < MaxEdits /\ edits' = edits + 1
    /\ \E c \in Contents(b) :
         /\ c # Content(doc.bolts)[b]
         /\ Written([doc EXCEPT !.bolts[b].mode = c.mode, !.bolts[b].writes = c.writes,
                                !.bolts[b].dependsOn = c.dependsOn])

Decide ==
    /\ doc.approval = "pending"
    /\ \/ Written([doc EXCEPT !.approval = "approved", !.approvedBy = TRUE,
                              !.approvedRevision = doc.revision])
       \/ Written([doc EXCEPT !.approval = "rejected"])
    /\ UNCHANGED edits

\* check_transition: the other steps of a Bolt's life.
Step(b, s) ==
    /\ s \in Transitions[doc.bolts[b].status]
    /\ s # "running"
    /\ \E e \in IF s = "completed" THEN BOOLEAN ELSE {FALSE} :
         Written([Status(b, s) EXCEPT !.bolts[b].evidence = e])
    /\ UNCHANGED edits

Start(b) ==
    /\ CanStart(doc, b)
    /\ Written(Status(b, "running"))
    /\ UNCHANGED edits

BoltNext ==
    \/ Decide
    \/ \E b \in Bolts : Revise(b) \/ EditInPlace(b) \/ Start(b)
    \/ \E b \in Bolts, s \in Statuses : Step(b, s)

BoltSpec == BoltInit /\ [][BoltNext]_boltVars

-----------------------------------------------------------------------------
(* Bolts that run, or that the plan offers as ready to run beside them, write *)
(* to disjoint places, whatever order they were proposed, edited and started  *)
(* in (parse_bolt_plan, ready_bolts).                                         *)
ConcurrentBoltsAreDisjoint ==
    LET live == {b \in Bolts : doc.bolts[b].status = "running"} \union Ready(doc)
    IN  \A b, c \in live : b # c => ~\E p \in doc.bolts[b].writes, q \in doc.bolts[c].writes :
                                         p = q \/ IsParent(p, q) \/ IsParent(q, p)

(* An approved plan no Bolt of which failed never comes to a stop: some Bolt *)
(* runs, may be approved or may be started, until all are completed          *)
(* (parse_bolt_plan, assert_can_start, check_transition).                    *)
PlanCanProceed ==
    (/\ doc.approval = "approved"
     /\ ~Complete(doc)
     /\ \A b \in Bolts : doc.bolts[b].status # "failed")
    => \E b \in Bolts :
         \/ doc.bolts[b].status = "running"
         \/ doc.bolts[b].status \in {"proposed", "approved"} /\ DependenciesDone(doc.bolts, b)

------------------------------------------------------------------------------
(* Level-N plans and the adaptive pathway they are validated against        *)
(* (plans.py, adaptive_planning.py).  Plans are documents people edit and   *)
(* approve; an adoption profile may be activated for the Work at any time.  *)
(* Before each step an executor validates the plan anew; it is external.    *)

CONSTANTS
    StepIds,       \* the closed vocabulary of method steps
    MaxDepth,      \* depths are 0 .. MaxDepth, from the weakest on
    Requires,      \* per depth, the steps it adds to every pathway
    Mandatory, Optional, ForbiddenSkips, Exempt,   \* the pathway
    MinimumDepth,
    MaxPlanEdits   \* bound: edits of the plan

Depths == 0 .. MaxDepth
AllowedSteps == Mandatory \union Optional

(* load_policy_set and load_pathway refuse anything else. *)
ASSUME PathwayAssumption ==
    /\ MaxDepth \in Nat /\ MinimumDepth \in Depths
    /\ Requires \in [Depths -> SUBSET StepIds]
    /\ (AllowedSteps \union Exempt) \subseteq StepIds
    /\ Mandatory \intersect Optional = {}
    /\ ForbiddenSkips \subseteq AllowedSteps
    /\ \A d \in MinimumDepth .. MaxDepth : Requires[d] \ Exempt \subseteq AllowedSteps

VARIABLES
    plan,      \* the plan document
    profile,   \* depth of the adoption profile; 0 when none is active
    done,      \* steps the executor carried out
    planEdits

pathwayVars == <<plan, profile, done, planEdits>>

Decisions == {"execute", "skip", "absent"}

\* The strictest of the pathway's minimum and the active profile.
PathwayDepth(p) == MinimumDepth
EffectiveDepth(p) == IF p > MinimumDepth THEN p ELSE MinimumDepth

OnlyThisDepth(d) == (Mandatory \union Requires[d]) \ Exempt
MandatoryFor(d) ==
    (Mandatory \union UNION {Requires[e] : e \in 0 .. d}) \ Exempt

Executable(p) == p.approval = "approved" /\ p.approvedRevision = p.revision

MissingAllowed(p, d) ==
    /\ Executable(p)
    /\ {s \in StepIds : p.steps[s] # "absent"} \subseteq AllowedSteps
    /\ \A s \in ForbiddenSkips \union MandatoryFor(d) : p.steps[s] # "skip"
Authorized(p, d) ==
    /\ Executable(p)
    /\ {s \in StepIds : p.steps[s] # "absent"} \subseteq AllowedSteps
    /\ \A s \in MandatoryFor(d) : p.steps[s] # "absent"
    /\ \A s \in ForbiddenSkips \union MandatoryFor(d) : p.steps[s] # "skip"

Executed(p) == {s \in StepIds : p.steps[s] = "execute"}

-----------------------------------------------------------------------------
PathwayInit ==
    /\ \E steps \in [StepIds -> Decisions] :
         plan = [revision |-> 1, approval |-> "pending", approvedRevision |-> 0,
                 steps |-> steps]
    /\ profile \in Depths
    /\ done = {}
    /\ planEdits = 0

(* parse_plan refuses an approval of another revision: a revised plan goes   *)
(* back to pending.                                                          *)
RevisePlan(s, d) ==
    /\ planEdits < MaxPlanEdits
    /\ plan.steps[s] # d
    /\ plan' = [plan EXCEPT !.steps[s] = d, !.revision = @ + 1,
                            !.approval = "pending", !.approvedRevision = 0]
    /\ planEdits' = planEdits + 1
    /\ UNCHANGED <<profile, done>>

ApprovePlan ==
    /\ plan.approval = "pending"
    /\ plan' = [plan EXCEPT !.approval = "approved", !.approvedRevision = plan.revision]
    /\ UNCHANGED <<profile, done, planEdits>>

\* Each record is appended; the latest one per profile counts.
ActivateProfile(d) ==
    /\ planEdits < MaxPlanEdits
    /\ profile' = d /\ d # profile
    /\ planEdits' = planEdits + 1
    /\ UNCHANGED <<plan, done>>

ExecuteStep(s) ==
    /\ Authorized(plan, EffectiveDepth(profile))
    /\ s \in Executed(plan) \ done
    /\ done' = done \union {s}
    /\ UNCHANGED <<plan, profile, planEdits>>

PathwayNext ==
    \/ ApprovePlan
    \/ \E s \in StepIds : ExecuteStep(s) \/ \E d \in Decisions : RevisePlan(s, d)
    \/ \E d \in Depths : ActivateProfile(d)

PathwaySpec == PathwayInit /\ [][PathwayNext]_pathwayVars

-----------------------------------------------------------------------------
(* When every step of an authorised plan was carried out, so was every step   *)
(* the pathway, its minimum depth and the profile active now ask for, also    *)
(* when plan and profile changed while it was carried out                     *)
(* (validate_adaptive_plan).                                                  *)
NothingOwed ==
    (Authorized(plan, EffectiveDepth(profile)) /\ Executed(plan) \subseteq done)
    => ((Mandatory \union (UNION {Requires[e] : e \in Depths \intersect (0 .. profile)})
                   \union (UNION {Requires[e] : e \in 0 .. MinimumDepth})) \ Exempt)
         \subseteq done

(* A stricter profile only adds obligations: a plan authorised at a depth is  *)
(* authorised at every weaker one.                                            *)
DepthOnlyAdds ==
    \A d, e \in Depths : (e <= d /\ Authorized(plan, d)) => Authorized(plan, e)
==============================================================================
