------------------------ MODULE IndependentDecisions -------------------------
(* What people decide over an executor: on the findings of a scanner, and on *)
(* the revision of an artifact they review.  They share no state.            *)
EXTENDS Naturals, FiniteSets

------------------------------------------------------------------------------
(* Scanner findings, the decisions taken on them and the security-scan       *)
(* evidence derived from both (security_findings.py).  Stored records are    *)
(* plain data anybody may rewrite between two calls.                         *)

CONSTANTS FindingIds, MaxRewrites   \* bound: rewrites of stored records

Severities == {"low", "medium", "high", "critical", "unknown"}
Rank == [low |-> 1, medium |-> 2, high |-> 3, critical |-> 4, unknown |-> 5]
Levels == 0 .. 3   \* minimal, standard, comprehensive, regulated
FlatThreshold == [d \in Levels |-> IF d = 2 THEN 4 ELSE 3]
Threshold == [d \in Levels |-> 4 - d]

DecisionRoles == [resolved |-> {"security-reviewer"},
                  false_positive |-> {"security-reviewer"},
                  accepted_risk |-> {"governance-owner"}]
Deciders == {"security-reviewer", "governance-owner", "developer"}
ActorKinds == {"human", "ai-agent"}

VARIABLES
    reported,   \* severity the scanner reported, per finding; "none" before
    record,     \* the stored record of each finding
    passed,     \* the last scan that passed: its level and the findings then known
    rewrites

findingVars == <<reported, record, passed, rewrites>>

Known == {f \in FindingIds : reported[f] # "none"}

MayDecide(kind, role, actorKind) ==
    /\ role \in DecisionRoles[kind]
    /\ kind = "accepted_risk" => actorKind = "human"

\* _validate_record: the stored fields still are what was normalised.
UncheckedRecord(r) == TRUE
ValidRecord(r) ==
    /\ r.severity = r.original
    /\ r.status # "open" => MayDecide(r.status, r.role, r.actorKind)

Blocks(r, level) ==
    r.status = "open" /\ (r.severity = "unknown" \/ Rank[r.severity] >= Threshold[level])

Assessable == \A f \in Known : ValidRecord(record[f])
ScanPasses(level) == Assessable /\ \A f \in Known : ~Blocks(record[f], level)

-----------------------------------------------------------------------------
NoRecord == [severity |-> "none", original |-> "none", status |-> "open",
             role |-> "none", actorKind |-> "none"]

FindingInit ==
    /\ reported = [f \in FindingIds |-> "none"]
    /\ record = [f \in FindingIds |-> NoRecord]
    /\ passed = <<0, {}>>
    /\ rewrites = 0

NormalizeFinding(f, s) ==
    /\ reported[f] = "none"
    /\ reported' = [reported EXCEPT ![f] = s]
    /\ record' = [record EXCEPT ![f] = [NoRecord EXCEPT !.severity = s, !.original = s]]
    /\ UNCHANGED <<passed, rewrites>>

DecideFinding(f, kind, role, actorKind) ==
    /\ f \in Known
    /\ ValidRecord(record[f])
    /\ record[f].status = "open"
    /\ MayDecide(kind, role, actorKind)
    /\ record' = [record EXCEPT ![f].status = kind, ![f].role = role,
                                ![f].actorKind = actorKind]
    /\ UNCHANGED <<reported, passed, rewrites>>

\* Somebody lowers a stored severity.
Rewrite(f, s) ==
    /\ f \in Known /\ rewrites < MaxRewrites
    /\ rewrites' = rewrites + 1
    /\ record' = [record EXCEPT ![f].severity = s]
    /\ UNCHANGED <<reported, passed>>

\* evaluate_findings and security_evidence_input, when they pass.
ScanAt(level) ==
    /\ ScanPasses(level)
    /\ passed' = <<level, Known>>
    /\ UNCHANGED <<reported, record, rewrites>>

FindingNext ==
    \/ \E f \in FindingIds, s \in Severities : NormalizeFinding(f, s) \/ Rewrite(f, s)
    \/ \E f \in FindingIds, k \in DOMAIN DecisionRoles, r \in Deciders, a \in ActorKinds :
         DecideFinding(f, k, r, a)
    \/ \E d \in Levels : ScanAt(d)

FindingSpec == FindingInit /\ [][FindingNext]_findingVars

-----------------------------------------------------------------------------
(* A scan that passed left no finding the scanner had reported at or above    *)
(* the level's threshold, or of unknown severity, without a decision by the   *)
(* role entitled to it; decisions are never taken back (decide_finding,       *)
(* evaluate_findings, and the check of the stored record in both).            *)
PassedScanIsDecided ==
    \A f \in passed[2] :
        (reported[f] = "unknown" \/ Rank[reported[f]] >= 4 - passed[1])
        => /\ record[f].status # "open"
           /\ record[f].role \in {"security-reviewer", "governance-owner"}
           /\ record[f].status = "accepted_risk" => record[f].actorKind = "human"

(* What passes at a level passes at every weaker one                          *)
(* (docs/integrations/security.md, the thresholds are monotonic).             *)
ThresholdsAreMonotonic ==
    \A d, e \in Levels : (e <= d /\ ScanPasses(d)) => ScanPasses(e)

------------------------------------------------------------------------------
(* The review of an exact artifact revision by somebody independent enough   *)
(* (independent_review.py, provenance.py).  The artifact may be produced     *)
(* again between the review and its evaluation.  What a runtime declares of  *)
(* itself may be wrong, what was observed is right.                          *)

CONSTANTS
    Actors,         \* names as written
    Producers,      \* those of them who produce the artifact
    Folded(_),      \* a name without regard to case and surrounding blanks
    Providers,
    MaxProductions  \* bound: revisions of the artifact

Profiles == {"distinct-actor", "distinct-provider", "human-final", "regulated"}
Sources == {"observed", "declared", "unavailable"}
SourceRank == [unavailable |-> 0, declared |-> 1, observed |-> 2]

VARIABLES
    policy,      \* the separation policy the artifact declares
    produced,    \* the current revision: who made it, with what
    review,      \* the review given, of the revision it saw; or NoReview
    waiver,      \* role of the waiver given and whether it is complete
    decision     \* the last evaluation

reviewVars == <<policy, produced, review, waiver, decision>>

Dimensions(p) == (IF p \intersect {"distinct-actor", "regulated"} # {} THEN {"actor"} ELSE {})
                 \union (IF p \intersect {"distinct-provider", "regulated"} # {}
                         THEN {"provider"} ELSE {})
RequiresHuman(p) == p \intersect {"human-final", "regulated"} # {}
HumanWaivable(p) == "regulated" \notin p
MinSource(p) == IF "regulated" \in p THEN "observed" ELSE "declared"

(* A provenance: the provider really used, and what is known of it. *)
Provenances == {r \in [actor : Actors, real : Providers, claim : Providers, source : Sources] :
                   r.source # "declared" => r.claim = r.real}

ActorOnly(a, b, dimension, p) == dimension = "actor" => Folded(a.actor) # Folded(b.actor)
Distinct(a, b, dimension, p) ==
    IF dimension = "actor" THEN Folded(a.actor) # Folded(b.actor)
    ELSE /\ \A r \in {a, b} : /\ r.source # "unavailable"
                              /\ SourceRank[r.source] >= SourceRank[MinSource(p)]
         /\ a.claim # b.claim

SeparationBlockers(p) ==
    {d \in Dimensions(p) : ~Distinct(produced.by, review.by, d, p)}
HumanBlocked(p) == RequiresHuman(p) /\ review.kind # "human"

NoReview == [given |-> FALSE]
NoWaiver == [given |-> FALSE]
WaiverValid == waiver.role = "governance-owner" /\ waiver.complete

\* Evaluate a review: the policy's blockers may be waived, the others not.
Allowed ==
    /\ review.revision = produced.revision
    /\ review.verdict = "approved"
    /\ IF ~waiver.given
       THEN SeparationBlockers(policy) = {} /\ ~HumanBlocked(policy)
       ELSE WaiverValid /\ (HumanBlocked(policy) => HumanWaivable(policy))

-----------------------------------------------------------------------------
Reviewers == [given : {TRUE}, revision : {produced.revision}, by : Provenances,
              kind : {"human", "ai-agent"}, verdict : {"approved", "rejected"}]

ReviewInit ==
    \* "regulated" asks for all that the others ask for.
    /\ policy \in {p \in SUBSET Profiles : /\ p # {} /\ Cardinality(p) <= 2
                                           /\ "regulated" \in p => p = {"regulated"}}
    /\ produced \in [revision : {1}, by : {r \in Provenances : r.actor \in Producers}]
    /\ review = NoReview /\ waiver = NoWaiver
    /\ decision = [allowed |-> FALSE, waived |-> FALSE]

ProduceAgain ==
    /\ produced.revision < MaxProductions
    /\ produced' = [produced EXCEPT !.revision = @ + 1]
    /\ decision' = [allowed |-> FALSE, waived |-> FALSE]
    /\ UNCHANGED <<policy, review, waiver>>

GiveReview ==
    /\ review.given => review.revision # produced.revision
    /\ \E r \in Reviewers : review' = r
    /\ decision' = [allowed |-> FALSE, waived |-> FALSE]
    /\ UNCHANGED <<policy, produced, waiver>>

GiveWaiver ==
    /\ ~waiver.given
    /\ \E role \in {"governance-owner", "developer"}, c \in BOOLEAN :
         waiver' = [given |-> TRUE, role |-> role, complete |-> c]
    /\ UNCHANGED <<policy, produced, review, decision>>

EvaluateReview ==
    /\ review.given
    /\ decision' = [allowed |-> Allowed, waived |-> waiver.given]
    /\ UNCHANGED <<policy, produced, review, waiver>>

ReviewNext == ProduceAgain \/ GiveReview \/ GiveWaiver \/ EvaluateReview

ReviewSpec == ReviewInit /\ [][ReviewNext]_reviewVars

-----------------------------------------------------------------------------
(* An artifact whose review was allowed was reviewed in its present revision, *)
(* by a human if it is regulated, and, unless a governance owner waived it,   *)
(* by another person and, as far as provenance was observed, really with      *)
(* another provider (evaluate_review, evaluate_separation, compare).          *)
AllowedReviewIsIndependent ==
    decision.allowed =>
        /\ review.revision = produced.revision /\ review.verdict = "approved"
        /\ "regulated" \in policy => review.kind = "human"
        /\ decision.waived => waiver.role = "governance-owner"
        /\ ~decision.waived =>
             /\ policy \intersect {"distinct-actor", "regulated"} # {}
                => Folded(produced.by.actor) # Folded(review.by.actor)
             /\ "regulated" \in policy => produced.by.real # review.by.real
             /\ "human-final" \in policy => review.kind = "human"
==============================================================================
