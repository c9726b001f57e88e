------------------------ MODULE ModernizationGates ------------------------
(* The gates of the modernization profile over the documents registered for *)
(* a Work (modernization.py).  Core's register only grows: a document is    *)
(* corrected by registering another one.  A behaviour begins in Inception,  *)
(* with inventory, dependency map, target architecture and characterization *)
(* registered; a document is registered after those it traces to, and in    *)
(* the phase it is for.  Reports may also come later, in Operations.  A     *)
(* file that differs from its registered digest only refuses the gate.      *)
(*                                                                          *)
(* transition reads the state of the Work, which says whether a gate is to  *)
(* be assessed, then the documents, then the evidence, and then calls Core, *)
(* which looks at the state again.  Requests of several people overlap.     *)
(* Evidence and references only grow, so that reading them together with    *)
(* the call of Core loses nothing; documents are read in a step before.     *)
EXTENDS Naturals, Sequences, FiniteSets, TLC

CONSTANTS
    Behaviors, SliceIds,
    Requesters,       \* people whose calls of transition may overlap
    MaxDocuments      \* bound, per kind: how often people register one

VARIABLES
    workState,
    documents,        \* per kind, the documents in the order of their registration
    successes,        \* successful evidence: its type and the document it references
    requests          \* per requester: its call of transition, with what it has read

modernizationVars == <<workState, documents, successes, requests>>

Kinds == {"characterization", "migration-plan", "migration-slice", "conversion-record",
          "equivalence-report", "cutover-plan", "stabilization-report", "rollback-procedure"}
\* What a report says of a behaviour.  Refused: that it regressed, or something for which it has no
\* evidence, explanation, approver or trace to its slice.
Results == {"equivalent", "accepted", "refused"}
NoDocument == 0

Count(kind) == Len(documents[kind])
Indices(kind) == 1 .. Count(kind)
Doc(kind, i) == documents[kind][i]
Only(kind) == Count(kind) = 1

\* _by_slice: of several documents of a slice the one registered last counts.
FirstOfSlice(kind, s) ==
    LET own == {i \in Indices(kind) : Doc(kind, i).slice = s}
    IN  IF own = {} THEN NoDocument ELSE CHOOSE i \in own : \A j \in own : i <= j
LatestOfSlice(kind, s) ==
    LET own == {i \in Indices(kind) : Doc(kind, i).slice = s}
    IN  IF own = {} THEN NoDocument ELSE CHOOSE i \in own : \A j \in own : i >= j

BehaviorStatus == Doc("characterization", 1).behaviors
PlannedSlices == Doc("migration-plan", 1).slices
SliceBehaviors(s) == Doc("migration-slice", LatestOfSlice("migration-slice", s)).behaviors

-----------------------------------------------------------------------------
(* _slices and _equivalence_blockers.                                      *)

SlicesFitThePlan ==
    /\ Only("migration-plan")
    /\ {Doc("migration-slice", i).slice : i \in Indices("migration-slice")} = PlannedSlices
    /\ Cardinality(PlannedSlices) = Count("migration-slice")

InventionAllowed(status, result) == result \in {"equivalent", "accepted"}
Acceptable(status, result) ==
    \/ result = "accepted"
    \/ result = "equivalent" /\ status = "known"

SliceCompared(s) ==
    LET conversion == LatestOfSlice("conversion-record", s)
        report == LatestOfSlice("equivalence-report", s)
        results == Doc("equivalence-report", report).results
    IN  /\ conversion # NoDocument
        /\ report # NoDocument
        /\ DOMAIN results = SliceBehaviors(s)
        /\ \A b \in SliceBehaviors(s) :
             b \in DOMAIN BehaviorStatus /\ Acceptable(BehaviorStatus[b], results[b])

BehaviorsCovered == UNION {SliceBehaviors(s) : s \in PlannedSlices} = DOMAIN BehaviorStatus

EquivalenceShown ==
    /\ BehaviorsCovered
    /\ \A s \in PlannedSlices : SliceCompared(s)
    /\ \A kind \in {"conversion-record", "equivalence-report"} :
         \A i \in Indices(kind) : Doc(kind, i).slice \in PlannedSlices

CurrentReports == {LatestOfSlice("equivalence-report", s) : s \in PlannedSlices}

AnyCutover(plan) == TRUE
CoversCurrentReports(plan) == CurrentReports \subseteq plan.reports

CutoverCovers ==
    /\ Only("cutover-plan") /\ Only("stabilization-report")
    /\ Doc("cutover-plan", 1).slices = PlannedSlices
    /\ CoversCurrentReports(Doc("cutover-plan", 1))
    /\ Doc("stabilization-report", 1).slices = PlannedSlices
    /\ Doc("stabilization-report", 1).cutover = 1

Evidenced(type, indices) == \E i \in indices : <<type, i>> \in successes

(* assess_documents, by the gate's name: what is asked of the documents,   *)
DocumentsAllow(gate) ==
    /\ SlicesFitThePlan
    /\ gate # "architecture-approved" => EquivalenceShown
    /\ gate = "completion" => CutoverCovers

(* and the rest of assess_gate: evidence for one of the reports that were  *)
(* current when the documents were read, and for the other documents.      *)
EvidenceAllows(gate, current) ==
    /\ gate = "build-verified" => Evidenced("behavioral-equivalence", current)
    /\ gate = "completion" =>
         /\ Evidenced("cutover", Indices("cutover-plan"))
         /\ Evidenced("rollback-validation", Indices("rollback-procedure"))
         /\ Evidenced("stabilization", Indices("stabilization-report"))

(* FORWARD_GATES; every other pair of states has no gate of the profile.   *)
GateOf(from, to) ==
    CASE <<from, to>> = <<"inception", "construction">>  -> "architecture-approved"
      [] <<from, to>> = <<"construction", "operations">> -> "build-verified"
      [] <<from, to>> = <<"operations", "completed">>    -> "completion"
      [] OTHER -> "none"

(* Core's own edges: the same, and rework.                                 *)
CoreMoves(from, to) ==
    GateOf(from, to) # "none" \/ <<from, to>> = <<"operations", "construction">>

-----------------------------------------------------------------------------
States == {"inception", "construction", "operations", "completed"}
NoRequest == [step |-> "none"]

ModernizationInit ==
    /\ workState = "inception"
    /\ \E known \in SUBSET Behaviors :
         documents = [k \in Kinds |->
             IF k # "characterization" THEN <<>>
             ELSE <<[behaviors |-> [b \in Behaviors |-> IF b \in known THEN "known" ELSE "unknown"]]>>]
    /\ successes = {}
    /\ requests = [r \in Requesters |-> NoRequest]

(* transition: show_work, and the gate that state and target have.         *)
ReadState(r) ==
    /\ requests[r] = NoRequest
    /\ \E to \in States \ {"inception"} :
         LET gate == GateOf(workState, to)
         IN  requests' = [requests EXCEPT ![r] =
                [step |-> IF gate = "none" THEN "move" ELSE "read", to |-> to, gate |-> gate,
                 reports |-> 0, current |-> {}]]
    /\ UNCHANGED <<workState, documents, successes>>

(* _workspace_documents; a request whose documents do not do is refused.   *)
ReadDocuments(r) ==
    /\ requests[r].step = "read"
    /\ requests' = [requests EXCEPT ![r] =
            IF DocumentsAllow(@.gate)
            THEN [@ EXCEPT !.step = "move", !.reports = Count("equivalence-report"),
                           !.current = CurrentReports]
            ELSE NoRequest]
    /\ UNCHANGED <<workState, documents, successes>>

(* transition_work, unless evidence is missing or Core refuses.            *)
Move(r) ==
    /\ requests[r].step = "move"
    /\ workState' = IF /\ EvidenceAllows(requests[r].gate, requests[r].current)
                       /\ CoreMoves(workState, requests[r].to)
                    THEN requests[r].to ELSE workState
    /\ requests' = [requests EXCEPT ![r] = NoRequest]
    /\ UNCHANGED <<documents, successes>>

(* A request that nothing overlaps, in one step: another's, so that the     *)
(* Work may move while those of Requesters are under way.                   *)
TransitionAtOnce ==
    /\ \E to \in States :
         /\ CoreMoves(workState, to)
         /\ LET gate == GateOf(workState, to)
            IN  gate # "none" => DocumentsAllow(gate) /\ EvidenceAllows(gate, CurrentReports)
         /\ workState' = to
    /\ UNCHANGED <<documents, successes, requests>>

(* The environment: people and tools register documents and evidence.      *)
Register(kind, contents) ==
    /\ Count(kind) < MaxDocuments[kind]
    /\ documents' = [documents EXCEPT ![kind] = Append(@, contents)]
    /\ UNCHANGED <<workState, successes, requests>>

RegisterPlan ==
    /\ workState = "inception"
    /\ \E slices \in SUBSET SliceIds \ {{}} : Register("migration-plan", [slices |-> slices])

RegisterSlice ==
    /\ workState = "inception" /\ Count("migration-plan") > 0
    /\ \E s \in SliceIds, bs \in SUBSET Behaviors \ {{}} :
         Register("migration-slice", [slice |-> s, behaviors |-> bs])

RegisterConversion ==
    /\ workState = "construction"
    /\ \E i \in Indices("migration-slice") :
         Register("conversion-record", [slice |-> Doc("migration-slice", i).slice])

RegisterReport ==
    /\ workState # "inception"
    /\ \E i \in Indices("migration-slice"), bs \in SUBSET Behaviors \ {{}} :
      \E results \in [bs -> Results] :
        Register("equivalence-report", [slice |-> Doc("migration-slice", i).slice, results |-> results])

RegisterCutover ==
    /\ workState = "operations"
    /\ \E reports \in SUBSET Indices("equivalence-report") :
         Register("cutover-plan", [slices |-> PlannedSlices, reports |-> reports,
                                   after |-> Count("equivalence-report")])

RegisterStabilization ==
    /\ workState = "operations"
    /\ \E i \in Indices("cutover-plan") :
         Register("stabilization-report", [slices |-> Doc("cutover-plan", i).slices, cutover |-> i])

RegisterRollback ==
    workState = "operations" /\ Register("rollback-procedure", [kind |-> "rollback"])

EvidenceOf == ("behavioral-equivalence" :> "equivalence-report") @@ ("cutover" :> "cutover-plan")
    @@ ("rollback-validation" :> "rollback-procedure") @@ ("stabilization" :> "stabilization-report")

RecordSuccess ==
    /\ workState \in {"construction", "operations"}
    /\ \E type \in DOMAIN EvidenceOf : \E i \in Indices(EvidenceOf[type]) :
         successes' = successes \union {<<type, i>>}
    /\ UNCHANGED <<workState, documents, requests>>

ModernizationNext ==
    \/ \E r \in Requesters : ReadState(r) \/ ReadDocuments(r) \/ Move(r)
    \/ TransitionAtOnce
    \/ RegisterPlan \/ RegisterSlice \/ RegisterConversion \/ RegisterReport
    \/ RegisterCutover \/ RegisterStabilization \/ RegisterRollback
    \/ RecordSuccess

ModernizationSpec == ModernizationInit /\ [][ModernizationNext]_modernizationVars

-----------------------------------------------------------------------------
(* The reference: the last word the first n reports say of a behaviour, by  *)
(* any report of a slice it is assigned to.  What a report says of other    *)
(* slices' behaviours is no word about them: such a report cannot be the    *)
(* slice's last.                                                            *)
LastWord(b, n) ==
    LET about == {i \in 1 .. n :
                     /\ b \in DOMAIN Doc("equivalence-report", i).results
                     /\ b \in SliceBehaviors(Doc("equivalence-report", i).slice)}
    IN  IF about = {} THEN "none"
        ELSE Doc("equivalence-report", CHOOSE i \in about : \A j \in about : i >= j).results[b]

Settled(n) ==
    \A b \in DOMAIN BehaviorStatus :
        \/ LastWord(b, n) = "accepted"
        \/ LastWord(b, n) = "equivalent" /\ BehaviorStatus[b] = "known"

Moved(r) == requests[r].step = "move" /\ requests'[r] = NoRequest

(* No request takes a characterized behaviour into operations, or completes *)
(* it, if of the reports it read the last of its slice says it regressed or *)
(* claims without support, or says of an unknown one that it is equivalent: *)
(* reports, slices, requests and rework in any order.  Reports that come    *)
(* after it read are not asked, and a request that read a state from which  *)
(* the profile has no gate to its target is asked nothing (transition;      *)
(* docs/profiles/modernization.md, Behavior truth).                         *)
SettledStep ==
    workState' # workState /\ workState' \in {"operations", "completed"} =>
        \/ requests' = requests /\ Settled(Count("equivalence-report"))
        \/ \E r \in Requesters :
             Moved(r) /\ (requests[r].gate = "none" \/ Settled(requests[r].reports))
BehaviorsAreSettled == [][SettledStep]_modernizationVars

(* A request completes a Work only when none of the reports it read came    *)
(* after the cutover plan (same page, Cutover and rollback).                *)
CutoverStep ==
    workState' # workState /\ workState' = "completed" =>
        LET after == Doc("cutover-plan", 1).after
        IN  \/ requests' = requests /\ after = Count("equivalence-report")
            \/ \E r \in Requesters :
                 Moved(r) /\ (requests[r].gate = "none" \/ after = requests[r].reports)
CutoverFollowsReports == [][CutoverStep]_modernizationVars

(* "evaluates the additional profile obligations immediately before         *)
(* delegating a forward transition to Core" (same page): every move forward *)
(* is one whose request assessed its gate.                                  *)
ForwardMovesAreAssessed ==
    [][\A r \in Requesters :
         Moved(r) /\ workState' # workState /\ GateOf(workState, workState') # "none" =>
            requests[r].gate = GateOf(workState, workState')]_modernizationVars
=============================================================================
