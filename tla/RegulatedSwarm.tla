-------------------------- MODULE RegulatedSwarm --------------------------
(* The regulated profile's controls around agora Core (regulated.py): who   *)
(* may hold which role, which actions may be prepared for signing, and the  *)
(* audit record that comes before prepared evidence.  Every check reads     *)
(* Core's records and Core is called afterwards, so that other hosts,       *)
(* people who bypass the profile and revoked keys come in between.  One     *)
(* assessment reads swarm and actors together.  Signing and applying an     *)
(* action are Core's; text fields, paths and the recorded exceptions, which *)
(* nothing here consults, are left out.                                     *)
EXTENDS FiniteSets, Naturals

CONSTANTS
    RequiredRoles, Nobody,
    Humans, Agents,     \* the actors
    Callers,            \* hosts that call the profile
    RecordIds, EvidenceIds,
    MaxInterventions,   \* bound: keys revoked or renewed, assignments past the profile
    MaxCalls            \* bound: actions asked for

ASSUME EvidenceAssumption == "none" \notin EvidenceIds

VARIABLES
    assigned,   \* the swarm's assignments, as Core stores them
    signing,    \* actors with an active Ed25519 identity
    call,       \* what each caller is in the middle of
    actions,    \* the lifecycle actions Core has prepared
    audit,      \* the evidence-retention records, by id
    interventions, calls

regulatedVars == <<assigned, signing, call, actions, audit, interventions, calls>>

SwarmActors == Humans \union Agents
MandatoryHumanRoles == {"product-owner", "quality-reviewer"}
NonCombinable == {"architect", "builder", "operator", "product-owner"}   \* each with the quality-reviewer
NoCall == [step |-> "idle"]
NoAuditRecord == [evidence |-> "none"]

-----------------------------------------------------------------------------
(* assess_assignments: the blockers of an assignment of roles.             *)

HeldBy(roles) == {r \in RequiredRoles : roles[r] # Nobody}
InvalidHolders(roles) ==
    {r \in HeldBy(roles) : \/ r \in MandatoryHumanRoles /\ roles[r] \notin Humans
                           \/ roles[r] \notin signing}
NeverCombined(roles) == {}
Combined(roles) ==
    {r \in HeldBy(roles) \intersect NonCombinable :
        "quality-reviewer" \in HeldBy(roles) /\ roles[r] = roles["quality-reviewer"]}

MayAssign(role, actor) ==
    LET roles == [assigned EXCEPT ![role] = actor]
    IN  InvalidHolders(roles) = {} /\ Combined(roles) = {}

SwarmReady ==
    HeldBy(assigned) = RequiredRoles /\ InvalidHolders(assigned) = {} /\ Combined(assigned) = {}

-----------------------------------------------------------------------------
(* The reference for the profile's segregation of duties.                  *)
Segregated(roles) ==
    /\ \A r \in RequiredRoles \intersect MandatoryHumanRoles : roles[r] \in Humans
    /\ "quality-reviewer" \in RequiredRoles =>
         \A r \in RequiredRoles \intersect NonCombinable : roles[r] # roles["quality-reviewer"]

RegulatedInit ==
    /\ assigned = [r \in RequiredRoles |-> Nobody]
    /\ signing = SwarmActors
    /\ call = [h \in Callers |-> NoCall]
    /\ actions = {}
    /\ audit = [i \in RecordIds |-> NoAuditRecord]
    /\ interventions = 0 /\ calls = 0

-----------------------------------------------------------------------------
(* assign_actor: the assessment, then Core's assignment.                   *)

AssessAssignment(h) ==
    /\ call[h].step = "idle"
    /\ \E r \in RequiredRoles, a \in SwarmActors :
         MayAssign(r, a) /\ call' = [call EXCEPT ![h] = [step |-> "assign", role |-> r, actor |-> a]]
    /\ UNCHANGED <<assigned, signing, actions, audit, interventions, calls>>

AssignActor(h) ==
    /\ call[h].step = "assign"
    /\ assigned' = [assigned EXCEPT ![call[h].role] = call[h].actor]
    /\ call' = [call EXCEPT ![h] = NoCall]
    /\ UNCHANGED <<signing, actions, audit, interventions, calls>>

(* prepare_transition and prepare_evidence: the whole swarm is assessed,   *)
(* then the actor, then the record is written, then Core is called.        *)
RequireReadySwarm(h) ==
    /\ call[h].step = "idle" /\ calls < MaxCalls
    /\ SwarmReady
    /\ \E a \in SwarmActors, kind \in {"transition", "evidence"}, i \in RecordIds, e \in EvidenceIds :
         call' = [call EXCEPT ![h] = [step |-> "ready", kind |-> kind, actor |-> a, record |-> i,
                                      evidence |-> e, segregated |-> Segregated(assigned)]]
    /\ calls' = calls + 1
    /\ UNCHANGED <<assigned, signing, actions, audit, interventions>>

RequireSignedActor(h) ==
    /\ call[h].step = "ready"
    /\ call' = [call EXCEPT ![h] =
                  IF call[h].actor \in signing THEN [@ EXCEPT !.step = "signed"] ELSE NoCall]
    /\ UNCHANGED <<assigned, signing, actions, audit, interventions, calls>>

\* A record is created exclusively: an id that exists ends the call.
Overwritable(id) == TRUE
Creatable(id) == audit[id] = NoAuditRecord

NothingBefore(c) == c.step = "signed"
AuditedBefore(c) == c.step = (IF c.kind = "evidence" THEN "audited" ELSE "signed")

WriteAudit(h) ==
    /\ call[h].step = "signed" /\ call[h].kind = "evidence"
    /\ IF Creatable(call[h].record)
       THEN /\ audit' = [audit EXCEPT ![call[h].record] = [evidence |-> call[h].evidence]]
            /\ call' = [call EXCEPT ![h].step = "audited"]
       ELSE audit' = audit /\ call' = [call EXCEPT ![h] = NoCall]
    /\ UNCHANGED <<assigned, signing, actions, interventions, calls>>

(* Core validates once more and may refuse; the audit record stays.        *)
CorePrepares(h) ==
    /\ call[h].step \in {"signed", "audited"} /\ AuditedBefore(call[h])
    /\ \/ actions' = actions
       \/ actions' = actions \union
            {[kind |-> call[h].kind, evidence |-> call[h].evidence,
              segregated |-> call[h].segregated]}
    /\ call' = [call EXCEPT ![h] = NoCall]
    /\ UNCHANGED <<assigned, signing, audit, interventions, calls>>

CallCut(h) ==
    /\ call[h].step # "idle"
    /\ call' = [call EXCEPT ![h] = NoCall]
    /\ UNCHANGED <<assigned, signing, actions, audit, interventions, calls>>

-----------------------------------------------------------------------------
(* The environment: Core's own assign_actor, and keys.                     *)

Intervenes == interventions < MaxInterventions /\ interventions' = interventions + 1

AssignDirectly ==
    /\ Intervenes
    /\ \E r \in RequiredRoles, a \in SwarmActors : assigned' = [assigned EXCEPT ![r] = a]
    /\ UNCHANGED <<signing, call, actions, audit, calls>>

KeyEvent ==
    /\ Intervenes
    /\ \E a \in SwarmActors : signing' = IF a \in signing THEN signing \ {a} ELSE signing \union {a}
    /\ UNCHANGED <<assigned, call, actions, audit, calls>>

RegulatedNext ==
    \/ \E h \in Callers :
         \/ AssessAssignment(h) \/ AssignActor(h)
         \/ RequireReadySwarm(h) \/ RequireSignedActor(h)
         \/ WriteAudit(h) \/ CorePrepares(h) \/ CallCut(h)
    \/ AssignDirectly \/ KeyEvent

RegulatedSpec == RegulatedInit /\ [][RegulatedNext]_regulatedVars

-----------------------------------------------------------------------------
(* However assignments race or bypass the profile, Core prepares only       *)
(* actions of calls that found the duties segregated                        *)
(* (docs/profiles/regulated.md, Segregation and review).                    *)
PreparedBySegregatedSwarm == \A a \in actions : a.segregated

(* No signable evidence action is without its retention record, wherever a  *)
(* call is cut and whoever uses the same id (prepare_evidence).             *)
EvidenceIsRetained ==
    \A a \in actions : a.kind = "evidence" => \E i \in RecordIds : audit[i].evidence = a.evidence
=============================================================================
