---------------------------- MODULE GuidedLaunch ----------------------------
(***************************************************************************)
(* execute_guided_preparation: one bounded executor iteration of the       *)
(* guided wizard.  It shares the session store and the ledger with the     *)
(* other launchers; it has no "already running" check, picks the first id  *)
(* no session of the Work uses, and is not under guard_governed_state.     *)
(***************************************************************************)
EXTENDS SessionStore

CONSTANTS
  RuntimeLimit,   \* the runtime has an explicitly configured context limit
  Construction    \* the Work's stage is construction

ASSUME GuidedAssumption == RuntimeLimit \in BOOLEAN /\ Construction \in BOOLEAN

(* How the context block ended: what the manifest measured against the     *)
(* runtime's limit, or "absent" after a failure that is ignored.           *)
Contexts == {"none", "fits", "overflow", "absent"}

VARIABLE context   \* per host, of the launch it is in

guidedVars == <<vars, context>>

GuidedTypeOK == TypeOK /\ context \in [Hosts -> Contexts]

GuidedInit == Init /\ context = [h \in Hosts |-> "none"]

-----------------------------------------------------------------------------
(* Preparing the launch.                                                   *)

(* The human boundary, a stale scope or phase, mandatory context beyond    *)
(* the limit, or a runtime plan that cannot be built.                      *)
Refuse(h) ==
  /\ Return(h, "error")
  /\ UNCHANGED context

(* The ExecutorLaunchError raised for manifest.overflow is a ValueError:   *)
(* the block's own last handler catches it and the launch goes on.         *)
ContextOutcomes ==
  {"fits", "absent"} \cup (IF RuntimeLimit THEN {"overflow"} ELSE {})

(* Mutant: the suffix is counted from the wrong end. *)
SkippingId(ss) == IF ss = <<>> THEN BaseId ELSE Id("next", Len(ss) + 2)

(* The first of base_id, base_id-2, base_id-3, ... that is not in use.     *)
FreeId(ss) ==
  LET Free == {i \in {BaseId} \cup {Id("next", n) : n \in 2 .. Len(ss) + 1} :
                 i \notin UsedIds(ss)}
  IN  CHOOSE i \in Free : \A j \in Free : i.n <= j.n

Prepare(h) ==
  /\ \E c \in ContextOutcomes : context' = [context EXCEPT ![h] = c]
  /\ Begin(h, StartJob(FreeId(sessions), NoId, 600))

-----------------------------------------------------------------------------
(* Concluding.                                                             *)

GuidedRaised(h) ==
  /\ job[h].verdict = "raised"
  /\ Finish(h, "failure", "error")

(* In Construction a completed run can fail to reconcile or show nothing.  *)
GuidedReturned(h) ==
  LET s == sessions[IndexOf(job[h].id)]
  IN  /\ job[h].verdict = "returned"
      /\ \/ s.status = "completed" /\ Finish(h, "success", "success")
         \/ /\ s.status # "completed" \/ Construction
            /\ Finish(h, "failure", "error")

(* In Construction no outcome is recorded when the files cannot be listed  *)
(* after the run was reconciled, or the stored diagnostic cannot be read.  *)
GuidedEscapes(h) ==
  /\ Construction
  /\ job[h].verdict = "returned"
  /\ sessions[IndexOf(job[h].id)].status = "completed"
  /\ Escape(h)

GuidedConclude(h) ==
  /\ pc[h] = "conclude"
  /\ GuidedRaised(h) \/ GuidedReturned(h) \/ GuidedEscapes(h)
  /\ context' = [context EXCEPT ![h] = "none"]

Die(h) == Crash(h) /\ context' = [context EXCEPT ![h] = "none"]

Step(h) == UnguardedStep(h) /\ UNCHANGED context

Edit == OperatorEdit /\ UNCHANGED context

GuidedNext ==
  \/ \E h \in Hosts : Refuse(h) \/ Prepare(h) \/ Step(h) \/ GuidedConclude(h) \/ Die(h)
  \/ Edit

GuidedSpec == GuidedInit /\ [][GuidedNext]_guidedVars

-----------------------------------------------------------------------------
(* Properties (LedgerBalances and RunsAreCounted are checked here too).    *)

(* Hosts choose a free id from a listing that may be stale when Core gets  *)
(* to it; whoever wins, the ids come out in order and without a gap, so    *)
(* the next free id is always one past the newest session.                 *)
GuidedIdsInOrder == \A i \in DOMAIN sessions : sessions[i].id.n = i

(* "context.selected_overflow ... reselect a larger-context runtime": no   *)
(* executor is started with selected context beyond the configured limit.  *)
OverflowBlocks ==
  \A h \in Hosts : context[h] = "overflow" => pc[h] # "running"

-----------------------------------------------------------------------------
(* Why the ids come out in order: the inductive invariant.                 *)

GuidedId(n) == IF n = 1 THEN BaseId ELSE Id("next", n)

GuidedIds == \A i \in DOMAIN sessions : sessions[i].id = GuidedId(i)

(* A host that will start a session has a used id or the next one.         *)
GuidedStarts ==
  \A h \in Hosts : pc[h] \in {"attempt", "baseline", "core"} =>
    \E n \in 1 .. Len(sessions) + 1 : job[h].id = GuidedId(n)

GuidedInv == GuidedTypeOK /\ GuidedIds /\ GuidedStarts

=============================================================================
