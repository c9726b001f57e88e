------------------------------ MODULE Launchers ------------------------------
(***************************************************************************)
(* The two launchers of Construction: the explicit one                     *)
(* (launch_construction_executor) and the wizard's                         *)
(* (execute_guided_preparation).  Each keeps sessions of its own for a     *)
(* Work, under its own base id; a behaviour is about those of one of them, *)
(* chosen at the start.                                                    *)
(***************************************************************************)
EXTENDS ConstructionLaunch, GuidedLaunch, TLC

VARIABLE launcher

launcherVars == <<guidedVars, launcher>>

LaunchersInit == GuidedInit /\ launcher \in {"construction", "guided"}

LaunchersNext ==
  /\ \/ launcher = "construction" /\ ConstructionNext /\ UNCHANGED context
     \/ launcher = "guided" /\ GuidedNext
  /\ UNCHANGED launcher

LaunchersSpec == LaunchersInit /\ [][LaunchersNext]_launcherVars

(* Hosts differ in nothing but their names.                                *)
HostSymmetry == Permutations(Hosts)

-----------------------------------------------------------------------------
(* Properties.                                                             *)

LaunchersTypeOK == GuidedTypeOK /\ launcher \in {"construction", "guided"}

(* Whatever happens between two hosts of either launcher, every run of an  *)
(* executor was announced by an attempt in the ledger, no attempt is given *)
(* two outcomes, and one is left without an outcome only by a dead host or *)
(* by an exit that reads the sessions or the files outside the handlers    *)
(* (construction_executor.py 239-360, guided_execution.py 572-697).        *)
LaunchesAreAccounted == RunsAreCounted /\ LedgerBalances

(* Two hosts that launch Construction at once leave one live session, its  *)
(* retries name the failed session just before, and every id tells how the *)
(* session before it ended (construction_executor.py 202-216).             *)
ConstructionHistory ==
  launcher = "construction" => OneLiveSession /\ RetryChain /\ IdTellsPredecessor

(* The wizard's ids come out in order whoever wins the race for one        *)
(* (guided_execution.py 528-535).                                          *)
GuidedHistory == launcher = "guided" => GuidedIdsInOrder

=============================================================================
