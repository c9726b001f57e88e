------------------------- MODULE EnterpriseRegistry -------------------------
(***************************************************************************)
(* The enterprise profile takes its method from a registry that an         *)
(* organization publishes: a release is previewed, its trust keys are      *)
(* registered with the project, Core installs or updates the snapshot, and *)
(* what Core reports is compared with the preview.  Each of these reads    *)
(* the index or the keys again, while publishers replace releases and      *)
(* administrators add and revoke keys, and any of them may be the last.    *)
(*                                                                         *)
(* A release is the checksum of its archive and the keys that signed it.   *)
(* Core counts a signature when some scope trusts its key, the weakest     *)
(* reading of it; it may refuse at any time and then writes nothing.       *)
(***************************************************************************)
EXTENDS Naturals, FiniteSets

CONSTANTS
  Keys,             \* trust keys, by id
  Checksums,        \* archives that may be published
  Configs,          \* configurations people work with
  FirstReleases,    \* what is published at first, per version
  MaxPublications,  \* bound: changes of the published index
  MaxKeyEvents      \* bound: keys added and revoked past the profile

ASSUME RegistryAssumption ==
  /\ \A c \in Configs : c.keys \subseteq Keys
  /\ FirstReleases \in [{1, 2} -> [checksum : Checksums, signers : SUBSET Keys]]
  /\ MaxPublications \in Nat /\ MaxKeyEvents \in Nat

VARIABLES
  configuration, \* the configuration commands are given
  index,         \* what the source publishes, per version
  trust,         \* status of every key in every scope
  snapshot,      \* the installed registry of the project
  call,          \* the command that runs
  reviewed,      \* checksum a person took from a preview of an upgrade
  report,        \* result of the last command
  publications, keyEvents

registryVars == <<configuration, index, trust, snapshot, call, reviewed, report,
                  publications, keyEvents>>

-----------------------------------------------------------------------------
Scopes   == {"user", "project"}
Statuses == {"absent", "active", "revoked", "conflicting"}
Versions == {1, 2}

Nothing == [version |-> 0, checksum |-> "none", verified |-> {}]
Idle    == [at |-> "idle", status |-> <<>>, plan |-> Nothing, missing |-> {},
            got |-> Nothing, revoked |-> {}]

(* The two layers of a configuration agree.  Budgets map dimensions to     *)
(* limits.                                                                 *)
WithinOrganization(c) ==
  /\ c.providers \subseteq c.allowed
  /\ DOMAIN c.budgets = DOMAIN c.ceilings
  /\ \A d \in DOMAIN c.ceilings : c.budgets[d] <= c.ceilings[d]
  /\ c.required \subseteq c.exported

ValidConfig(c) ==
  /\ c.threshold \in 1 .. Cardinality(c.keys)
  /\ {} \notin {c.allowed, c.providers, c.required, c.exported}
  /\ {} \notin {DOMAIN c.ceilings, DOMAIN c.budgets}
  /\ WithinOrganization(c)

-----------------------------------------------------------------------------
(* Trust keys.                                                             *)

Known(k) == {trust[s][k] : s \in Scopes} \ {"absent"}

RevokedKeys == {k \in Keys : "revoked" \in Known(k)}

Unmanaged == {k \in Keys : Known(k) \ {"conflicting"} # {}} \ configuration.keys

Conflicts == \E k \in configuration.keys : "conflicting" \in Known(k)

(* Mutant: a key that is active in the project counts as active. *)
ProjectStatus(k) ==
  IF trust["project"][k] # "absent" THEN trust["project"][k]
  ELSE IF trust["user"][k] = "revoked" THEN "revoked" ELSE "active"

(* A key that no scope holds yet is a candidate and counts as active.      *)
EffectiveStatus(k) == IF "revoked" \in Known(k) THEN "revoked" ELSE "active"

KeysAgree == Unmanaged = {} /\ ~Conflicts

(* Signatures of a release that count, given the keys in force.            *)
Counted(release, active) == release.signers \cap active

Active == {k \in Keys : "active" \in Known(k)}

-----------------------------------------------------------------------------
RegistryInit ==
  /\ configuration \in Configs
  /\ index = [id |-> "ours", releases |-> FirstReleases]
  /\ trust = [s \in Scopes |-> [k \in Keys |-> "absent"]]
  /\ snapshot = Nothing /\ call = Idle /\ reviewed = "none" /\ report = "none"
  /\ publications = 0 /\ keyEvents = 0

Release == index.releases[configuration.version]

(* A report is kept with the preview and the revoked keys it rests on.     *)
Ended(result) ==
  /\ report' = result
  /\ call' = IF result = "installed"
             THEN [Idle EXCEPT !.plan = call.plan, !.revoked = call.revoked] ELSE Idle

(* install validates, and preview_install lists the keys.                  *)
BeginInstallRegistry ==
  /\ call.at = "idle"
  /\ \/ /\ ValidConfig(configuration) /\ KeysAgree
        /\ call' = [Idle EXCEPT !.at = "inspect", !.revoked = RevokedKeys,
                      !.status = [k \in configuration.keys |-> EffectiveStatus(k)]]
        /\ report' = "running"
     \/ Ended("refused")
  /\ UNCHANGED <<configuration, index, trust, snapshot, reviewed, publications, keyEvents>>

Enough(keys) == Cardinality(keys) >= configuration.threshold

InspectRelease ==
  /\ call.at = "inspect"
  /\ index.id = "ours"
  /\ LET active == {k \in DOMAIN call.status : call.status[k] = "active"}
         counted == Counted(Release, active)
     IN  /\ Release.signers \cap DOMAIN call.status \subseteq active
         /\ Enough(counted)
         /\ call' = [call EXCEPT !.at = "list",
                       !.plan = [version |-> configuration.version,
                                 checksum |-> Release.checksum, verified |-> counted]]
  /\ UNCHANGED <<configuration, index, trust, snapshot, reviewed, report,
                 publications, keyEvents>>

ListKeys ==
  /\ call.at = "list"
  /\ call' = [call EXCEPT !.at = "install",
                !.missing = {k \in configuration.keys : trust["project"][k] = "absent"}]
  /\ UNCHANGED <<configuration, index, trust, snapshot, reviewed, report,
                 publications, keyEvents>>

AddKey(k) ==
  /\ call.at = "install" /\ k \in call.missing
  /\ trust["project"][k] = "absent"
  /\ trust' = [trust EXCEPT !["project"][k] = "active"]
  /\ call' = [call EXCEPT !.missing = @ \ {k}]
  /\ UNCHANGED <<configuration, index, snapshot, reviewed, report, publications, keyEvents>>

(* What Core takes from the index as it is now.                            *)
Taken == [version |-> configuration.version, checksum |-> Release.checksum,
          verified |-> Counted(Release, Active)]

CoreTakes ==
  /\ index.id = "ours"
  /\ Enough(Taken.verified)
  /\ snapshot' = Taken
  /\ UNCHANGED <<configuration, index, trust, reviewed, report, publications, keyEvents>>

CoreInstallsRegistry ==
  /\ call.at = "install" /\ call.missing = {}
  /\ snapshot = Nothing
  /\ CoreTakes
  /\ call' = [call EXCEPT !.at = "compare", !.got = Taken]

CompareInstalled ==
  /\ call.at = "compare"
  /\ Ended(IF call.got = call.plan THEN "installed" ELSE "failed")
  /\ UNCHANGED <<configuration, index, trust, snapshot, reviewed, publications, keyEvents>>

-----------------------------------------------------------------------------
(* Upgrades.  Core refuses a lower version and a changed checksum of the   *)
(* installed one.                                                          *)

UpdateFound == configuration.version > snapshot.version

PreviewSucceeds ==
  /\ ValidConfig(configuration) /\ snapshot # Nothing /\ KeysAgree
  /\ index.id = "ours"
  /\ Enough(Counted(Release, Active))
  /\ UpdateFound \/ /\ configuration.version = snapshot.version
                    /\ Release.checksum = snapshot.checksum

ReviewUpgrade ==
  /\ call.at = "idle" /\ PreviewSucceeds
  /\ reviewed' = Release.checksum /\ report' = "none"
  /\ UNCHANGED <<configuration, index, trust, snapshot, call, publications, keyEvents>>

SameAsReviewed == Release.checksum = reviewed

BeginUpgrade ==
  /\ call.at = "idle" /\ reviewed # "none"
  /\ \/ /\ PreviewSucceeds /\ UpdateFound /\ SameAsReviewed
        /\ call' = [Idle EXCEPT !.at = "update"] /\ report' = "running"
     \/ PreviewSucceeds /\ ~UpdateFound /\ Ended("current")
     \/ Ended("refused")
  /\ UNCHANGED <<configuration, index, trust, snapshot, reviewed, publications, keyEvents>>

CoreUpdates ==
  /\ call.at = "update" /\ UpdateFound
  /\ CoreTakes
  /\ call' = [call EXCEPT !.at = "check", !.got = Taken]

(* Mutant: signers outside the policy are accepted. *)
EnoughSigners == Enough(snapshot.verified)

ProvenanceHolds == Enough(snapshot.verified) /\ snapshot.verified \subseteq configuration.keys

CheckUpgrade ==
  /\ call.at = "check"
  /\ Ended(IF call.got.checksum = reviewed /\ ProvenanceHolds THEN "applied" ELSE "failed")
  /\ UNCHANGED <<configuration, index, trust, snapshot, reviewed, publications, keyEvents>>

(* Core refuses, a file cannot be read, or the command is cut: keys and a  *)
(* snapshot that were written stay.                                        *)
CommandFails ==
  /\ call.at # "idle"
  /\ Ended("failed")
  /\ UNCHANGED <<configuration, index, trust, snapshot, reviewed, publications, keyEvents>>

-----------------------------------------------------------------------------
(* Publishers, administrators and the person at the command.               *)

Publish ==
  /\ publications < MaxPublications /\ publications' = publications + 1
  /\ \/ \E v \in Versions, c \in Checksums, s \in SUBSET Keys :
          index' = [index EXCEPT !.releases[v] = [checksum |-> c, signers |-> s]]
     \/ index.id = "ours" /\ index' = [index EXCEPT !.id = "other"]
  /\ UNCHANGED <<configuration, trust, snapshot, call, reviewed, report, keyEvents>>

ChangeKey ==
  /\ keyEvents < MaxKeyEvents /\ keyEvents' = keyEvents + 1
  /\ \E s \in Scopes, k \in Keys, status \in Statuses \ {"absent"} :
       /\ trust[s][k] = "absent" => status \in {"active", "conflicting"}
       /\ trust[s][k] # "absent" => trust[s][k] = "active" /\ status = "revoked"
       /\ trust' = [trust EXCEPT ![s][k] = status]
  /\ UNCHANGED <<configuration, index, snapshot, call, reviewed, report, publications>>

ReviseConfig ==
  /\ call.at = "idle"
  /\ configuration' \in Configs \ {configuration}
  /\ report' = "none"
  /\ UNCHANGED <<index, trust, snapshot, call, reviewed, publications, keyEvents>>

RegistryNext ==
  \/ BeginInstallRegistry \/ InspectRelease \/ ListKeys \/ (\E k \in Keys : AddKey(k))
  \/ CoreInstallsRegistry \/ CompareInstalled
  \/ ReviewUpgrade \/ BeginUpgrade \/ CoreUpdates \/ CheckUpgrade \/ CommandFails
  \/ Publish \/ ChangeKey \/ ReviseConfig

RegistrySpec == RegistryInit /\ [][RegistryNext]_registryVars

-----------------------------------------------------------------------------
(* What install reports is the release it previewed, signed by enough keys *)
(* of the policy, none of which was revoked in any scope when it began;    *)
(* what apply_upgrade reports is the archive a person reviewed, signed by  *)
(* enough keys of the policy.  Index and keys may change at every step.    *)
ReleasesAreReviewed ==
  /\ report = "installed" =>
       snapshot = call.plan /\ snapshot.verified \cap call.revoked = {}
  /\ report = "applied" => snapshot.checksum = reviewed
  /\ report \in {"installed", "applied"} =>
       Enough(snapshot.verified) /\ snapshot.verified \subseteq configuration.keys

=============================================================================
