--------------------------- MODULE ProjectInstall ---------------------------
(***************************************************************************)
(* aisdlc install: a configuration is validated and normalised, then apply *)
(* writes the project one Core command and one file at a time.  Nothing is *)
(* undone when a command fails, and a person may run the installer again.  *)
(* Between runs people edit the agent instruction file, in which the       *)
(* installer owns one block between two markers.                           *)
(*                                                                         *)
(* A configuration keeps what validate_config decides on.  The instruction *)
(* file is a sequence of markers, of the block's text, and of paragraphs.  *)
(***************************************************************************)
EXTENDS Naturals, Sequences, SequencesExt, FiniteSets

CONSTANTS
  RuntimeIds,       \* runtimes a configuration may declare
  Paragraphs,       \* paragraphs people write into the instruction file
  MaxInstallEdits,  \* bound: edits of the instruction file
  MaxInstallRuns    \* bound: runs of the installer

ASSUME InstallAssumption ==
  /\ RuntimeIds \cap {"human"} = {}
  /\ Paragraphs \cap {"start", "current", "obsolete", "end"} = {}
  /\ MaxInstallEdits \in Nat /\ MaxInstallRuns \in Nat

VARIABLES
  config,       \* the configuration apply works on
  step,         \* next step of apply; 0: apply is not running
  installed,    \* what exists in the target
  developer,    \* actor assigned to the developer role
  instructions, \* AGENTS.md (CLAUDE.md is treated alike)
  own,          \* paragraphs outside the block that people keep
  damaged,      \* a marker was deleted, or a write of the file was cut off
  outcome,      \* "idle", "running", "refused", "failed" or "installed"
  installRuns, installEdits

installVars == <<config, step, installed, developer, instructions, own,
                 damaged, outcome, installRuns, installEdits>>

-----------------------------------------------------------------------------
(* Configurations.                                                         *)

DepthOrder == <<"minimal", "standard", "comprehensive", "regulated">>

ProfileDepth == [starter |-> "standard", enterprise |-> "comprehensive",
                 modernization |-> "comprehensive", regulated |-> "regulated"]

Rank(depth) == CHOOSE i \in DOMAIN DepthOrder : DepthOrder[i] = depth

(* "roles" is the form of role_execution: the current one, the former three*)
(* roles with one executor or with several, or anything else.              *)
Config ==
  [profile : DOMAIN ProfileDepth,
   depth : Range(DepthOrder) \cup {"default"},
   roles : {"developer", "legacy", "legacy-mixed", "other"},
   executor : RuntimeIds \cup {"human"},
   runtimes : SUBSET RuntimeIds,
   criteria : {"mappings", "pairs", "texts"}]

ChosenDepth(c) == IF c.depth = "default" THEN ProfileDepth[c.profile] ELSE c.depth

(* Mutant: criteria are mappings only. *)
OnlyMappings(c) == c.criteria = "mappings"

ReadableCriteria(c) == c.criteria \in {"mappings", "pairs"}

(* Mutant: the executor may name any runtime. *)
AnyExecutor(c) == TRUE

DeclaredExecutor(c) == c.executor \in c.runtimes \cup {"human"}

Valid(c) ==
  /\ Rank(ChosenDepth(c)) >= Rank(ProfileDepth[c.profile])
  /\ c.roles \in {"developer", "legacy"}
  /\ DeclaredExecutor(c)
  /\ ReadableCriteria(c)

Normalized(c) ==
  [c EXCEPT !.depth = ChosenDepth(c), !.roles = "developer", !.criteria = "pairs"]

-----------------------------------------------------------------------------
(* The instruction file.                                                   *)

Markers == {"start", "end"}
Block   == <<"start", "current", "end">>

FirstAt(file, mark) == SelectInSeq(file, LAMBDA e : e = mark)

(* Mutant: what follows the block is dropped. *)
CutAfterBlock(file, from) == <<>>

(* What follows the first end marker after a position.                     *)
AfterBlock(file, from) ==
  LET rest == SubSeq(file, from + 1, Len(file))
  IN  SubSeq(rest, FirstAt(rest, "end") + 1, Len(rest))

BothMarkers(file) == Markers \subseteq Range(file)

(* split at the first start marker leaves no end marker to split at.       *)
EndsTooEarly(file) ==
  /\ BothMarkers(file)
  /\ \A i \in DOMAIN file : file[i] = "end" => i < FirstAt(file, "start")

WithBlock(file) ==
  IF BothMarkers(file)
  THEN LET at == FirstAt(file, "start")
       IN  SubSeq(file, 1, at - 1) \o Block \o AfterBlock(file, at)
  ELSE file \o Block

-----------------------------------------------------------------------------
(* The steps of apply, in order.                                           *)

InstallSteps == <<"git", "core-project", "method", "actors", "swarm", "assignments",
           "work", "profile", "metadata", "skill", "instructions", "reported">>

CoreSteps == {"core-project", "method", "actors", "swarm", "assignments",
              "work", "profile"}

InstallInit ==
  /\ config \in Config
  /\ step = 0 /\ installed = {} /\ developer = "nobody"
  /\ instructions \in {<<>>, <<"start", "obsolete", "end">>}
  /\ own = {} /\ damaged = FALSE /\ outcome = "idle"
  /\ installRuns = 0 /\ installEdits = 0

(* validate_config comes before every write, and so does core_preflight,   *)
(* which may refuse the installed Core.                                    *)
BeginInstall ==
  /\ step = 0 /\ installRuns < MaxInstallRuns
  /\ installRuns' = installRuns + 1
  /\ \/ /\ Valid(config)
        /\ config' = Normalized(config)
        /\ step' = 1 /\ outcome' = "running"
     \/ outcome' = "refused" /\ UNCHANGED <<config, step>>
  /\ UNCHANGED <<installed, developer, instructions, own, damaged, installEdits>>

(* Core may refuse to create again what a former run left behind.          *)
Created(name) ==
  /\ step > 0 /\ InstallSteps[step] = name
  /\ installed' = installed \cup {name}
  /\ step' = step + 1
  /\ UNCHANGED <<config, own, outcome, installRuns, installEdits>>

Create ==
  /\ step > 0 /\ InstallSteps[step] \notin {"assignments", "instructions", "reported"}
  /\ Created(InstallSteps[step])
  /\ UNCHANGED <<developer, instructions, damaged>>

Assign ==
  /\ Created("assignments")
  /\ developer' = config.executor
  /\ UNCHANGED <<instructions, damaged>>

Instruct ==
  /\ Created("instructions")
  /\ ~EndsTooEarly(instructions)
  /\ instructions' = WithBlock(instructions)
  /\ UNCHANGED <<developer, damaged>>

(* apply ends with preview of the normalised configuration, which          *)
(* validates it again.                                                     *)
Report ==
  /\ step > 0 /\ InstallSteps[step] = "reported"
  /\ outcome' = IF Valid(config) THEN "installed" ELSE "failed"
  /\ step' = 0
  /\ UNCHANGED <<config, installed, developer, instructions, own, damaged,
                 installRuns, installEdits>>

(* A step raises, or the process ends: what was written stays.  A write of *)
(* the instruction file that is cut off leaves it empty.                   *)
StepFails ==
  /\ step > 0
  /\ step' = 0 /\ outcome' = "failed"
  /\ \/ UNCHANGED <<instructions, damaged>>
     \/ InstallSteps[step] = "instructions" /\ instructions' = <<>> /\ damaged' = TRUE
  /\ UNCHANGED <<config, installed, developer, own, installRuns, installEdits>>

-----------------------------------------------------------------------------
(* People.                                                                 *)

InsideBlock(file, i) ==
  \E a, b \in DOMAIN file : a < i /\ i < b /\ file[a] = "start" /\ file[b] = "end"

Edited(file) ==
  /\ step = 0 /\ installEdits < MaxInstallEdits
  /\ installEdits' = installEdits + 1
  /\ instructions' = file
  /\ own' = {p \in Paragraphs :
               \E i \in DOMAIN file : file[i] = p /\ ~InsideBlock(file, i)}
  /\ UNCHANGED <<config, step, installed, developer, outcome, installRuns>>

WriteParagraph ==
  /\ \E p \in Paragraphs \ Range(instructions), i \in 1 .. Len(instructions) + 1 :
       Edited(InsertAt(instructions, i, p))
  /\ UNCHANGED damaged

DeleteLine ==
  \E i \in DOMAIN instructions :
    /\ Edited(RemoveAt(instructions, i))
    /\ damaged' = (damaged \/ instructions[i] \in Markers)

ChangeConfig ==
  /\ step = 0 /\ outcome = "refused" /\ installed = {}
  /\ config' \in {[config EXCEPT !.executor = "human"],
                  [config EXCEPT !.depth = "default"]} \ {config}
  /\ UNCHANGED <<step, installed, developer, instructions, own, damaged,
                 outcome, installRuns, installEdits>>

InstallNext ==
  \/ BeginInstall \/ Create \/ Assign \/ Instruct \/ Report \/ StepFails
  \/ WriteParagraph \/ DeleteLine \/ ChangeConfig

InstallSpec == InstallInit /\ [][InstallNext]_installVars

-----------------------------------------------------------------------------
(* Properties.                                                             *)

(* "replaces only managed block": whatever people wrote outside the block  *)
(* is still in AGENTS.md and CLAUDE.md after any number of installations,  *)
(* unless a marker was deleted or a write was cut off.                     *)
OwnTextIsKept == ~damaged => own \subseteq Range(instructions)

(* A report of success describes a project that can run: every part was    *)
(* written in this or a former run, one block is in the instructions, and  *)
(* the developer role has an actor the configuration declares.             *)
InstalledIsComplete ==
  outcome = "installed" /\ step = 0 /\ installEdits = 0 =>
    /\ installed = Range(InstallSteps) \ {"reported"}
    /\ developer \in config.runtimes \cup {"human"}
    /\ damaged \/ Cardinality({i \in DOMAIN instructions : instructions[i] = "start"}) = 1

(* Once writing has begun, the installer does not refuse its own normalised*)
(* configuration at the end: a failed run is a failed step.                *)
WritingIsValid == step > 0 => Valid(config)

=============================================================================
