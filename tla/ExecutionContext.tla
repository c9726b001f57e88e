-------------------------- MODULE ExecutionContext --------------------------
(* What an executor is given to read: the bundle of changed, dirty and       *)
(* related files (execution_bundle.py), its pruning by the local classifier  *)
(* (execution_context.py, context_relevance.py), the manifest held against   *)
(* the runtime's limit (context_manifest.py), and the launch that uses them  *)
(* (guided_execution.py).  People and executors edit the tree at any time.   *)
EXTENDS Naturals, FiniteSets, FiniteSetsExt

CONSTANTS
    Files,         \* files, as naturals: their order is that of their names
    Framework,     \* the files below .agora/ and the like
    Score,         \* per file, what keywords in its name and text are worth
    Size,          \* per file, its estimated tokens
    MaxRelated,    \* MAX_RELATED_PATHS
    MandatorySizes,  \* what the governed part of a context may come to, in tokens
    Limit,         \* the runtime's declared context limit
    MaxTouches     \* bound: edits of the tree

ASSUME ContextAssumption ==
    /\ Files \subseteq Nat /\ IsFiniteSet(Files) /\ Framework \subseteq Files
    /\ Score \in [Files -> Nat] /\ Size \in [Files -> Nat]
    /\ MaxRelated \in Nat /\ MandatorySizes \subseteq Nat /\ Limit \in Nat /\ MaxTouches \in Nat

VARIABLES
    tree,      \* per file: what git status says of it, and whether the branch
               \* changed it since its base
    bundle,    \* EXECUTION_BUNDLE.json and the tree it was taken from
    lean,      \* LEAN_EXECUTION_CONTEXT.json of this launch
    given,     \* what the executor was told to read
    touches

contextVars == <<tree, bundle, lean, given, touches>>

NoBundle == [taken |-> FALSE]
NoLean == [written |-> FALSE]
NotGiven == [started |-> FALSE]

-----------------------------------------------------------------------------
\* A path as the bundle spells it: cut paths have lost their first letter.
Path(f) == [file |-> f, cut |-> FALSE]
CutPath(f) == [file |-> f, cut |-> TRUE]
IsFramework(p) == ~p.cut /\ p.file \in Framework

Tracked == {f \in Files : tree[f].status \notin {"absent", "new"}}
Listed == {f \in Files : tree[f].status \notin {"absent", "clean"}}

\* git status names tracked files first, each kind in the order of the names.
FirstListed ==
    IF Listed \intersect Tracked # {} THEN Min(Listed \intersect Tracked) ELSE Min(Listed)

(* _git strips the whole output: a first line that starts with a blank, an   *)
(* edit that is not staged, is one letter short when the path is cut out.    *)
StatusPath(f) ==
    IF f = FirstListed /\ tree[f].status = "edited" THEN CutPath(f) ELSE Path(f)
StatusPaths == {p \in {StatusPath(f) : f \in Listed} : ~IsFramework(p)}

ChangedPaths == {Path(f) : f \in {g \in Files \ Framework : tree[g].changed}}

Weight(p, changed, dirty) ==
    IF p \notin {Path(f) : f \in Tracked} THEN 120
    ELSE Score[p.file] + (IF p \in changed THEN 100 ELSE 0)
                       + (IF p \in dirty THEN 80 ELSE 0)

\* The best scored of the tracked, changed and dirty paths.
RelatedPaths(changed, dirty) ==
    LET W(p) == Weight(p, changed, dirty)
        scored == {p \in {Path(f) : f \in Tracked \ Framework} \union changed \union dirty :
                     W(p) > 0}
        Before(p, q) == \/ W(p) > W(q)
                        \/ W(p) = W(q) /\ p.file < q.file
    IN  {p \in scored : Cardinality({q \in scored : Before(q, p)}) < MaxRelated}

RelatedOnly(b) == b.related
Candidates(b) == b.changed \union b.dirty \union b.related
Protected(b) == b.changed \union b.dirty

Tokens(p) == IF p.cut THEN 0 ELSE Size[p.file]
TokensOf(paths) == MapThenSumSet(Tokens, paths)

\* What is kept of the candidates, given the classifier's answers.
KeepConfident(b, answer) ==
    Protected(b) \union {p \in DOMAIN answer : answer[p] = "relevant"}
Selected(b, answer) ==
    Protected(b) \union {p \in DOMAIN answer : answer[p] # "irrelevant"}

Total(b, kept) == b.mandatory + TokensOf(kept)

-----------------------------------------------------------------------------
ContextInit ==
    /\ tree \in [Files -> [status : {"clean", "absent"}, changed : BOOLEAN]]
    /\ \A f \in Files : tree[f].status = "absent" => ~tree[f].changed
    /\ bundle = NoBundle
    /\ lean = NoLean
    /\ given = NotGiven
    /\ touches = 0

\* What git status may say of a file next.
After(status) ==
    CASE status = "absent" -> {"new"}
      [] status = "new" -> {"staged"}
      [] OTHER -> {"edited", "staged"}

Touch(f, s) ==
    /\ touches < MaxTouches
    /\ s \in After(tree[f].status)
    /\ tree' = [tree EXCEPT ![f].status = s]
    /\ touches' = touches + 1
    /\ UNCHANGED <<bundle, lean, given>>

CommitStaged ==
    /\ touches < MaxTouches
    /\ \E f \in Files : tree[f].status = "staged"
    /\ tree' = [f \in Files |-> IF tree[f].status = "staged"
                                THEN [status |-> "clean", changed |-> TRUE] ELSE tree[f]]
    /\ touches' = touches + 1
    /\ UNCHANGED <<bundle, lean, given>>

\* build_execution_bundle; a launch starts with it, and may be cut at any time.
BuildBundle ==
    /\ \E m \in MandatorySizes :
         bundle' = [taken |-> TRUE, changed |-> ChangedPaths, dirty |-> StatusPaths,
                    related |-> RelatedPaths(ChangedPaths, StatusPaths), mandatory |-> m,
                    wasChanged |-> {f \in Files \ Framework : tree[f].changed},
                    wasDirty |-> Listed \ Framework]
    /\ lean' = NoLean
    /\ given' = NotGiven
    /\ UNCHANGED <<tree, touches>>

(* select_execution_context: every candidate that is not protected is put to *)
(* the classifier; below the confidence threshold it is unsure.              *)
Select ==
    /\ bundle.taken /\ ~lean.written /\ ~given.started
    /\ \E answer \in [Candidates(bundle) \ Protected(bundle)
                        -> {"relevant", "irrelevant", "unsure"}] :
         lean' = [written |-> TRUE, answer |-> answer, kept |-> Selected(bundle, answer)]
    /\ UNCHANGED <<tree, bundle, given, touches>>

\* ContextOverflowError: the governed part alone is too large.
RefuseMandatory ==
    /\ lean.written /\ ~given.started
    /\ bundle.mandatory > Limit
    /\ bundle' = NoBundle /\ lean' = NoLean
    /\ UNCHANGED <<tree, given, touches>>

\* The executor reads the lean selection; build_context_manifest measured it.
LaunchLean ==
    /\ lean.written /\ ~given.started
    /\ Total(bundle, lean.kept) <= Limit
    /\ given' = [started |-> TRUE, paths |-> lean.kept]
    /\ UNCHANGED <<tree, bundle, lean, touches>>

(* Beyond the limit the manifest's refusal is a ValueError, which the block   *)
(* it is raised in takes for a failed selection: the launch goes on with the  *)
(* selection already written.                                                 *)
LaunchOverflow ==
    /\ lean.written /\ ~given.started
    /\ bundle.mandatory <= Limit /\ Total(bundle, lean.kept) > Limit
    /\ given' = [started |-> TRUE, paths |-> lean.kept]
    /\ UNCHANGED <<tree, bundle, lean, touches>>

\* No classifier, or it fails: the executor reads the whole bundle.
LaunchUnpruned ==
    /\ bundle.taken /\ ~lean.written /\ ~given.started
    /\ given' = [started |-> TRUE, paths |-> Candidates(bundle)]
    /\ UNCHANGED <<tree, bundle, lean, touches>>

ContextNext ==
    \/ \E f \in Files, s \in {"new", "edited", "staged"} : Touch(f, s)
    \/ CommitStaged \/ BuildBundle \/ Select
    \/ RefuseMandatory \/ LaunchLean \/ LaunchOverflow \/ LaunchUnpruned

ContextSpec == ContextInit /\ [][ContextNext]_contextVars

-----------------------------------------------------------------------------
(* A file the branch changed reaches the executor however many files compete  *)
(* for the limited list, and so does every other file listed, unless the      *)
(* classifier was sure in this launch that it is irrelevant                   *)
(* (select_execution_context, the fall-back of execute_guided_preparation).   *)
OnlySureFilesAreDropped ==
    given.started =>
      /\ \A f \in bundle.wasChanged : Path(f) \in given.paths
      /\ \A p \in bundle.related \ given.paths :
           lean.written /\ lean.answer[p] = "irrelevant"

(* docs/method/agora-flow-wizard.md: "changed and dirty files are always     *)
(* retained".  A dirty file whose path was cut is not.                       *)
DirtyFilesAreRetained ==
    given.started => \A f \in bundle.wasDirty : Path(f) \in given.paths

(* The refusal in execute_guided_preparation: context beyond the configured   *)
(* limit of the runtime is not sent.                                          *)
OverflowIsRefused ==
    (given.started /\ lean.written) => Total(bundle, given.paths) <= Limit
=============================================================================
