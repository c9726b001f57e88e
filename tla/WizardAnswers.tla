---------------------------- MODULE WizardAnswers ----------------------------
(***************************************************************************)
(* The clarifications of one Work.  The deterministic draft lists the gaps *)
(* of the issue; a session asks the first question without an answer and   *)
(* saves the answer under the question's position in the list, by reading  *)
(* ANSWERS.json, adding the answer and writing the whole file.  Several    *)
(* sessions may serve the same Work; the draft is written again by every   *)
(* start, and people edit it.                                              *)
(***************************************************************************)
EXTENDS Naturals, Sequences, FiniteSets, Functions

CONSTANTS
  Sessions,         \* sessions open on the Work
  Gaps,             \* gaps a draft may list
  MaxDrafts,        \* bound: times the draft changes
  MaxAnswerCuts     \* bound: writes of ANSWERS.json that are cut off

ASSUME AnswersAssumption == MaxDrafts \in Nat /\ MaxAnswerCuts \in Nat

VARIABLES
  draft,       \* "Material clarifications": a sequence of gaps
  answers,     \* ANSWERS.json: the gap a person answered under each number
  readable,    \* FALSE: the file is not JSON
  prompt,      \* the question a session shows, or NoQuestion
  copy,        \* what save_answer read before it writes, or NotSaving
  drafts, answerCuts

answersVars == <<draft, answers, readable, prompt, copy, drafts, answerCuts>>

NoQuestion == [number |-> 0, gap |-> "none"]
NotSaving  == [saving |-> FALSE]

Drafts == UNION {[1 .. n -> Gaps] : n \in 0 .. Cardinality(Gaps)}

(* Gaps are listed once.                                                   *)
DraftLists == {d \in Drafts : \A i, j \in DOMAIN d : d[i] = d[j] => i = j}

-----------------------------------------------------------------------------
(* load_answers: a file that cannot be read counts as empty.               *)
Loaded == IF readable THEN answers ELSE <<>>

(* build_wizard_view: positions of the draft without an answer.            *)
Questions == DOMAIN draft \ DOMAIN Loaded

FirstQuestion == CHOOSE n \in Questions : \A m \in Questions : n <= m

(* Mutant: the answers of the file are not carried over. *)
OnlyNew(old, n, gap) == [m \in {n} |-> gap]

Merged(old, n, gap) == [m \in DOMAIN old \cup {n} |-> IF m = n THEN gap ELSE old[m]]

-----------------------------------------------------------------------------
AnswersInit ==
  /\ draft \in DraftLists
  /\ answers = <<>> /\ readable = TRUE
  /\ prompt = [s \in Sessions |-> NoQuestion]
  /\ copy = [s \in Sessions |-> NotSaving]
  /\ drafts = 0 /\ answerCuts = 0

Waiting(s) == prompt[s] # NoQuestion /\ copy[s] = NotSaving

AskQuestion(s) ==
  /\ prompt[s] = NoQuestion /\ Questions # {}
  /\ prompt' = [prompt EXCEPT ![s] =
                  [number |-> FirstQuestion, gap |-> draft[FirstQuestion]]]
  /\ UNCHANGED <<draft, answers, readable, copy, drafts, answerCuts>>

(* An empty answer or a look at the details leads back to the question.    *)
AskAgain(s) ==
  /\ Waiting(s)
  /\ prompt' = [prompt EXCEPT ![s] = NoQuestion]
  /\ UNCHANGED <<draft, answers, readable, copy, drafts, answerCuts>>

(* save_answer reads the file ...                                          *)
ReadAnswers(s) ==
  /\ Waiting(s)
  /\ copy' = [copy EXCEPT ![s] = [saving |-> TRUE, answers |-> Loaded]]
  /\ UNCHANGED <<draft, answers, readable, prompt, drafts, answerCuts>>

(* ... and writes it with the answer added.                                *)
WriteAnswers(s) ==
  /\ copy[s] # NotSaving
  /\ answers' = Merged(copy[s].answers, prompt[s].number, prompt[s].gap)
  /\ readable' = TRUE
  /\ prompt' = [prompt EXCEPT ![s] = NoQuestion]
  /\ copy' = [copy EXCEPT ![s] = NotSaving]
  /\ UNCHANGED <<draft, drafts, answerCuts>>

(* The process ends while it writes; the session is opened again.          *)
CutAnswers(s) ==
  /\ copy[s] # NotSaving /\ answerCuts < MaxAnswerCuts
  /\ readable' = FALSE
  /\ prompt' = [prompt EXCEPT ![s] = NoQuestion]
  /\ copy' = [copy EXCEPT ![s] = NotSaving]
  /\ answerCuts' = answerCuts + 1
  /\ UNCHANGED <<draft, answers, drafts>>

(* A start writes the draft from the issue as it is now.                   *)
WriteDraft ==
  /\ drafts < MaxDrafts
  /\ drafts' = drafts + 1
  /\ draft' \in DraftLists \ {draft}
  /\ UNCHANGED <<answers, readable, prompt, copy, answerCuts>>

AnswersNext ==
  \/ \E s \in Sessions : \/ AskQuestion(s) \/ AskAgain(s) \/ ReadAnswers(s)
                         \/ WriteAnswers(s) \/ CutAnswers(s)
  \/ WriteDraft

(* People answer the questions they are shown.                             *)
AnswersFairness ==
  \A s \in Sessions : /\ WF_answersVars(AskQuestion(s))
                      /\ SF_answersVars(ReadAnswers(s))
                      /\ WF_answersVars(WriteAnswers(s))

AnswersSpec == AnswersInit /\ [][AnswersNext]_answersVars /\ AnswersFairness

-----------------------------------------------------------------------------
(* Properties.                                                             *)

(* The questions of a Work come to an end, whatever sessions overwrite each*)
(* other's answers and whatever a cut write loses.                         *)
ClarificationEnds == <>[](Questions = {})

(* "The answer is persisted as explicit Work context": an answer counts for*)
(* the gap it was given for.                                               *)
AnswersFitTheirGaps ==
  \A n \in DOMAIN Loaded \cap DOMAIN draft : Loaded[n] = draft[n]

=============================================================================
