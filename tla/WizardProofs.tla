---------------------------- MODULE WizardProofs ----------------------------
(***************************************************************************)
(* What the wizard promises the person, for any runtimes, retry limits,    *)
(* artifacts, Bolts, steps and depths, and however long a session lasts:   *)
(* an inductive invariant per part of MCWizard, and from them its          *)
(* properties.                                                             *)
(***************************************************************************)
EXTENDS MCWizard, WellFoundedInduction, TLAPS

LEMMA LeastExists ==
  ASSUME NEW S \in SUBSET Nat, S # {}
  PROVE  \E m \in S : \A k \in S : m <= k
<1> DEFINE R == OpToRel(<, Nat)
<1>1. IsWellFoundedOn(R, Nat)
  BY NatLessThanWellFounded, Zenon
<1>2. \A i, j \in Nat : <<i, j>> \in R <=> i < j
  BY Zenon DEF OpToRel
<1> HIDE DEF R
<1>3. S \subseteq Nat
  OBVIOUS
<1>4. \E m \in S : \A k \in S : ~(<<k, m>> \in R)
  BY <1>1, <1>3, WFMin
<1>5. PICK m \in S : \A k \in S : ~(<<k, m>> \in R)
  BY <1>4
<1>6. \A k \in S : m \in Nat /\ k \in Nat /\ ~(k < m)
  BY <1>2, <1>3, <1>5
<1> QED
  BY <1>6

-----------------------------------------------------------------------------
(* The session.  What bounds the runs is that each of them but the latest  *)
(* was followed by a counted failure of the runtime that is selected now:  *)
(* the counters outlive the input of the person, so that they bound it     *)
(* from above.                                                             *)

(* Runs since the person's last input whose failure is already counted.    *)
Failures == IF pc = "executing" THEN unattended - 1 ELSE unattended

RunsAreCounted ==
  /\ unattended <= RetryLimit + 2
  /\ pc = "executing" => selected # NoRuntime /\ unattended > 0
  /\ pc \in {"run", "executing"} /\ Failures > 0
     => /\ selected # NoRuntime
        /\ Failures <= attempts[selected]
        /\ \/ Failures <= RetryLimit
           \/ selected \in advised /\ Failures <= RetryLimit + 1

(* Advice is given once, to cheap runtimes whose retries are used up; a    *)
(* cheap runtime is given up after it only.                                *)
AdviceIsCounted ==
  /\ \A r \in Runtimes : calls[r] = IF r \in advised THEN 1 ELSE 0
  /\ \A r \in advised : r \in Cheap /\ attempts[r] > RetryLimit
  /\ advice \subseteq advised
  /\ failed \cap Cheap \subseteq advised

(* A runtime that may be given up now has run with the advice it got.      *)
AdviceIsRunWith ==
  /\ previous # 0 => pc \in {"inspect", "over"}
  /\ pc = "executing" \/ (pc = "inspect" /\ previous # 0)
     => (selected \in advice => selected \in repaired)
  /\ failed \cap advice \subseteq repaired

SessionInv ==
  /\ TypeOK /\ RunsAreCounted /\ AdviceIsCounted /\ AdviceIsRunWith
  /\ selected \in failed => selected \in chosen

(* What both loops do with the selected runtime after a failure.           *)
LEMMA FailureIsCounted ==
  ASSUME SessionInv, selected \in Runtimes, NEW to, NEW ask,
         selected \in advice => selected \in repaired,
         \/ CheapRetry(selected, to) \/ Advise(selected, to) \/ GiveUp(selected, ask),
         UNCHANGED <<repaired, chosen>>
  PROVE  /\ attempts' \in [Runtimes -> Nat] /\ calls' \in [Runtimes -> Nat]
         /\ selected' \in Runtimes \cup {NoRuntime}
         /\ failed' \subseteq Runtimes /\ advised' \subseteq Runtimes /\ advice' \subseteq Runtimes
         /\ AdviceIsCounted'
         /\ failed' \cap advice' \subseteq repaired'
         /\ selected' \in failed' => selected' \in chosen'
         /\ attempts'[selected] = attempts[selected] + 1
         /\ \/ pc' = ask
            \/ /\ pc' = to /\ selected' = selected
               /\ \/ attempts'[selected] <= RetryLimit /\ advised' = advised
                  \/ selected \in advised' /\ selected \notin advised
<1> USE RuntimesAssumption, CheapAssumption, RetryAssumption
<1> DEFINE r == selected
<1>1. /\ r \in Runtimes /\ attempts \in [Runtimes -> Nat] /\ calls \in [Runtimes -> Nat]
      /\ failed \subseteq Runtimes /\ advised \subseteq Runtimes /\ advice \subseteq Runtimes
  BY DEF SessionInv, TypeOK
<1>2. attempts' = [attempts EXCEPT ![r] = @ + 1]
  BY DEF CheapRetry, Advise, GiveUp, CallAdvisor, CountAttempt
<1>3. /\ attempts' \in [Runtimes -> Nat] /\ attempts'[r] = attempts[r] + 1
      /\ \A q \in Runtimes : attempts'[q] >= attempts[q]
  BY <1>1, <1>2
<1>4. CASE CheapRetry(r, to)
  <2>1. /\ UNCHANGED <<selected, failed, advised, advice, calls>> /\ pc' = to
        /\ attempts[r] + 1 <= RetryLimit
    BY <1>4 DEF CheapRetry, WithinRetries
  <2>2. AdviceIsCounted'
    BY <1>1, <1>3, <2>1 DEF SessionInv, AdviceIsCounted
  <2> QED
    BY <1>1, <1>3, <2>1, <2>2 DEF SessionInv, AdviceIsRunWith, TypeOK
<1>5. ASSUME CallAdvisor(r)
      PROVE  /\ r \in Cheap /\ r \notin advised /\ r \notin failed /\ r \notin advice
             /\ advised' = advised \cup {r}
             /\ calls' \in [Runtimes -> Nat]
             /\ \A q \in Runtimes : calls'[q] = IF q \in advised' THEN 1 ELSE 0
             /\ \A q \in advised' : q \in Cheap /\ attempts'[q] > RetryLimit
  <2>1. /\ r \in Cheap /\ r \notin advised /\ ~(attempts[r] + 1 <= RetryLimit)
        /\ advised' = advised \cup {r} /\ calls' = [calls EXCEPT ![r] = @ + 1]
    BY <1>5 DEF CallAdvisor, WithinRetries, Advisable
  <2>2. r \notin failed /\ r \notin advice
    BY <2>1 DEF SessionInv, AdviceIsCounted
  <2>3. /\ calls' \in [Runtimes -> Nat] /\ calls'[r] = calls[r] + 1
        /\ \A q \in Runtimes \ {r} : calls'[q] = calls[q]
    BY <1>1, <2>1
  <2>4. \A q \in Runtimes : calls'[q] = IF q \in advised' THEN 1 ELSE 0
    BY <1>1, <2>1, <2>3 DEF SessionInv, AdviceIsCounted
  <2>5. \A q \in advised' : q \in Cheap /\ attempts'[q] > RetryLimit
    BY <1>1, <1>3, <2>1 DEF SessionInv, AdviceIsCounted
  <2> QED
    BY <2>1, <2>2, <2>3, <2>4, <2>5
<1>6. CASE Advise(r, to)
  <2>1. /\ CallAdvisor(r) /\ advice' = advice \cup {r} /\ pc' = to
        /\ UNCHANGED <<selected, failed>>
    BY <1>6 DEF Advise
  <2>2. AdviceIsCounted'
    BY <1>5, <2>1 DEF SessionInv, AdviceIsCounted
  <2> QED
    BY <1>1, <1>3, <1>5, <2>1, <2>2 DEF SessionInv, AdviceIsRunWith, TypeOK
<1>7. CASE GiveUp(r, ask)
  <2>1. /\ failed' = failed \cup {r} /\ selected' = NoRuntime /\ pc' = ask /\ advice' = advice
    BY <1>7 DEF GiveUp
  <2>2. AdviceIsCounted'
    <3>1. CASE CallAdvisor(r)
      BY <1>5, <2>1, <3>1 DEF SessionInv, AdviceIsCounted
    <3>2. CASE ~WithinRetries(r) /\ ~Advisable(r) /\ UNCHANGED <<advised, calls>>
      BY <1>1, <1>3, <2>1, <3>2 DEF SessionInv, AdviceIsCounted, Advisable
    <3> QED
      BY <1>7, <3>1, <3>2 DEF GiveUp
  <2>3. advised' \subseteq Runtimes /\ calls' \in [Runtimes -> Nat]
    BY <1>1, <1>5, <1>7 DEF GiveUp
  <2> QED
    BY <1>1, <1>3, <2>1, <2>2, <2>3 DEF SessionInv, AdviceIsRunWith, TypeOK
<1> QED
  BY <1>4, <1>6, <1>7

LEMMA InspectionCarries ==
  ASSUME SessionInv, InspectClear \/ InspectNoProgress \/ InspectDecision
  PROVE  SessionInv'
<1> USE RuntimesAssumption, RetryAssumption, BoundsAssumption
<1>1. CASE InspectClear
  <2>1. /\ pc = "inspect" /\ pc' = "over"
        /\ UNCHANGED <<core, held, previous, selected, ledgers, unattended, chosen, confirms>>
    BY <1>1 DEF InspectClear
  <2>2. TypeOK'
    BY <2>1 DEF SessionInv, TypeOK, ledgers, Steps
  <2>3. RunsAreCounted' /\ AdviceIsCounted' /\ AdviceIsRunWith'
    BY <2>1 DEF SessionInv, RunsAreCounted, AdviceIsCounted, AdviceIsRunWith, ledgers
  <2> QED
    BY <2>1, <2>2, <2>3 DEF SessionInv, ledgers
<1>2. CASE InspectNoProgress
  <2>1. /\ pc = "inspect" /\ previous # 0 /\ held' = core /\ previous' = 0
        /\ UNCHANGED <<core, repaired, unattended, chosen, confirms>>
    BY <1>2 DEF InspectNoProgress, NoProgress
  <2>2. CASE selected = NoRuntime
    <3>1. pc' = "retry" /\ UNCHANGED <<selected, failed, attempts, advised, advice, calls>>
      BY <1>2, <2>2 DEF InspectNoProgress
    <3>2. TypeOK'
      BY <2>1, <3>1 DEF SessionInv, TypeOK, Steps, Human
    <3>3. RunsAreCounted' /\ AdviceIsCounted' /\ AdviceIsRunWith'
      BY <2>1, <3>1 DEF SessionInv, RunsAreCounted, AdviceIsCounted, AdviceIsRunWith
    <3> QED
      BY <2>1, <3>1, <3>2, <3>3 DEF SessionInv
  <2>3. CASE selected # NoRuntime
    <3>1. selected \in Runtimes /\ (selected \in advice => selected \in repaired)
      BY <2>1, <2>3 DEF SessionInv, TypeOK, AdviceIsRunWith
    <3>2. \/ CheapRetry(selected, "inspect") \/ Advise(selected, "inspect")
          \/ GiveUp(selected, "retry")
      BY <1>2, <2>3 DEF InspectNoProgress
    <3>3. /\ attempts' \in [Runtimes -> Nat] /\ calls' \in [Runtimes -> Nat]
          /\ selected' \in Runtimes \cup {NoRuntime}
          /\ failed' \subseteq Runtimes /\ advised' \subseteq Runtimes
          /\ advice' \subseteq Runtimes
          /\ AdviceIsCounted'
          /\ failed' \cap advice' \subseteq repaired'
          /\ selected' \in failed' => selected' \in chosen'
          /\ pc' \in {"inspect", "retry"}
      BY <2>1, <3>1, <3>2, FailureIsCounted
    <3>4. TypeOK'
      BY <2>1, <3>3 DEF SessionInv, TypeOK, Steps, Human
    <3>5. RunsAreCounted' /\ AdviceIsRunWith'
      BY <2>1, <3>3 DEF SessionInv, RunsAreCounted, AdviceIsRunWith
    <3> QED
      BY <3>3, <3>4, <3>5 DEF SessionInv
  <2> QED
    BY <2>2, <2>3
<1>3. CASE InspectDecision
  <2>1. /\ pc = "inspect" /\ held' = core /\ previous' = 0
        /\ pc' \in {"question", "card"}
        /\ selected' = selected \/ selected' \in Runtimes \ failed
        /\ UNCHANGED <<core, ledgers, unattended, chosen, confirms>>
    BY <1>3 DEF InspectDecision, Recommended
  <2>2. TypeOK'
    BY <2>1 DEF SessionInv, TypeOK, ledgers, Steps, Human
  <2>3. RunsAreCounted' /\ AdviceIsCounted' /\ AdviceIsRunWith'
    BY <2>1 DEF SessionInv, RunsAreCounted, AdviceIsCounted, AdviceIsRunWith, ledgers
  <2> QED
    BY <2>1, <2>2, <2>3 DEF SessionInv, ledgers
<1> QED
  BY <1>1, <1>2, <1>3

(* Whatever the person does, the count of runs starts again.               *)
LEMMA PersonStartsAgain ==
  ASSUME SessionInv, Person
  PROVE  SessionInv'
<1> USE RuntimesAssumption, RetryAssumption, BoundsAssumption
<1>1. /\ unattended' = 0 /\ pc \in Human \cup {"run"} /\ pc' \in Steps \ {"executing"}
      /\ UNCHANGED <<core, held, previous, ledgers>>
      /\ confirms' \in 0 .. MaxConfirms
      /\ \/ UNCHANGED <<selected, chosen>>
         \/ selected' \in Runtimes /\ chosen' = chosen \cup {selected'}
  <2>1. pc \in Human \/ (pc = "run" /\ SelectRuntime)
    BY DEF Person, Exit, Answer, Adjust, ConfirmCard, ConfirmRetry, SelectRuntime, Human
  <2>2. pc \in Human => pc \in Steps \ {"executing"}
    BY DEF Human, Steps
  <2>3. confirms \in 0 .. MaxConfirms
    BY DEF SessionInv, TypeOK
  <2>4. Confirm => confirms' \in 0 .. MaxConfirms
    BY <2>3 DEF Confirm
  <2>5. CASE Exit
    BY <2>1, <2>3, <2>5 DEF Exit, Steps
  <2>6. CASE Answer
    BY <2>1, <2>3, <2>6 DEF Answer, Steps, Human
  <2>7. CASE Adjust
    BY <2>2, <2>3, <2>7 DEF Adjust
  <2>8. CASE ConfirmCard
    <3>1. pc' \in {"over", "run", "inspect"}
      BY <2>8 DEF ConfirmCard
    <3> QED
      BY <2>4, <2>8, <3>1 DEF ConfirmCard, Confirm, Steps, Human
  <2>9. CASE ConfirmRetry
    BY <2>4, <2>9 DEF ConfirmRetry, Confirm, Steps, Human
  <2>10. CASE SelectRuntime
    BY <2>3, <2>10 DEF SelectRuntime, Steps, Human
  <2> QED
    BY <2>5, <2>6, <2>7, <2>8, <2>9, <2>10 DEF Person
<1>2. previous = 0
  BY <1>1 DEF SessionInv, AdviceIsRunWith, Human
<1>3. TypeOK'
  BY <1>1 DEF SessionInv, TypeOK, ledgers, Steps, Human
<1>4. RunsAreCounted'
  BY <1>1 DEF RunsAreCounted, Failures
<1>5. AdviceIsCounted' /\ AdviceIsRunWith'
  BY <1>1, <1>2 DEF SessionInv, AdviceIsCounted, AdviceIsRunWith, ledgers
<1> QED
  BY <1>1, <1>3, <1>4, <1>5 DEF SessionInv, ledgers

LEMMA RunsCarry ==
  ASSUME SessionInv, Execute \/ ExecutionCompletes \/ ExecutionFails
  PROVE  SessionInv'
<1> USE RuntimesAssumption, RetryAssumption
<1>1. CASE Execute
  <2>1. /\ pc = "run" /\ selected # NoRuntime /\ pc' = "executing"
        /\ unattended' = unattended + 1
        /\ repaired' = repaired \cup ({selected} \cap advice)
        /\ UNCHANGED <<core, held, previous, selected, failed, attempts, advised, advice,
                       calls, chosen, confirms>>
    BY <1>1 DEF Execute
  <2>2. TypeOK'
    BY <2>1 DEF SessionInv, TypeOK, Steps
  <2>3. unattended \in Nat /\ selected \in Runtimes /\ attempts[selected] \in Nat
    BY <2>1 DEF SessionInv, TypeOK
  <2>4. Failures' = unattended /\ Failures = unattended
    BY <2>1, <2>3 DEF Failures
  <2>5. RunsAreCounted'
    BY <2>1, <2>3, <2>4 DEF SessionInv, RunsAreCounted
  <2>6. AdviceIsCounted' /\ AdviceIsRunWith'
    BY <2>1 DEF SessionInv, AdviceIsCounted, AdviceIsRunWith
  <2> QED
    BY <2>1, <2>2, <2>5, <2>6 DEF SessionInv
<1>2. CASE ExecutionCompletes
  <2>1. /\ pc = "executing" /\ previous' = held.version /\ pc' = "inspect"
        /\ UNCHANGED <<core, held, selected, ledgers, unattended, chosen, confirms>>
    BY <1>2 DEF ExecutionCompletes
  <2>2. held.version \in 0 .. MaxVersions + 1
    BY BoundsAssumption DEF SessionInv, TypeOK, Decision
  <2>3. TypeOK'
    BY <2>1, <2>2 DEF SessionInv, TypeOK, ledgers, Steps
  <2>4. RunsAreCounted' /\ AdviceIsCounted' /\ AdviceIsRunWith'
    BY <2>1 DEF SessionInv, RunsAreCounted, AdviceIsCounted, AdviceIsRunWith, ledgers
  <2> QED
    BY <2>1, <2>3, <2>4 DEF SessionInv, ledgers
<1>3. CASE ExecutionFails
  <2>1. /\ pc = "executing" /\ UNCHANGED <<core, held, previous, repaired, unattended, chosen, confirms>>
        /\ \/ CheapRetry(selected, "run") \/ Advise(selected, "run")
           \/ GiveUp(selected, "failure")
    BY <1>3 DEF ExecutionFails
  <2>2. /\ selected \in Runtimes /\ (selected \in advice => selected \in repaired)
        /\ unattended \in Nat /\ attempts[selected] \in Nat
    BY <2>1 DEF SessionInv, TypeOK, RunsAreCounted, AdviceIsRunWith
  <2>3. /\ attempts' \in [Runtimes -> Nat] /\ calls' \in [Runtimes -> Nat]
        /\ selected' \in Runtimes \cup {NoRuntime}
        /\ failed' \subseteq Runtimes /\ advised' \subseteq Runtimes
        /\ advice' \subseteq Runtimes
        /\ AdviceIsCounted'
        /\ failed' \cap advice' \subseteq repaired'
        /\ selected' \in failed' => selected' \in chosen'
        /\ attempts'[selected] = attempts[selected] + 1
        /\ \/ pc' = "failure"
           \/ /\ pc' = "run" /\ selected' = selected
              /\ \/ attempts'[selected] <= RetryLimit /\ advised' = advised
                 \/ selected \in advised' /\ selected \notin advised
    BY <2>1, <2>2, FailureIsCounted
  <2>4. TypeOK'
    BY <2>1, <2>3 DEF SessionInv, TypeOK, Steps, Human
  <2>5. previous = 0 /\ unattended > 0
    BY <2>1 DEF SessionInv, AdviceIsRunWith, RunsAreCounted
  <2>6. AdviceIsRunWith'
    BY <2>1, <2>3, <2>5 DEF AdviceIsRunWith
  <2>7. Failures = unattended - 1 /\ Failures' = unattended
    BY <2>1, <2>2, <2>3 DEF Failures
  <2>8. /\ unattended <= RetryLimit + 2
        /\ Failures > 0 => /\ Failures <= attempts[selected]
                           /\ \/ Failures <= RetryLimit
                              \/ selected \in advised /\ Failures <= RetryLimit + 1
    BY <2>1 DEF SessionInv, RunsAreCounted
  <2>9. unattended <= attempts[selected] + 1
    BY <2>2, <2>7, <2>8
  <2>10. RunsAreCounted'
    <3>1. CASE pc' = "failure"
      BY <2>1, <2>8, <3>1 DEF RunsAreCounted
    <3>2. CASE /\ pc' = "run" /\ selected' = selected
               /\ attempts'[selected] <= RetryLimit
      <4>1. unattended <= attempts'[selected]
        BY <2>3, <2>9
      <4>2. unattended <= RetryLimit
        BY <2>2, <2>3, <3>2, <4>1
      <4> QED
        BY <2>1, <2>2, <2>7, <2>8, <3>2, <4>1, <4>2 DEF RunsAreCounted, SessionInv, TypeOK
    <3>3. CASE /\ pc' = "run" /\ selected' = selected
               /\ selected \in advised' /\ selected \notin advised
      <4>1. unattended <= attempts'[selected]
        BY <2>3, <2>9
      <4>2. unattended <= RetryLimit + 1
        BY <2>2, <2>7, <2>8, <3>3
      <4> QED
        BY <2>1, <2>2, <2>7, <2>8, <3>3, <4>1, <4>2 DEF RunsAreCounted
    <3> QED
      BY <2>3, <3>1, <3>2, <3>3
  <2> QED
    BY <2>3, <2>4, <2>6, <2>10 DEF SessionInv
<1> QED
  BY <1>1, <1>2, <1>3

LEMMA SessionCarries ==
  ASSUME SessionInv, Next \/ UNCHANGED vars
  PROVE  SessionInv'
<1>1. CASE Automatic \/ Person
  BY <1>1, InspectionCarries, PersonStartsAgain, RunsCarry DEF Automatic
<1>2. CASE WorkChanges
  <2>1. /\ core.version <= MaxVersions
        /\ core' \in [version : {core.version + 1}, action : Actions]
        /\ UNCHANGED <<held, previous, selected, ledgers, pc, unattended, chosen, confirms>>
    BY <1>2 DEF WorkChanges
  <2>2. core' \in Decision
    BY <2>1, BoundsAssumption DEF SessionInv, TypeOK, Decision
  <2>3. TypeOK'
    BY <2>1, <2>2 DEF SessionInv, TypeOK, ledgers
  <2>4. RunsAreCounted' /\ AdviceIsCounted' /\ AdviceIsRunWith'
    BY <2>1 DEF SessionInv, RunsAreCounted, Failures, AdviceIsCounted, AdviceIsRunWith, ledgers
  <2> QED
    BY <2>1, <2>3, <2>4 DEF SessionInv, ledgers
<1>3. CASE UNCHANGED vars
  <2>1. TypeOK'
    BY <1>3 DEF SessionInv, TypeOK, vars
  <2>2. RunsAreCounted' /\ AdviceIsCounted' /\ AdviceIsRunWith'
    BY <1>3 DEF SessionInv, RunsAreCounted, Failures, AdviceIsCounted, AdviceIsRunWith, vars
  <2> QED
    BY <1>3, <2>1, <2>2 DEF SessionInv, vars
<1> QED
  BY <1>1, <1>2, <1>3 DEF Next

LEMMA SessionBegins ==
  ASSUME Init
  PROVE  SessionInv
<1> USE RuntimesAssumption, RetryAssumption, BoundsAssumption
<1>1. TypeOK
  BY DEF Init, TypeOK, Decision, Steps, Actions
<1>2. RunsAreCounted /\ AdviceIsCounted /\ AdviceIsRunWith
  BY DEF Init, RunsAreCounted, AdviceIsCounted, AdviceIsRunWith
<1> QED
  BY <1>1, <1>2 DEF SessionInv, Init

-----------------------------------------------------------------------------
(* The bar.  The gates list the artifacts in the order of the steps that   *)
(* produce them, and the Intent, whose step comes before the clarification,*)
(* is registered by the start.                                             *)

Stages == {"inception", "construction", "operations"}

ViewInv ==
  /\ stage \in Stages /\ target \in DeliveryTargets
  /\ absent \subseteq Range(RequiredArtifacts[stage])
  /\ stage = "inception" => "intent" \notin absent

LEMMA BarCarries ==
  ASSUME ViewInv, ViewNext \/ UNCHANGED viewVars
  PROVE  ViewInv'
<1>1. CASE Transition
  <2>1. /\ stage \in {"inception", "construction"} /\ stage' = Following[stage]
        /\ absent' = Range(RequiredArtifacts[stage']) /\ target' = target
    BY <1>1 DEF Transition, ViewInv, Stages
  <2>2. stage' \in {"construction", "operations"}
    BY <2>1 DEF Following
  <2> QED
    BY <2>1, <2>2 DEF ViewInv, Stages
<1>2. ASSUME absent' \subseteq absent, UNCHANGED <<stage, target>>
      PROVE  ViewInv'
  BY <1>2 DEF ViewInv
<1>3. ViewNext /\ ~Transition => absent' \subseteq absent /\ UNCHANGED <<stage, target>>
  BY DEF ViewNext, RegisterArtifact, RecordEvidence, CloseCriteria, Clarify, GiveApproval
<1>4. UNCHANGED viewVars => absent' \subseteq absent /\ UNCHANGED <<stage, target>>
  BY DEF viewVars
<1> QED
  BY <1>1, <1>2, <1>3, <1>4

LEMMA BarBegins ==
  ASSUME ViewInit
  PROVE  ViewInv
BY DEF ViewInit, ViewInv, Stages

(* No step before that of an artifact is that of one the gate lists later. *)
LEMMA GatesFollowTheSteps ==
  ASSUME NEW s \in Stages, NEW m \in DOMAIN RequiredArtifacts[s],
         NEW n \in DOMAIN RequiredArtifacts[s], m <= n,
         NEW j \in DOMAIN PhaseSteps[s], NEW k \in DOMAIN PhaseSteps[s], j < k,
         PhaseSteps[s][k] = ArtifactStep(RequiredArtifacts[s][m])
  PROVE  PhaseSteps[s][j] # ArtifactStep(RequiredArtifacts[s][n])
<1>1. CASE s = "inception"
  <2> DEFINE steps == <<"understand", "clarify", "level-1-plan", "stories",
                        "nfr-risk", "units", "bolts">>
             kinds == <<"intent", "plan", "requirements", "nfr", "unit-of-work",
                        "bolt-plan">>
  <2>1. PhaseSteps[s] = steps /\ RequiredArtifacts[s] = kinds
    BY <1>1 DEF PhaseSteps, RequiredArtifacts
  <2>2. /\ DOMAIN steps = 1 .. 7 /\ DOMAIN kinds = 1 .. 6
    OBVIOUS
  <2>3. /\ ArtifactStep(kinds[1]) = steps[1] /\ ArtifactStep(kinds[2]) = steps[3]
        /\ ArtifactStep(kinds[3]) = steps[4] /\ ArtifactStep(kinds[4]) = steps[5]
        /\ ArtifactStep(kinds[5]) = steps[6] /\ ArtifactStep(kinds[6]) = steps[7]
    BY DEF ArtifactStep
  <2>4. \A a, b \in 1 .. 7 : steps[a] = steps[b] => a = b
    OBVIOUS
  <2>5. \A i \in 1 .. 6 : ArtifactStep(kinds[i]) = steps[IF i = 1 THEN 1 ELSE i + 1]
    BY <2>3
  <2> HIDE DEF steps, kinds
  <2> QED
    BY <2>1, <2>2, <2>4, <2>5
<1>2. CASE s = "construction"
  <2> DEFINE steps == <<"semantic-elevation", "domain-design", "logical-design",
                        "implementation", "testing", "deployment-unit">>
             kinds == <<"domain-model", "logical-design", "implementation-plan",
                        "test-strategy", "deployment-unit">>
  <2>1. PhaseSteps[s] = steps /\ RequiredArtifacts[s] = kinds
    BY <1>2 DEF PhaseSteps, RequiredArtifacts
  <2>2. /\ DOMAIN steps = 1 .. 6 /\ DOMAIN kinds = 1 .. 5
    OBVIOUS
  <2>3. /\ ArtifactStep(kinds[1]) = steps[2] /\ ArtifactStep(kinds[2]) = steps[3]
        /\ ArtifactStep(kinds[3]) = steps[4] /\ ArtifactStep(kinds[4]) = steps[5]
        /\ ArtifactStep(kinds[5]) = steps[6]
    BY DEF ArtifactStep
  <2>4. \A a, b \in 1 .. 6 : steps[a] = steps[b] => a = b
    OBVIOUS
  <2>5. \A i \in 1 .. 5 : ArtifactStep(kinds[i]) = steps[i + 1]
    BY <2>3
  <2> HIDE DEF steps, kinds
  <2> QED
    BY <2>1, <2>2, <2>4, <2>5
<1>3. CASE s = "operations"
  <2>1. /\ PhaseSteps[s] = <<"deployment", "observability", "feedback">>
        /\ RequiredArtifacts[s] = <<"operational-readiness", "rollback-procedure">>
    BY <1>3 DEF PhaseSteps, RequiredArtifacts
  <2>2. m \in 1 .. 2 /\ j \in 1 .. 3 /\ k \in 1 .. 3
    BY <2>1
  <2>3. ArtifactStep(RequiredArtifacts[s][m]) = "deployment"
    BY <2>1, <2>2 DEF ArtifactStep
  <2>4. k = 1
    BY <2>1, <2>2, <2>3
  <2> QED
    BY <2>2, <2>4
<1> QED
  BY <1>1, <1>2, <1>3 DEF Stages

LEMMA TicksAreBacked ==
  ASSUME ViewInv
  PROVE  TickedStepsHaveArtifacts
<1> SUFFICES ASSUME NEW kind \in absent PROVE ArtifactStep(kind) \notin Ticked
  BY DEF TickedStepsHaveArtifacts
<1> DEFINE kinds == RequiredArtifacts[stage]
<1>1. PICK n \in DOMAIN kinds : kind = kinds[n]
  BY DEF ViewInv, Range
<1>2. Ticked = Before(CurrentStep)
  BY DEF Ticked, PhaseComplete, OpenObligations
<1>3. CASE stage # "operations" \/ target = "none"
  <2>1. ShownSteps = PhaseSteps[stage] /\ CurrentStep = PhaseStep
    BY <1>3 DEF ShownSteps, CurrentStep
  <2>2. CASE stage = "inception" /\ unclear
    <3>1. CurrentStep = "clarify" /\ kind # "intent"
      BY <2>1, <2>2 DEF PhaseStep, ViewInv
    <3>2. Before("clarify") \subseteq {"understand"}
      <4>1. PhaseSteps[stage] = <<"understand", "clarify", "level-1-plan", "stories",
                                  "nfr-risk", "units", "bolts">>
        BY <2>2 DEF PhaseSteps
      <4>2. \A k \in 1 .. 7 : PhaseSteps[stage][k] = "clarify" => k = 2
        BY <4>1
      <4>3. DOMAIN PhaseSteps[stage] = 1 .. 7 /\ PhaseSteps[stage][1] = "understand"
        BY <4>1
      <4>4. \A j, k \in 1 .. 7 : j < k /\ PhaseSteps[stage][k] = "clarify" => j = 1
        BY <4>2
      <4> QED
        BY <2>1, <4>3, <4>4 DEF Before
    <3>3. ArtifactStep(kind) # "understand"
      BY <3>1 DEF ArtifactStep
    <3> QED
      BY <1>2, <3>1, <3>2, <3>3
  <2>3. CASE ~(stage = "inception" /\ unclear)
    <3> DEFINE First(m) == m \in MissingPlaces /\ \A j \in MissingPlaces : m <= j
               m == CHOOSE i \in MissingPlaces : \A j \in MissingPlaces : i <= j
    <3>1. CurrentStep = ArtifactStep(kinds[m])
      BY <2>1, <2>3 DEF PhaseStep, MissingStep
    <3>2. DOMAIN kinds \subseteq Nat
      BY DEF ViewInv, Stages, RequiredArtifacts
    <3>3. n \in MissingPlaces /\ MissingPlaces \subseteq DOMAIN kinds
      BY <1>1 DEF MissingPlaces
    <3>4. m \in MissingPlaces /\ \A j \in MissingPlaces : m <= j
      <4>1. \E i \in MissingPlaces : \A j \in MissingPlaces : i <= j
        BY <3>2, <3>3, LeastExists
      <4> QED
        BY <4>1
    <3>5. m \in DOMAIN kinds /\ m <= n
      BY <3>3, <3>4
    <3> HIDE DEF m
    <3>6. ASSUME NEW j \in DOMAIN ShownSteps, NEW k \in DOMAIN ShownSteps,
                 j < k, ShownSteps[k] = CurrentStep
          PROVE  ShownSteps[j] # ArtifactStep(kind)
      BY <1>1, <2>1, <3>1, <3>5, <3>6, GatesFollowTheSteps DEF ViewInv
    <3> QED
      BY <1>2, <3>6 DEF Before
  <2> QED
    BY <2>2, <2>3
<1>4. CASE stage = "operations" /\ target # "none"
  <2>1. kind \in {"operational-readiness", "rollback-procedure"}
    BY <1>4 DEF ViewInv, RequiredArtifacts, Range
  <2>2. ArtifactStep(kind) = "deployment"
    BY <2>1 DEF ArtifactStep
  <2>3. \A j \in DOMAIN ShownSteps : ShownSteps[j] # "deployment"
    BY <1>4 DEF ShownSteps
  <2> QED
    BY <1>2, <2>2, <2>3 DEF Before
<1> QED
  BY <1>3, <1>4

-----------------------------------------------------------------------------
(* Bolts.  Every document anybody relies on was accepted; what else counts *)
(* is that its statuses are those of a Bolt's life.                        *)

BoltRecords ==
  [mode : Modes, writes : SUBSET Paths, dependsOn : SUBSET Bolts,
   status : Statuses, evidence : BOOLEAN]

BoltDocs ==
  [revision : Nat, approval : {"pending", "approved", "rejected"},
   approvedBy : BOOLEAN, approvedRevision : Nat, bolts : [Bolts -> BoltRecords]]

BoltInv == doc \in BoltDocs /\ Accepted(doc)

(* What was completed holds its dependencies, so that it holds everything  *)
(* a Bolt whose dependencies are done rests on.                            *)
LEMMA AncestorsAreCompleted ==
  ASSUME BoltInv, NEW b \in Bolts, DependenciesDone(doc.bolts, b),
         NEW a \in Ancestors(doc.bolts)[b]
  PROVE  doc.bolts[a].status = "completed"
<1> DEFINE S == {x \in Bolts : doc.bolts[x].status = "completed"}
<1>1. \A x \in Bolts : doc.bolts[x].dependsOn \subseteq Bolts
  BY DEF BoltInv, BoltDocs, BoltRecords
<1>2. \A x \in S : \A y \in doc.bolts[x].dependsOn : doc.bolts[y].status = "completed"
  BY DEF BoltInv, Accepted, DependenciesDone
<1>3. \A y \in doc.bolts[b].dependsOn : doc.bolts[y].status = "completed"
  BY DEF DependenciesDone
<1>4. S \in Holding(doc.bolts, b)
  BY <1>1, <1>2, <1>3 DEF Holding
<1>5. a \in {x \in Bolts : \A T \in Holding(doc.bolts, b) : x \in T}
  BY DEF Ancestors
<1> QED
  BY <1>4, <1>5

LEMMA LiveBoltsAreDisjoint ==
  ASSUME BoltInv
  PROVE  ConcurrentBoltsAreDisjoint
<1> DEFINE live == {b \in Bolts : doc.bolts[b].status = "running"} \union Ready(doc)
<1>1. \A b \in live : /\ b \in Bolts /\ DependenciesDone(doc.bolts, b)
                      /\ doc.bolts[b].status # "completed"
  BY DEF BoltInv, Accepted, Ready
<1>2. ASSUME NEW b \in live, NEW c \in live, b < c
      PROVE  ~Clash(doc.bolts, b, c)
  <2>1. b \notin Ancestors(doc.bolts)[c]
    BY <1>1, AncestorsAreCompleted
  <2> QED
    BY <1>1, <1>2, <2>1 DEF BoltInv, Accepted, Conflict
<1>3. ASSUME NEW b \in live, NEW c \in live, b # c
      PROVE  ~Clash(doc.bolts, b, c)
  <2>1. b \in Nat /\ c \in Nat
    BY <1>1, BoltAssumption DEF Bolts
  <2>2. CASE b < c
    BY <1>2, <2>2
  <2>3. CASE c < b
    BY <1>2, <2>3 DEF Clash, Overlaps
  <2> QED
    BY <1>3, <2>1, <2>2, <2>3
<1> QED
  BY <1>3 DEF ConcurrentBoltsAreDisjoint, Clash, Overlaps

LEMMA AcceptedPlansProceed ==
  ASSUME BoltInv
  PROVE  PlanCanProceed
<1> SUFFICES ASSUME ~Complete(doc), \A b \in Bolts : doc.bolts[b].status # "failed"
             PROVE  \E b \in Bolts :
                      \/ doc.bolts[b].status = "running"
                      \/ /\ doc.bolts[b].status \in {"proposed", "approved"}
                         /\ DependenciesDone(doc.bolts, b)
  BY DEF PlanCanProceed
<1> DEFINE open == {b \in Bolts : doc.bolts[b].status # "completed"}
<1>1. open # {} /\ open \subseteq Nat
  BY BoltAssumption DEF Complete, Bolts
<1>2. PICK b \in open : \A c \in open : b <= c
  <2> HIDE DEF open
  <2> QED
    BY <1>1, LeastExists
<1>3. b \in Bolts /\ doc.bolts[b].status \in Statuses
  BY DEF BoltInv, BoltDocs, BoltRecords
<1>4. \A a \in doc.bolts[b].dependsOn : a \in Bolts /\ a < b
  BY <1>3, BoltAssumption DEF BoltInv, Accepted, NamesEarlierBolts, Bolts
<1>5. DependenciesDone(doc.bolts, b)
  <2> SUFFICES ASSUME NEW a \in doc.bolts[b].dependsOn
               PROVE  doc.bolts[a].status = "completed"
    BY DEF DependenciesDone
  <2>1. a \in Bolts /\ a < b
    BY <1>4
  <2> QED
    BY <1>2, <1>3, <2>1, BoltAssumption DEF Bolts
<1> QED
  BY <1>3, <1>5 DEF Statuses

LEMMA FieldsKeepTheirTypes ==
  ASSUME NEW d \in BoltDocs, NEW b \in Bolts
  PROVE  /\ \A v \in Modes : [d EXCEPT !.bolts[b].mode = v] \in BoltDocs
         /\ \A v \in SUBSET Paths : [d EXCEPT !.bolts[b].writes = v] \in BoltDocs
         /\ \A v \in SUBSET Bolts : [d EXCEPT !.bolts[b].dependsOn = v] \in BoltDocs
         /\ \A v \in Statuses : [d EXCEPT !.bolts[b].status = v] \in BoltDocs
         /\ \A v \in BOOLEAN : [d EXCEPT !.bolts[b].evidence = v] \in BoltDocs
<1>1. \A x \in BoltRecords : [d EXCEPT !.bolts[b] = x] \in BoltDocs
  <2> HIDE DEF BoltRecords
  <2> QED
    BY DEF BoltDocs
<1> DEFINE x == d.bolts[b]
<1>2. x \in BoltRecords
  BY DEF BoltDocs
<1>3. /\ \A v \in Modes : [x EXCEPT !.mode = v] \in BoltRecords
      /\ \A v \in SUBSET Paths : [x EXCEPT !.writes = v] \in BoltRecords
      /\ \A v \in SUBSET Bolts : [x EXCEPT !.dependsOn = v] \in BoltRecords
      /\ \A v \in Statuses : [x EXCEPT !.status = v] \in BoltRecords
      /\ \A v \in BOOLEAN : [x EXCEPT !.evidence = v] \in BoltRecords
  <2> HIDE DEF x
  <2> QED
    BY <1>2 DEF BoltRecords
<1> HIDE DEF BoltRecords
<1>4. ASSUME NEW v \in Modes
      PROVE  [d EXCEPT !.bolts[b].mode = v] \in BoltDocs
  <2>1. [d EXCEPT !.bolts[b].mode = v] = [d EXCEPT !.bolts[b] = [x EXCEPT !.mode = v]]
    OBVIOUS
  <2> HIDE DEF x
  <2>2. [x EXCEPT !.mode = v] \in BoltRecords
    BY <1>3
  <2> QED
    BY <1>1, <2>1, <2>2
<1>5. ASSUME NEW v \in SUBSET Paths
      PROVE  [d EXCEPT !.bolts[b].writes = v] \in BoltDocs
  <2>1. [d EXCEPT !.bolts[b].writes = v] = [d EXCEPT !.bolts[b] = [x EXCEPT !.writes = v]]
    OBVIOUS
  <2> HIDE DEF x
  <2>2. [x EXCEPT !.writes = v] \in BoltRecords
    BY <1>3
  <2> QED
    BY <1>1, <2>1, <2>2
<1>6. ASSUME NEW v \in SUBSET Bolts
      PROVE  [d EXCEPT !.bolts[b].dependsOn = v] \in BoltDocs
  <2>1. [d EXCEPT !.bolts[b].dependsOn = v] = [d EXCEPT !.bolts[b] = [x EXCEPT !.dependsOn = v]]
    OBVIOUS
  <2> HIDE DEF x
  <2>2. [x EXCEPT !.dependsOn = v] \in BoltRecords
    BY <1>3
  <2> QED
    BY <1>1, <2>1, <2>2
<1>7. ASSUME NEW v \in Statuses
      PROVE  [d EXCEPT !.bolts[b].status = v] \in BoltDocs
  <2>1. [d EXCEPT !.bolts[b].status = v] = [d EXCEPT !.bolts[b] = [x EXCEPT !.status = v]]
    OBVIOUS
  <2> HIDE DEF x
  <2>2. [x EXCEPT !.status = v] \in BoltRecords
    BY <1>3
  <2> QED
    BY <1>1, <2>1, <2>2
<1>8. ASSUME NEW v \in BOOLEAN
      PROVE  [d EXCEPT !.bolts[b].evidence = v] \in BoltDocs
  <2>1. [d EXCEPT !.bolts[b].evidence = v] = [d EXCEPT !.bolts[b] = [x EXCEPT !.evidence = v]]
    OBVIOUS
  <2> HIDE DEF x
  <2>2. [x EXCEPT !.evidence = v] \in BoltRecords
    BY <1>3
  <2> QED
    BY <1>1, <2>1, <2>2
<1> QED
  BY <1>4, <1>5, <1>6, <1>7, <1>8

LEMMA BoltsCarry ==
  ASSUME BoltInv, BoltNext \/ UNCHANGED boltVars
  PROVE  BoltInv'
<1>1. /\ doc.revision \in Nat /\ doc.bolts \in [Bolts -> BoltRecords]
      /\ doc \in BoltDocs
  BY DEF BoltInv, BoltDocs, BoltRecords
<1>2. ASSUME NEW d \in BoltDocs, Written(d)
      PROVE  BoltInv'
  BY <1>2 DEF Written, BoltInv
<1>3. \A b \in Bolts : \A c \in Contents(b) :
        c.mode \in Modes /\ c.dependsOn \subseteq Bolts /\ c.writes \subseteq Paths
  BY DEF Contents
<1>4. ASSUME NEW b \in Bolts, Revise(b)
      PROVE  BoltInv'
  <2>1. PICK c \in Contents(b) :
         Written([revision |-> doc.revision + 1, approval |-> "pending",
                  approvedBy |-> FALSE, approvedRevision |-> 0,
                  bolts |-> [x \in Bolts |-> NewBolt(IF x = b THEN c
                                                     ELSE Content(doc.bolts)[x])]])
    BY <1>4 DEF Revise
  <2> DEFINE new == [x \in Bolts |-> NewBolt(IF x = b THEN c ELSE Content(doc.bolts)[x])]
  <2>2. \A x \in Bolts : new[x] \in BoltRecords
    BY <1>1, <1>3 DEF NewBolt, Content, Statuses, BoltRecords
  <2>3. new \in [Bolts -> BoltRecords]
    BY <2>2
  <2> HIDE DEF new
  <2>4. [revision |-> doc.revision + 1, approval |-> "pending", approvedBy |-> FALSE,
         approvedRevision |-> 0, bolts |-> new] \in BoltDocs
    BY <1>1, <2>3 DEF BoltDocs
  <2> QED
    BY <1>2, <2>1, <2>4 DEF new
<1>5. ASSUME NEW b \in Bolts, EditInPlace(b)
      PROVE  BoltInv'
  <2>1. PICK c \in Contents(b) :
         Written([doc EXCEPT !.bolts[b].mode = c.mode, !.bolts[b].writes = c.writes,
                             !.bolts[b].dependsOn = c.dependsOn])
    BY <1>5 DEF EditInPlace
  <2>2. c.mode \in Modes /\ c.dependsOn \subseteq Bolts /\ c.writes \subseteq Paths
    BY <1>3
  <2> DEFINE d == [doc EXCEPT !.bolts[b].mode = c.mode, !.bolts[b].writes = c.writes,
                              !.bolts[b].dependsOn = c.dependsOn]
             d1 == [doc EXCEPT !.bolts[b].mode = c.mode]
             d2 == [d1 EXCEPT !.bolts[b].writes = c.writes]
             d3 == [d2 EXCEPT !.bolts[b].dependsOn = c.dependsOn]
  <2>3. d = d3
    OBVIOUS
  <2>4. d1 \in BoltDocs
    BY <1>1, <2>2, FieldsKeepTheirTypes
  <2> HIDE DEF d1
  <2>5. d2 \in BoltDocs
    BY <2>4, <2>2, FieldsKeepTheirTypes
  <2> HIDE DEF d2
  <2>6. d3 \in BoltDocs
    BY <2>5, <2>2, FieldsKeepTheirTypes
  <2> HIDE DEF d3
  <2>7. Written(d)
    BY <2>1
  <2> HIDE DEF d
  <2> QED
    BY <1>2, <2>3, <2>6, <2>7
<1>6. ASSUME Decide
      PROVE  BoltInv'
  <2>1. [doc EXCEPT !.approval = "approved", !.approvedBy = TRUE,
                    !.approvedRevision = doc.revision] \in BoltDocs
    BY <1>1 DEF BoltDocs
  <2>2. [doc EXCEPT !.approval = "rejected"] \in BoltDocs
    BY <1>1 DEF BoltDocs
  <2> QED
    BY <1>2, <1>6, <2>1, <2>2 DEF Decide
<1>7. \A b \in Bolts : \A s \in Statuses : Status(b, s) \in BoltDocs
  <2> SUFFICES ASSUME NEW b \in Bolts, NEW s \in Statuses
               PROVE  [doc EXCEPT !.bolts[b].status = s] \in BoltDocs
    BY DEF Status
  <2> QED
    BY <1>1, FieldsKeepTheirTypes
<1>8. ASSUME NEW b \in Bolts, Start(b)
      PROVE  BoltInv'
  BY <1>2, <1>7, <1>8 DEF Start, Statuses
<1>9. ASSUME NEW b \in Bolts, NEW s \in Statuses, Step(b, s)
      PROVE  BoltInv'
  <2>1. PICK e \in BOOLEAN : Written([Status(b, s) EXCEPT !.bolts[b].evidence = e])
    BY <1>9 DEF Step
  <2> DEFINE d == Status(b, s)
  <2>2. d \in BoltDocs
    BY <1>7
  <2> HIDE DEF d
  <2>3. [d EXCEPT !.bolts[b].evidence = e] \in BoltDocs
    BY <2>2, FieldsKeepTheirTypes
  <2> QED
    BY <1>2, <2>1, <2>3 DEF d
<1>10. CASE UNCHANGED boltVars
  BY <1>10 DEF BoltInv, boltVars
<1> QED
  BY <1>4, <1>5, <1>6, <1>8, <1>9, <1>10 DEF BoltNext

LEMMA BoltsBegin ==
  ASSUME BoltInit
  PROVE  BoltInv
<1>1. PICK c \in [Bolts -> UNION {Contents(b) : b \in Bolts}] :
        /\ \A b \in Bolts : c[b] \in Contents(b)
        /\ doc = [revision |-> 1, approval |-> "pending", approvedBy |-> FALSE,
                  approvedRevision |-> 0, bolts |-> [b \in Bolts |-> NewBolt(c[b])]]
  BY DEF BoltInit
<1>2. \A b \in Bolts : /\ c[b].mode \in Modes /\ c[b].dependsOn \subseteq Bolts
                       /\ c[b].writes \subseteq Paths
  BY <1>1 DEF Contents
<1>3. \A b \in Bolts : NewBolt(c[b]) \in BoltRecords
  BY <1>2 DEF NewBolt, Statuses, BoltRecords
<1>4. doc \in BoltDocs
  BY <1>1, <1>3 DEF BoltDocs
<1> QED
  BY <1>4 DEF BoltInit, BoltInv

-----------------------------------------------------------------------------
(* The Level-N plan.  A plan decides of every step, and what a depth asks  *)
(* for includes what the weaker ones do.                                   *)

PathwayInv == plan.steps \in [StepIds -> Decisions] /\ profile \in Depths

LEMMA PathwayCarries ==
  ASSUME PathwayInv, PathwayNext \/ UNCHANGED pathwayVars
  PROVE  PathwayInv'
<1>1. ASSUME NEW s \in StepIds, NEW d \in Decisions, RevisePlan(s, d)
      PROVE  PathwayInv'
  <2>1. /\ plan' = [plan EXCEPT !.steps[s] = d, !.revision = @ + 1,
                               !.approval = "pending", !.approvedRevision = 0]
        /\ profile' = profile
    BY <1>1 DEF RevisePlan
  <2>2. plan'.steps = [plan.steps EXCEPT ![s] = d]
    BY <2>1
  <2> QED
    BY <2>1, <2>2 DEF PathwayInv
<1>2. CASE ApprovePlan
  BY <1>2 DEF ApprovePlan, PathwayInv
<1>3. ASSUME NEW s \in StepIds, ExecuteStep(s)
      PROVE  PathwayInv'
  BY <1>3 DEF ExecuteStep, PathwayInv
<1>4. ASSUME NEW d \in Depths, ActivateProfile(d)
      PROVE  PathwayInv'
  BY <1>4 DEF ActivateProfile, PathwayInv
<1>5. CASE UNCHANGED pathwayVars
  BY <1>5 DEF pathwayVars, PathwayInv
<1> QED
  BY <1>1, <1>2, <1>3, <1>4, <1>5 DEF PathwayNext

LEMMA PathwayBegins ==
  ASSUME PathwayInit
  PROVE  PathwayInv
BY DEF PathwayInit, PathwayInv

LEMMA PlansOweNothing ==
  ASSUME PathwayInv
  PROVE  NothingOwed /\ DepthOnlyAdds
<1> USE PathwayAssumption DEF Depths
<1>1. ASSUME NEW d \in Depths, NEW e \in Depths, e <= d
      PROVE  MandatoryFor(e) \subseteq MandatoryFor(d)
  <2>1. 0 .. e \subseteq 0 .. d
    BY <1>1
  <2> QED
    BY <2>1 DEF MandatoryFor
<1>2. DepthOnlyAdds
  BY <1>1 DEF DepthOnlyAdds, Authorized
<1>3. NothingOwed
  <2> DEFINE depth == EffectiveDepth(profile)
             owed == (Mandatory \union (UNION {Requires[e] : e \in Depths \intersect (0 .. profile)})
                                \union (UNION {Requires[e] : e \in 0 .. MinimumDepth})) \ Exempt
  <2> SUFFICES ASSUME Authorized(plan, depth), Executed(plan) \subseteq done, NEW s \in owed
               PROVE  s \in done
    BY DEF NothingOwed
  <2>1. depth \in Depths /\ profile <= depth /\ MinimumDepth <= depth
    BY DEF EffectiveDepth, PathwayInv
  <2>2. depth \in Nat /\ profile \in Nat /\ MinimumDepth \in Nat
    BY <2>1 DEF PathwayInv
  <2>3. 0 .. profile \subseteq 0 .. depth /\ 0 .. MinimumDepth \subseteq 0 .. depth
    BY <2>1, <2>2
  <2> HIDE DEF depth
  <2>4. s \in MandatoryFor(depth)
    <3>1. CASE s \in Mandatory \ Exempt
      BY <3>1 DEF MandatoryFor
    <3>2. ASSUME NEW e \in 0 .. depth, s \in Requires[e] \ Exempt
          PROVE  s \in MandatoryFor(depth)
      BY <3>2 DEF MandatoryFor
    <3>3. \/ s \in Mandatory \ Exempt
          \/ \E e \in 0 .. profile : s \in Requires[e] \ Exempt
          \/ \E e \in 0 .. MinimumDepth : s \in Requires[e] \ Exempt
      OBVIOUS
    <3> QED
      BY <2>3, <3>1, <3>2, <3>3
  <2>5. s \in StepIds
    <3>1. \A d \in 0 .. depth : Requires[d] \subseteq StepIds
      BY <2>1, <2>2
    <3>2. Mandatory \subseteq StepIds
      BY DEF AllowedSteps
    <3> QED
      BY <2>4, <3>1, <3>2 DEF MandatoryFor
  <2>6. plan.steps[s] \in Decisions \ {"absent", "skip"}
    BY <2>4, <2>5 DEF Authorized, PathwayInv
  <2> QED
    BY <2>5, <2>6 DEF Executed, Decisions
<1> QED
  BY <1>2, <1>3

-----------------------------------------------------------------------------
(* The parts side by side: the one that moves keeps its invariant.         *)

WizardInv ==
  /\ part = "session" => SessionInv
  /\ part = "view" => ViewInv
  /\ part = "bolts" => BoltInv
  /\ part = "pathway" => PathwayInv

(* Whatever moves, the invariants of the session, the bar and the plans    *)
(* are kept.                                                               *)
THEOREM WizardInvariance == WizardSpec => []WizardInv
<1>1. WizardInit => WizardInv
  BY SessionBegins, BarBegins, BoltsBegin, PathwayBegins DEF WizardInit, WizardInv
<1>2. WizardInv /\ [WizardNext]_<<vars, answersVars, viewVars, planVars, part>> => WizardInv'
  <2> SUFFICES ASSUME WizardInv, [WizardNext]_<<vars, answersVars, viewVars, planVars, part>> PROVE WizardInv'
    OBVIOUS
  <2> USE DEF WizardInv
  <2>1. CASE SessionStep(Next)
    BY <2>1, SessionCarries DEF SessionStep
  <2>2. CASE AnswersStep(AnswersNext)
    <3>1. UNCHANGED <<vars, viewVars, boltVars, pathwayVars, part>>
      BY <2>2 DEF AnswersStep, planVars
    <3> QED
      BY <3>1, SessionCarries, BarCarries, BoltsCarry, PathwayCarries
  <2>3. CASE ViewStep(ViewNext)
    BY <2>3, BarCarries DEF ViewStep
  <2>4. CASE BoltStep(BoltNext)
    BY <2>4, BoltsCarry DEF BoltStep
  <2>5. CASE PathwayStep(PathwayNext)
    BY <2>5, PathwayCarries DEF PathwayStep
  <2>6. CASE UNCHANGED <<vars, answersVars, viewVars, planVars, part>>
    <3>1. UNCHANGED <<vars, viewVars, boltVars, pathwayVars, part>>
      BY <2>6 DEF planVars
    <3> QED
      BY <3>1, SessionCarries, BarCarries, BoltsCarry, PathwayCarries
  <2> QED
    BY <2>1, <2>2, <2>3, <2>4, <2>5, <2>6 DEF WizardNext
<1> QED
  BY <1>1, <1>2, PTL DEF WizardSpec

(* "retry_limits bounds automatic retries": for any limit, runtimes and    *)
(* decisions the person gets at most RetryLimit + 2 runs of an executor for*)
(* one input, a paid advisor is called once per cheap runtime and only     *)
(* after its retries, its advice is run with before the runtime is given   *)
(* up, and a runtime given up comes back by the person's choice only       *)
(* (run_interactive).                                                      *)
THEOREM SessionsStayBounded == WizardSpec => []SessionsAreBounded
<1>1. WizardInv => SessionsAreBounded
  <2> SUFFICES ASSUME SessionInv
               PROVE  /\ UnattendedRunsBounded /\ AdviceIsLastResort /\ AdviceIsTried
                      /\ FailedRunsOnlyByChoice
    BY DEF WizardInv, SessionsAreBounded
  <2>1. AdviceIsLastResort
    BY DEF SessionInv, AdviceIsCounted, AdviceIsLastResort
  <2>2. UnattendedRunsBounded /\ AdviceIsTried /\ FailedRunsOnlyByChoice
    BY DEF SessionInv, RunsAreCounted, AdviceIsRunWith, UnattendedRunsBounded, AdviceIsTried,
           FailedRunsOnlyByChoice
  <2> QED
    BY <2>1, <2>2
<1> QED
  BY <1>1, WizardInvariance, PTL

(* The bar ticks no step whose artifact the gate misses, in whatever order *)
(* artifacts, evidence and approvals arrive (build_wizard_view).           *)
THEOREM BarStaysBacked == WizardSpec => []BarIsBacked
<1>1. WizardInv => BarIsBacked
  BY TicksAreBacked DEF WizardInv, BarIsBacked
<1> QED
  BY <1>1, WizardInvariance, PTL

(* Whatever is proposed, edited, approved and started, Bolts that run or   *)
(* are ready together write to disjoint places, and an approved plan none  *)
(* of whose Bolts failed has a Bolt to go on with (parse_bolt_plan).       *)
THEOREM BoltPlansStaySafe == WizardSpec => []BoltPlansAreSafe
<1>1. WizardInv => BoltPlansAreSafe
  BY LiveBoltsAreDisjoint, AcceptedPlansProceed DEF WizardInv, BoltPlansAreSafe
<1> QED
  BY <1>1, WizardInvariance, PTL

(* A plan whose authorised steps are all carried out owes nothing to the   *)
(* pathway at any profile's depth (validate_adaptive_plan).                *)
THEOREM PathwayPlansStayComplete == WizardSpec => []PathwayPlansAreComplete
<1>1. WizardInv => PathwayPlansAreComplete
  BY PlansOweNothing DEF WizardInv, PathwayPlansAreComplete
<1> QED
  BY <1>1, WizardInvariance, PTL

=============================================================================
