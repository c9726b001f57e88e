--------------------------- MODULE RecordsProofs ---------------------------
(***************************************************************************)
(* What the records beside a Work promise, for any number of commits,      *)
(* observations, findings, revisions, callers and documents: an inductive  *)
(* invariant per part, and from them the properties of MCRecords.          *)
(***************************************************************************)
EXTENDS MCRecords, WellFoundedInduction, TLAPS

-----------------------------------------------------------------------------
(* Delivery snapshots.  Request and run are read apart; what joins them is *)
(* that the request carries the outcomes of its head's runs, so that a     *)
(* read request whose head is green is the expected commit at one instant. *)

NormalizedForms ==
  [approved : BOOLEAN, commit : Commits, status : RunStates, at : Nat,
   blockers : SUBSET {"stale", "unbound", "unsuccessful", "unapproved"}]

SnapshotTypes ==
  /\ provider \in {"github", "gitlab"}
  /\ forge \in [head : Nat, approved : BOOLEAN, runs : [Commits -> RunStates]]
  /\ prRead = Nothing \/ prRead.approved \in BOOLEAN
  /\ runRead = Nothing \/ runRead \in [kind : {"run"}, commit : Commits, status : RunStates]
  /\ ledger \in Seq(NormalizedForms)
  /\ tick \in Nat

ReadsAreJoined ==
  prRead # Nothing /\ prRead.approved =>
    \A item \in prRead.rollup : (item[1] = expected /\ item[2] = "success") => genuine

LedgerIsOrdered ==
  provider = "gitlab" =>
    \A i \in 1 .. Len(ledger) :
      ledger[i].at <= tick /\ \A j \in 1 .. Len(ledger) : i <= j => ledger[i].at <= ledger[j].at

SnapshotInv ==
  /\ SnapshotTypes
  /\ Green(forge) => genuine
  /\ ReadsAreJoined /\ LedgerIsOrdered
  /\ AllowedWasTrueAtOnce /\ LedgerFollowsProvider

LEMMA SnapshotsBegin == SnapshotInit => SnapshotInv
<1> SUFFICES ASSUME SnapshotInit PROVE SnapshotInv
  OBVIOUS
<1>1. SnapshotTypes
  BY DEF SnapshotInit, SnapshotTypes, RunStates
<1>2. Len(ledger) = 0 /\ ~Green(forge) /\ prRead = Nothing /\ ~behind
  BY DEF SnapshotInit, Green
<1>3. ReadsAreJoined /\ LedgerIsOrdered /\ AllowedWasTrueAtOnce /\ LedgerFollowsProvider
  BY <1>2 DEF ReadsAreJoined, LedgerIsOrdered, AllowedWasTrueAtOnce, LedgerFollowsProvider
<1> QED
  BY <1>1, <1>2, <1>3 DEF SnapshotInv

(* However the provider changes, what was green stays known to have been.  *)
LEMMA BecomesKeeps ==
  ASSUME SnapshotInv, NEW f \in [head : Nat, approved : BOOLEAN, runs : [Commits -> RunStates]],
         Becomes(f)
  PROVE  SnapshotInv'
<1>1. /\ UNCHANGED <<provider, expected, prRead, runRead, ledger, behind, tick>>
      /\ forge' = f /\ genuine' = (genuine \/ Green(f))
  BY DEF Becomes
<1>2. SnapshotTypes'
  BY <1>1 DEF SnapshotInv, SnapshotTypes, NormalizedForms
<1>3. (Green(forge) => genuine)' /\ (genuine => genuine')
  BY <1>1 DEF Green
<1>4. ReadsAreJoined'
  BY <1>1, <1>3 DEF SnapshotInv, ReadsAreJoined
<1>5. LedgerIsOrdered'
  BY <1>1 DEF SnapshotInv, LedgerIsOrdered
<1>6. AllowedWasTrueAtOnce' /\ LedgerFollowsProvider'
  BY <1>1, <1>3 DEF SnapshotInv, AllowedWasTrueAtOnce, LedgerFollowsProvider
<1> QED
  BY <1>2, <1>3, <1>4, <1>5, <1>6 DEF SnapshotInv

LEMMA ProviderKeeps ==
  ASSUME SnapshotInv, Push \/ Review \/ Checks
  PROVE  SnapshotInv'
<1> USE DEF SnapshotInv, SnapshotTypes
<1>1. CASE Push
  <2>1. PICK a \in BOOLEAN : Becomes([forge EXCEPT !.head = @ + 1, !.approved = a])
    BY <1>1 DEF Push
  <2>2. [forge EXCEPT !.head = @ + 1] \in [head : Nat, approved : BOOLEAN, runs : [Commits -> RunStates]]
    OBVIOUS
  <2>3. [[forge EXCEPT !.head = @ + 1] EXCEPT !.approved = a]
          \in [head : Nat, approved : BOOLEAN, runs : [Commits -> RunStates]]
    <3> DEFINE pushed == [forge EXCEPT !.head = @ + 1]
    <3> HIDE DEF pushed
    <3>1. pushed \in [head : Nat, approved : BOOLEAN, runs : [Commits -> RunStates]]
      BY <2>2 DEF pushed
    <3>2. [pushed EXCEPT !.approved = a]
            \in [head : Nat, approved : BOOLEAN, runs : [Commits -> RunStates]]
      BY <3>1
    <3> QED
      BY <3>2 DEF pushed
  <2> QED
    BY <2>1, <2>3, BecomesKeeps
<1>2. CASE Review
  <2>1. PICK a \in BOOLEAN : Becomes([forge EXCEPT !.approved = a])
    BY <1>2 DEF Review
  <2>2. [forge EXCEPT !.approved = a]
          \in [head : Nat, approved : BOOLEAN, runs : [Commits -> RunStates]]
    OBVIOUS
  <2> QED
    BY <2>1, <2>2, BecomesKeeps
<1>3. CASE Checks
  <2>1. PICK c \in 1 .. forge.head, s \in RunStates \ {"none"} : Becomes([forge EXCEPT !.runs[c] = s])
    BY <1>3 DEF Checks
  <2>2. [forge EXCEPT !.runs[c] = s]
          \in [head : Nat, approved : BOOLEAN, runs : [Commits -> RunStates]]
    OBVIOUS
  <2> QED
    BY <2>1, <2>2, BecomesKeeps
<1> QED
  BY <1>1, <1>2, <1>3

LEMMA ReadingKeeps ==
  ASSUME SnapshotInv, ReadPullRequest \/ ReadRun \/ Tick
  PROVE  SnapshotInv'
<1>1. UNCHANGED <<provider, expected, forge, ledger, behind, genuine>>
  BY DEF ReadPullRequest, ReadRun, Tick
<1>2. tick \in Nat /\ tick' \in Nat /\ tick <= tick'
  BY DEF SnapshotInv, SnapshotTypes, ReadPullRequest, ReadRun, Tick
<1>3. prRead' = prRead \/ prRead' = PullRequest(forge)
  BY DEF ReadPullRequest, ReadRun, Tick
<1>4. runRead' = runRead \/ \E c \in Commits : runRead' = Run(forge, c)
  BY DEF ReadPullRequest, ReadRun, Tick
<1>5. SnapshotTypes'
  BY <1>1, <1>2, <1>3, <1>4
     DEF SnapshotInv, SnapshotTypes, PullRequest, Run, NormalizedForms
<1>6. ReadsAreJoined'
  <2>1. CASE prRead' = prRead
    BY <1>1, <2>1 DEF SnapshotInv, ReadsAreJoined
  <2>2. CASE prRead' = PullRequest(forge)
    <3> SUFFICES ASSUME prRead'.approved, NEW item \in prRead'.rollup,
                        item[1] = expected, item[2] = "success"
                 PROVE  genuine
      BY <1>1 DEF ReadsAreJoined
    <3>1. item = <<forge.head, forge.runs[forge.head]>> /\ forge.approved
      BY <2>2 DEF PullRequest
    <3>2. Green(forge)
      BY <3>1 DEF Green
    <3> QED
      BY <3>2 DEF SnapshotInv
  <2> QED
    BY <1>3, <2>1, <2>2
<1>7. LedgerIsOrdered'
  <2> SUFFICES ASSUME provider = "gitlab", NEW i \in 1 .. Len(ledger)
               PROVE  /\ ledger[i].at <= tick'
                      /\ \A j \in 1 .. Len(ledger) : i <= j => ledger[i].at <= ledger[j].at
    BY <1>1 DEF LedgerIsOrdered
  <2>1. ledger[i] \in NormalizedForms
    BY DEF SnapshotInv, SnapshotTypes
  <2>2. ledger[i].at \in Nat
    BY <2>1 DEF NormalizedForms
  <2> QED
    BY <1>2, <2>2 DEF SnapshotInv, LedgerIsOrdered
<1>8. AllowedWasTrueAtOnce' /\ LedgerFollowsProvider' /\ (Green(forge) => genuine)'
  BY <1>1 DEF SnapshotInv, AllowedWasTrueAtOnce, LedgerFollowsProvider, Green
<1> QED
  BY <1>5, <1>6, <1>7, <1>8 DEF SnapshotInv

(* An observation without blockers: the request's head was green when the  *)
(* request was read.                                                       *)
LEMMA UnblockedIsGenuine ==
  ASSUME SnapshotInv, provider = "github", prRead # Nothing, Blockers(prRead, runRead) = {}
  PROVE  genuine
<1>1. /\ runRead.commit = expected /\ RollupBlockers(prRead, runRead) = {}
      /\ prRead.approved
  BY DEF Blockers
<1>2. \E item \in prRead.rollup : item[1] = runRead.commit /\ item[2] = "success"
  BY <1>1 DEF RollupBlockers
<1> QED
  BY <1>1, <1>2 DEF SnapshotInv, ReadsAreJoined

LEMMA NormalizedIsTyped ==
  ASSUME SnapshotInv, prRead # Nothing, runRead # Nothing
  PROVE  /\ Normalized(prRead, runRead) \in NormalizedForms
         /\ provider = "gitlab" => Normalized(prRead, runRead).at = tick
         /\ Normalized(prRead, runRead).blockers = Blockers(prRead, runRead)
<1>1. Blockers(prRead, runRead) \in SUBSET {"stale", "unbound", "unsuccessful", "unapproved"}
  <2>1. RollupBlockers(prRead, runRead) \in SUBSET {"stale", "unbound", "unsuccessful", "unapproved"}
    BY DEF RollupBlockers
  <2>2. HeadPipelineBlockers(prRead, runRead) \in SUBSET {"stale", "unbound", "unsuccessful", "unapproved"}
    BY DEF HeadPipelineBlockers
  <2> QED
    BY <2>1, <2>2 DEF Blockers
<1>2. prRead.approved \in BOOLEAN /\ runRead.commit \in Commits /\ runRead.status \in RunStates
      /\ tick \in Nat
  BY DEF SnapshotInv, SnapshotTypes
<1> QED
  BY <1>1, <1>2 DEF Normalized, NormalizedForms

LEMMA ObserveKeeps ==
  ASSUME SnapshotInv, Observe
  PROVE  SnapshotInv'
<1> DEFINE s == Normalized(prRead, runRead)
           n == Len(ledger)
<1>1. /\ prRead # Nothing /\ runRead # Nothing
      /\ prRead' = Nothing /\ runRead' = Nothing
      /\ UNCHANGED <<provider, expected, forge, tick, genuine>>
  BY DEF Observe
<1>2. \/ UNCHANGED <<ledger, behind>>
      \/ /\ ledger' = (IF InLedger(s) THEN ledger ELSE Append(ledger, s))
         /\ behind' = ~(ledger'[Len(ledger')] = s
                        \/ (provider = "gitlab" /\ s.at = ledger'[Len(ledger')].at))
  BY DEF Observe
<1>3. /\ s \in NormalizedForms
      /\ provider = "gitlab" => s.at = tick
      /\ s.blockers = Blockers(prRead, runRead)
  BY <1>1, NormalizedIsTyped
<1>4. provider = "github" /\ s.blockers = {} => genuine
  BY <1>1, <1>3, UnblockedIsGenuine
<1>5. /\ ledger \in Seq(NormalizedForms) /\ n \in Nat /\ tick \in Nat
      /\ \A i \in 1 .. n : ledger[i] \in NormalizedForms
  BY DEF SnapshotInv, SnapshotTypes
<1>6. \A i \in 1 .. n : ledger[i].at \in Nat
  BY <1>5 DEF NormalizedForms
<1> HIDE DEF s
<1>7. (Green(forge) => genuine)' /\ ReadsAreJoined'
  BY <1>1 DEF SnapshotInv, Green, ReadsAreJoined
<1>8. CASE ledger' = Append(ledger, s) /\ behind' = ~(ledger'[Len(ledger')] = s
                        \/ (provider = "gitlab" /\ s.at = ledger'[Len(ledger')].at))
  <2>0. ASSUME NEW q \in Seq(NormalizedForms), NEW x \in NormalizedForms
        PROVE  /\ Append(q, x) \in Seq(NormalizedForms) /\ Len(Append(q, x)) = Len(q) + 1
               /\ Append(q, x)[Len(q) + 1] = x
               /\ \A i \in 1 .. Len(q) : Append(q, x)[i] = q[i]
    OBVIOUS
  <2>a. /\ Append(ledger, s) \in Seq(NormalizedForms) /\ Len(Append(ledger, s)) = n + 1
        /\ Append(ledger, s)[n + 1] = s
        /\ \A i \in 1 .. n : Append(ledger, s)[i] = ledger[i]
    BY <1>3, <1>5, <2>0, Zenon
  <2>1. Len(ledger') = n + 1 /\ ledger' \in Seq(NormalizedForms)
    BY <1>8, <2>a
  <2>2. ledger'[n + 1] = s /\ \A i \in 1 .. n : ledger'[i] = ledger[i]
    BY <1>8, <2>a
  <2> HIDE DEF n
  <2>3. \A i \in 1 .. (n + 1) : i \in 1 .. n \/ i = n + 1
    BY <1>5
  <2>4. SnapshotTypes'
    BY <1>1, <1>3, <2>1 DEF SnapshotInv, SnapshotTypes, NormalizedForms
  <2>5. AllowedWasTrueAtOnce'
    <3> SUFFICES ASSUME NEW i \in 1 .. (n + 1), provider = "github", ledger'[i].blockers = {}
                 PROVE  genuine
      BY <1>1, <2>1 DEF AllowedWasTrueAtOnce
    <3> QED
      BY <1>4, <2>2, <2>3 DEF SnapshotInv, AllowedWasTrueAtOnce, n
  <2>6. LedgerFollowsProvider'
    BY <1>8, <2>1, <2>2 DEF LedgerFollowsProvider
  <2>7. LedgerIsOrdered'
    <3> SUFFICES ASSUME provider = "gitlab", NEW i \in 1 .. (n + 1)
                 PROVE  /\ ledger'[i].at <= tick
                        /\ \A j \in 1 .. (n + 1) : i <= j => ledger'[i].at <= ledger'[j].at
      BY <1>1, <2>1 DEF LedgerIsOrdered
    <3>1. \A k \in 1 .. n : /\ ledger[k].at <= tick
                           /\ \A j \in 1 .. n : k <= j => ledger[k].at <= ledger[j].at
      BY DEF SnapshotInv, LedgerIsOrdered, n
    <3>2. CASE i = n + 1
      <4>1. ledger'[i].at = tick
        BY <1>3, <2>2, <3>2
      <4>2. ASSUME NEW j \in 1 .. (n + 1), i <= j PROVE j = i
        BY <1>5, <3>2, <4>2
      <4> QED
        BY <1>5, <4>1, <4>2
    <3>3. CASE i \in 1 .. n
      <4>1. ledger'[i].at <= tick
        BY <2>2, <3>1, <3>3
      <4>2. ASSUME NEW j \in 1 .. (n + 1), i <= j
            PROVE  ledger'[i].at <= ledger'[j].at
        <5>1. CASE j = n + 1
          BY <1>3, <2>2, <4>1, <5>1
        <5>2. CASE j \in 1 .. n
          BY <2>2, <3>1, <3>3, <4>2, <5>2
        <5> QED
          BY <2>3, <5>1, <5>2
      <4> QED
        BY <4>1, <4>2
    <3> QED
      BY <2>3, <3>2, <3>3
  <2> QED
    BY <1>7, <2>4, <2>5, <2>6, <2>7 DEF SnapshotInv
<1>9. CASE ledger' = ledger
  <2>1. SnapshotTypes'
    BY <1>1, <1>9 DEF SnapshotInv, SnapshotTypes, NormalizedForms
  <2>2. AllowedWasTrueAtOnce' /\ LedgerIsOrdered'
    BY <1>1, <1>9 DEF SnapshotInv, AllowedWasTrueAtOnce, LedgerIsOrdered
  <2>3. LedgerFollowsProvider'
    <3>1. CASE behind' = behind
      BY <1>1, <3>1 DEF SnapshotInv, LedgerFollowsProvider
    <3>2. CASE behind' # behind
      <4> SUFFICES ASSUME provider = "gitlab" PROVE s.at = ledger[n].at
        BY <1>1, <1>2, <1>9, <3>2 DEF LedgerFollowsProvider
      <4>1. Append(ledger, s) # ledger
        <5>1. Len(Append(ledger, s)) = n + 1
          BY <1>3, <1>5
        <5> QED
          BY <1>5, <5>1
      <4>2. InLedger(s)
        BY <1>2, <1>9, <3>2, <4>1
      <4>3. PICK i \in 1 .. n : ledger[i] = s
        BY <4>2 DEF InLedger
      <4>4. n \in 1 .. n /\ i <= n
        BY <1>5
      <4>5. /\ ledger[n].at <= tick
            /\ \A j \in 1 .. n : i <= j => ledger[i].at <= ledger[j].at
        BY <4>4 DEF SnapshotInv, LedgerIsOrdered
      <4>6. s.at = tick /\ ledger[i].at <= ledger[n].at
        BY <1>3, <4>4, <4>5
      <4> QED
        BY <1>5, <1>6, <4>3, <4>4, <4>5, <4>6
    <3> QED
      BY <3>1, <3>2
  <2> QED
    BY <1>7, <2>1, <2>2, <2>3 DEF SnapshotInv
<1> QED
  BY <1>2, <1>8, <1>9

LEMMA SnapshotsStep == SnapshotInv /\ SnapshotNext => SnapshotInv'
BY ProviderKeeps, ReadingKeeps, ObserveKeeps DEF SnapshotNext

-----------------------------------------------------------------------------
(* The regulated profile.  The swarm may change at any time, so that the   *)
(* invariant is about the calls: one that passed require_ready_swarm saw   *)
(* the duties segregated, and one that wrote its audit record still has it.*)

Preparing == {"ready", "signed", "audited"}

CallType ==
  {NoCall}
  \union [step : {"assign"}, role : RequiredRoles, actor : SwarmActors]
  \union [step : Preparing, kind : {"transition", "evidence"}, actor : SwarmActors,
          record : RecordIds, evidence : EvidenceIds, segregated : BOOLEAN]

RegulatedTypeOK ==
  /\ call \in [Callers -> CallType]
  /\ audit \in [RecordIds -> [evidence : EvidenceIds \union {"none"}]]
  /\ actions \subseteq [kind : {"transition", "evidence"}, evidence : EvidenceIds,
                        segregated : BOOLEAN]

SawSegregation == \A h \in Callers : call[h].step \in Preparing => call[h].segregated

KeepsItsRecord ==
  \A h \in Callers : call[h].step = "audited" => audit[call[h].record].evidence = call[h].evidence

RInv ==
  RegulatedTypeOK /\ SawSegregation /\ KeepsItsRecord
  /\ PreparedBySegregatedSwarm /\ EvidenceIsRetained

(* A swarm the profile calls ready has its duties segregated               *)
(* (assess_assignments against the reference).                             *)
LEMMA ReadySwarmIsSegregated == SwarmReady => Segregated(assigned)
BY DEF SwarmReady, Segregated, HeldBy, InvalidHolders, Combined

(* A step that leaves audit records and actions alone, and in which every  *)
(* call stays as it is or becomes one that prepares nothing, keeps RInv.   *)
LEMMA QuietStep ==
  ASSUME RInv, UNCHANGED <<audit, actions>>, call' \in [Callers -> CallType],
         \A h \in Callers : call'[h] = call[h] \/ call'[h].step \notin Preparing
  PROVE  RInv'
<1>1. RegulatedTypeOK'
  BY DEF RInv, RegulatedTypeOK
<1>2. SawSegregation'
  BY DEF RInv, SawSegregation
<1>3. KeepsItsRecord'
  BY DEF RInv, KeepsItsRecord, Preparing
<1>4. PreparedBySegregatedSwarm' /\ EvidenceIsRetained'
  BY DEF RInv, PreparedBySegregatedSwarm, EvidenceIsRetained
<1> QED
  BY <1>1, <1>2, <1>3, <1>4 DEF RInv

LEMMA RegulatedInitially == RegulatedInit => RInv
BY DEF RegulatedInit, RInv, RegulatedTypeOK, CallType, SawSegregation, KeepsItsRecord, NoCall,
       NoAuditRecord, PreparedBySegregatedSwarm, EvidenceIsRetained, Preparing

LEMMA AssessAssignmentKeeps ==
  ASSUME RInv, NEW h \in Callers, AssessAssignment(h)
  PROVE  RInv'
<1>1. PICK r \in RequiredRoles, a \in SwarmActors :
        call' = [call EXCEPT ![h] = [step |-> "assign", role |-> r, actor |-> a]]
  BY DEF AssessAssignment
<1>2. [step |-> "assign", role |-> r, actor |-> a] \in CallType
  BY DEF CallType
<1>3. call' \in [Callers -> CallType]
  BY <1>1, <1>2 DEF RInv, RegulatedTypeOK
<1>4. \A g \in Callers : call'[g] = call[g] \/ call'[g].step \notin Preparing
  BY <1>1 DEF RInv, RegulatedTypeOK, Preparing
<1> QED
  BY <1>3, <1>4, QuietStep DEF AssessAssignment

LEMMA EndingKeeps ==
  ASSUME RInv, NEW h \in Callers, call' = [call EXCEPT ![h] = NoCall], UNCHANGED <<audit, actions>>
  PROVE  RInv'
<1>1. call' \in [Callers -> CallType]
  BY DEF RInv, RegulatedTypeOK, CallType
<1>2. \A g \in Callers : call'[g] = call[g] \/ call'[g].step \notin Preparing
  BY DEF RInv, RegulatedTypeOK, Preparing, NoCall
<1> QED
  BY <1>1, <1>2, QuietStep

LEMMA RequireReadySwarmKeeps ==
  ASSUME RInv, NEW h \in Callers, RequireReadySwarm(h)
  PROVE  RInv'
<1>1. PICK a \in SwarmActors, kind \in {"transition", "evidence"}, i \in RecordIds, e \in EvidenceIds :
        call' = [call EXCEPT ![h] = [step |-> "ready", kind |-> kind, actor |-> a, record |-> i,
                                     evidence |-> e, segregated |-> Segregated(assigned)]]
  BY DEF RequireReadySwarm
<1>2. Segregated(assigned)
  BY ReadySwarmIsSegregated DEF RequireReadySwarm
<1> DEFINE new == [step |-> "ready", kind |-> kind, actor |-> a, record |-> i,
                   evidence |-> e, segregated |-> TRUE]
<1>3. call' = [call EXCEPT ![h] = new]
  BY <1>1, <1>2, Zenon
<1>4. new \in CallType
  BY DEF CallType, Preparing
<1>5. UNCHANGED <<audit, actions>>
  BY DEF RequireReadySwarm
<1>6. RegulatedTypeOK'
  BY <1>3, <1>4, <1>5 DEF RInv, RegulatedTypeOK
<1>7. \A g \in Callers : call'[g] = call[g] \/ call'[g] = new
  BY <1>3 DEF RInv, RegulatedTypeOK
<1>8. SawSegregation'
  BY <1>7 DEF RInv, SawSegregation
<1>9. KeepsItsRecord'
  BY <1>5, <1>7 DEF RInv, KeepsItsRecord
<1>10. PreparedBySegregatedSwarm' /\ EvidenceIsRetained'
  BY <1>5 DEF RInv, PreparedBySegregatedSwarm, EvidenceIsRetained
<1> QED
  BY <1>6, <1>8, <1>9, <1>10 DEF RInv

(* What the type says of a call that is preparing an action.               *)
LEMMA PreparingCall ==
  ASSUME RInv, NEW h \in Callers, call[h].step \in Preparing
  PROVE  call[h] \in [step : Preparing, kind : {"transition", "evidence"}, actor : SwarmActors,
                      record : RecordIds, evidence : EvidenceIds, segregated : BOOLEAN]
<1>1. call[h] \in CallType
  BY DEF RInv, RegulatedTypeOK
<1> QED
  BY <1>1 DEF CallType, Preparing, NoCall

LEMMA RequireSignedActorKeeps ==
  ASSUME RInv, NEW h \in Callers, RequireSignedActor(h)
  PROVE  RInv'
<1>1. CASE call[h].actor \notin signing
  <2>1. call' = [call EXCEPT ![h] = NoCall] /\ UNCHANGED <<audit, actions>>
    BY <1>1 DEF RequireSignedActor
  <2> QED
    BY <2>1, EndingKeeps
<1>2. CASE call[h].actor \in signing
  <2> DEFINE new == [call[h] EXCEPT !.step = "signed"]
  <2>1. call' = [call EXCEPT ![h] = new] /\ UNCHANGED <<audit, actions>>
    BY <1>2 DEF RequireSignedActor
  <2>2. call[h] \in [step : Preparing, kind : {"transition", "evidence"}, actor : SwarmActors,
                     record : RecordIds, evidence : EvidenceIds, segregated : BOOLEAN]
    BY PreparingCall DEF RequireSignedActor, Preparing
  <2>3. new \in CallType /\ new.step = "signed" /\ new.segregated = call[h].segregated
    BY <2>2 DEF CallType, Preparing
  <2>4. call[h].segregated
    BY DEF RInv, SawSegregation, RequireSignedActor, Preparing
  <2> HIDE DEF new
  <2>5. RegulatedTypeOK'
    BY <2>1, <2>3 DEF RInv, RegulatedTypeOK
  <2>6. \A g \in Callers : call'[g] = call[g] \/ call'[g] = new
    BY <2>1 DEF RInv, RegulatedTypeOK
  <2>7. SawSegregation'
    BY <2>3, <2>4, <2>6 DEF RInv, SawSegregation
  <2>8. KeepsItsRecord'
    BY <2>1, <2>3, <2>6 DEF RInv, KeepsItsRecord
  <2>9. PreparedBySegregatedSwarm' /\ EvidenceIsRetained'
    BY <2>1 DEF RInv, PreparedBySegregatedSwarm, EvidenceIsRetained
  <2> QED
    BY <2>5, <2>7, <2>8, <2>9 DEF RInv
<1> QED
  BY <1>1, <1>2

(* A record is written only where none was, so that no call and no action  *)
(* loses the one it relies on.                                             *)
LEMMA WriteAuditKeeps ==
  ASSUME RInv, NEW h \in Callers, WriteAudit(h)
  PROVE  RInv'
<1>1. CASE ~Creatable(call[h].record)
  <2>1. call' = [call EXCEPT ![h] = NoCall] /\ UNCHANGED <<audit, actions>>
    BY <1>1 DEF WriteAudit
  <2> QED
    BY <2>1, EndingKeeps
<1>2. CASE Creatable(call[h].record)
  <2> DEFINE new == [call[h] EXCEPT !.step = "audited"]
             written == [evidence |-> call[h].evidence]
  <2>1. /\ call' = [call EXCEPT ![h] = new]
        /\ audit' = [audit EXCEPT ![call[h].record] = written]
        /\ UNCHANGED actions
    BY <1>2 DEF WriteAudit
  <2>2. call[h] \in [step : Preparing, kind : {"transition", "evidence"}, actor : SwarmActors,
                     record : RecordIds, evidence : EvidenceIds, segregated : BOOLEAN]
    BY PreparingCall DEF WriteAudit, Preparing
  <2>3. /\ new \in CallType /\ new.step = "audited" /\ new.segregated = call[h].segregated
        /\ new.record = call[h].record /\ new.evidence = call[h].evidence
    BY <2>2 DEF CallType, Preparing
  <2>4. call[h].segregated
    BY DEF RInv, SawSegregation, WriteAudit, Preparing
  <2>5. /\ call[h].record \in RecordIds /\ call[h].evidence \in EvidenceIds
        /\ audit[call[h].record].evidence = "none"
    BY <1>2, <2>2 DEF Creatable, NoAuditRecord
  <2>6. \A i \in RecordIds : audit[i].evidence # "none" => audit'[i] = audit[i]
    BY <2>1, <2>5 DEF RInv, RegulatedTypeOK
  <2> HIDE DEF new
  <2>7. RegulatedTypeOK'
    BY <2>1, <2>3, <2>5 DEF RInv, RegulatedTypeOK
  <2>8. \A g \in Callers : call'[g] = call[g] \/ (g = h /\ call'[g] = new)
    BY <2>1 DEF RInv, RegulatedTypeOK
  <2>9. SawSegregation'
    BY <2>3, <2>4, <2>8 DEF RInv, SawSegregation
  <2>10. KeepsItsRecord'
    <3> SUFFICES ASSUME NEW g \in Callers, call'[g].step = "audited"
                 PROVE  audit'[call'[g].record].evidence = call'[g].evidence
      BY DEF KeepsItsRecord
    <3>1. CASE call'[g] = new
      BY <2>1, <2>3, <2>5, <3>1 DEF RInv, RegulatedTypeOK
    <3>2. CASE call'[g] = call[g]
      <4>1. call[g].record \in RecordIds /\ call[g].evidence \in EvidenceIds
        BY <3>2, PreparingCall DEF Preparing
      <4>2. audit[call[g].record].evidence = call[g].evidence
        BY <3>2 DEF RInv, KeepsItsRecord
      <4> QED
        BY <2>6, <3>2, <4>1, <4>2, EvidenceAssumption
    <3> QED
      BY <2>8, <3>1, <3>2
  <2>11. PreparedBySegregatedSwarm'
    BY <2>1 DEF RInv, PreparedBySegregatedSwarm
  <2>12. EvidenceIsRetained'
    <3> SUFFICES ASSUME NEW a \in actions, a.kind = "evidence"
                 PROVE  \E i \in RecordIds : audit'[i].evidence = a.evidence
      BY <2>1 DEF EvidenceIsRetained
    <3>1. a.evidence \in EvidenceIds
      BY DEF RInv, RegulatedTypeOK
    <3>2. PICK i \in RecordIds : audit[i].evidence = a.evidence
      BY DEF RInv, EvidenceIsRetained
    <3> QED
      BY <2>6, <3>1, <3>2, EvidenceAssumption
  <2> QED
    BY <2>7, <2>9, <2>10, <2>11, <2>12 DEF RInv
<1> QED
  BY <1>1, <1>2

LEMMA CorePreparesKeeps ==
  ASSUME RInv, NEW h \in Callers, CorePrepares(h)
  PROVE  RInv'
<1>1. CASE actions' = actions
  BY <1>1, EndingKeeps DEF CorePrepares
<1>2. CASE actions' # actions
  <2> DEFINE new == [kind |-> call[h].kind, evidence |-> call[h].evidence,
                     segregated |-> call[h].segregated]
  <2>1. actions' = actions \union {new} /\ call' = [call EXCEPT ![h] = NoCall] /\ UNCHANGED audit
    BY <1>2 DEF CorePrepares
  <2>2. call[h] \in [step : Preparing, kind : {"transition", "evidence"}, actor : SwarmActors,
                     record : RecordIds, evidence : EvidenceIds, segregated : BOOLEAN]
    BY PreparingCall DEF CorePrepares, Preparing
  <2>3. new.segregated
    BY DEF RInv, SawSegregation, CorePrepares, Preparing
  <2>4. new.kind = "evidence" => \E i \in RecordIds : audit[i].evidence = new.evidence
    BY <2>2 DEF RInv, KeepsItsRecord, CorePrepares, AuditedBefore
  <2>5. RegulatedTypeOK'
    BY <2>1, <2>2 DEF RInv, RegulatedTypeOK, CallType
  <2>6. \A g \in Callers : call'[g] = call[g] \/ call'[g] = NoCall
    BY <2>1 DEF RInv, RegulatedTypeOK
  <2>7. SawSegregation' /\ KeepsItsRecord'
    BY <2>1, <2>6 DEF RInv, SawSegregation, KeepsItsRecord, NoCall, Preparing
  <2> HIDE DEF new
  <2>8. PreparedBySegregatedSwarm' /\ EvidenceIsRetained'
    BY <2>1, <2>3, <2>4 DEF RInv, PreparedBySegregatedSwarm, EvidenceIsRetained
  <2> QED
    BY <2>5, <2>7, <2>8 DEF RInv
<1> QED
  BY <1>1, <1>2

(* RInv is inductive.                                                      *)
LEMMA RegulatedStep == RInv /\ [RegulatedNext]_regulatedVars => RInv'
<1> SUFFICES ASSUME RInv, [RegulatedNext]_regulatedVars PROVE RInv'
  OBVIOUS
<1>1. ASSUME NEW h \in Callers, AssessAssignment(h) PROVE RInv'
  BY <1>1, AssessAssignmentKeeps
<1>2. ASSUME NEW h \in Callers, AssignActor(h) PROVE RInv'
  BY <1>2, EndingKeeps DEF AssignActor
<1>3. ASSUME NEW h \in Callers, RequireReadySwarm(h) PROVE RInv'
  BY <1>3, RequireReadySwarmKeeps
<1>4. ASSUME NEW h \in Callers, RequireSignedActor(h) PROVE RInv'
  BY <1>4, RequireSignedActorKeeps
<1>5. ASSUME NEW h \in Callers, WriteAudit(h) PROVE RInv'
  BY <1>5, WriteAuditKeeps
<1>6. ASSUME NEW h \in Callers, CorePrepares(h) PROVE RInv'
  BY <1>6, CorePreparesKeeps
<1>7. ASSUME NEW h \in Callers, CallCut(h) PROVE RInv'
  BY <1>7, EndingKeeps DEF CallCut
<1>8. CASE AssignDirectly \/ KeyEvent \/ UNCHANGED regulatedVars
  <2>1. UNCHANGED <<call, audit, actions>>
    BY <1>8 DEF AssignDirectly, KeyEvent, regulatedVars
  <2> QED
    BY <2>1, QuietStep DEF RInv, RegulatedTypeOK
<1> QED
  BY <1>1, <1>2, <1>3, <1>4, <1>5, <1>6, <1>7, <1>8 DEF RegulatedNext

(* However many callers, interventions and revoked keys there are, what    *)
(* Core prepares comes from a call that found the duties segregated, and   *)
(* prepared evidence has its retention record (prepare_transition,         *)
(* prepare_evidence).                                                      *)
THEOREM RegulatedActionsHold ==
  RegulatedSpec => [](PreparedBySegregatedSwarm /\ EvidenceIsRetained)
<1>1. RInv => PreparedBySegregatedSwarm /\ EvidenceIsRetained
  BY DEF RInv
<1> QED
  BY <1>1, RegulatedInitially, RegulatedStep, PTL DEF RegulatedSpec

-----------------------------------------------------------------------------
(* Gate evidence.  What was kept of a result is about a result there was,  *)
(* and no result is taken back, so that the Work may move on in between.   *)

FactsAreRuns ==
  \A f \in facts :
    /\ f.run \in runs
    /\ f.allowed /\ f.run.category # "metric" => f.run.status = "success"

GateInv == FactsAreRuns /\ EvidenceTestedItsCommit

LEMMA GateBegins == GateInit => GateInv
BY DEF GateInit, GateInv, FactsAreRuns, EvidenceTestedItsCommit

LEMMA KeepRunKeeps ==
  ASSUME GateInv, NEW run \in runs, KeepRun(run)
  PROVE  GateInv'
<1> DEFINE kept == [run |-> run, allowed |-> ~Blocked(run)]
<1>1. facts' = facts \union {kept} /\ UNCHANGED <<gate, wanted, clock, runs, evidence>>
  BY DEF KeepRun
<1>2. /\ kept.run \in runs
      /\ kept.allowed /\ kept.run.category # "metric" => kept.run.status = "success"
  BY DEF Blocked
<1> HIDE DEF kept
<1>3. FactsAreRuns'
  BY <1>1, <1>2 DEF GateInv, FactsAreRuns
<1>4. EvidenceTestedItsCommit'
  BY <1>1 DEF GateInv, EvidenceTestedItsCommit, Categories
<1> QED
  BY <1>3, <1>4 DEF GateInv

LEMMA RecordEvidenceKeeps ==
  ASSUME GateInv, RecordEvidence
  PROVE  GateInv'
<1>1. /\ evidence' = [commit |-> wanted, success |-> BundleAllowed(wanted)]
      /\ UNCHANGED <<gate, wanted, clock, runs, facts>>
  BY DEF RecordEvidence
<1>2. evidence'.commit = wanted /\ (evidence'.success <=> BundleAllowed(wanted))
  BY <1>1
<1>3. FactsAreRuns'
  BY <1>1 DEF GateInv, FactsAreRuns
<1>4. EvidenceTestedItsCommit'
  <2> SUFFICES ASSUME BundleAllowed(wanted), NEW category \in Categories \ {"metric"}
               PROVE  \E run \in runs : /\ run.category = category /\ run.commit = wanted
                                        /\ run.status = "success"
    BY <1>1, <1>2 DEF EvidenceTestedItsCommit, Categories
  <2>1. PICK f \in facts : f.run.category = category /\ f.allowed /\ f.run.commit = wanted
    BY DEF BundleAllowed, Matching
  <2> QED
    BY <2>1 DEF GateInv, FactsAreRuns
<1> QED
  BY <1>3, <1>4 DEF GateInv

LEMMA GateStep ==
  ASSUME GateInv, GateNext
  PROVE  GateInv'
<1>1. CASE RunEnds
  <2>1. runs \subseteq runs' /\ UNCHANGED <<gate, facts, evidence>>
    BY <1>1 DEF RunEnds
  <2> QED
    BY <2>1 DEF GateInv, FactsAreRuns, EvidenceTestedItsCommit, Categories
<1>2. CASE TimePasses \/ \E c \in 1 .. GateCommits : MoveTo(c)
  <2>1. UNCHANGED <<gate, runs, facts, evidence>>
    BY <1>2 DEF TimePasses, MoveTo
  <2> QED
    BY <2>1 DEF GateInv, FactsAreRuns, EvidenceTestedItsCommit, Categories
<1> QED
  BY <1>1, <1>2, KeepRunKeeps, RecordEvidenceKeeps DEF GateNext

-----------------------------------------------------------------------------
(* Security findings.  Stored records may be rewritten, but not what the   *)
(* scanner reported, which they repeat, nor who decided.                   *)

DecisionKinds == {"resolved", "false_positive", "accepted_risk"}

StoredRecords ==
  [severity : Severities \union {"none"}, original : Severities \union {"none"},
   status : DecisionKinds \union {"open"}, role : Deciders \union {"none"},
   actorKind : ActorKinds \union {"none"}]

FindingTypes ==
  /\ reported \in [FindingIds -> Severities \union {"none"}]
  /\ record \in [FindingIds -> StoredRecords]
  /\ passed \in Levels \X SUBSET FindingIds

RecordsRepeatReports ==
  \A f \in Known : record[f].original = reported[f]

DecisionsAreEntitled ==
  \A f \in FindingIds : record[f].status # "open" =>
    MayDecide(record[f].status, record[f].role, record[f].actorKind)

FindingInv ==
  /\ FindingTypes /\ RecordsRepeatReports /\ DecisionsAreEntitled
  /\ passed[2] \subseteq Known
  /\ PassedScanIsDecided

(* The domain of a record of roles and the values in it.                   *)
LEMMA RolesOfDecisions ==
  /\ DOMAIN DecisionRoles = DecisionKinds
  /\ \A k \in DecisionKinds : DecisionRoles[k] \subseteq {"security-reviewer", "governance-owner"}
BY DEF DecisionRoles, DecisionKinds

LEMMA RanksAreNumbers == \A v \in Severities : Rank[v] \in Nat
BY DEF Severities, Rank

LEMMA FindingsBegin == FindingInit => FindingInv
<1> SUFFICES ASSUME FindingInit PROVE FindingInv
  OBVIOUS
<1>1. FindingTypes
  BY DEF FindingInit, FindingTypes, StoredRecords, NoRecord, Levels
<1>2. Known = {} /\ passed[2] = {}
  BY DEF FindingInit, Known
<1>3. DecisionsAreEntitled
  BY DEF FindingInit, DecisionsAreEntitled, NoRecord
<1> QED
  BY <1>1, <1>2, <1>3 DEF FindingInv, RecordsRepeatReports, PassedScanIsDecided

LEMMA NormalizeFindingKeeps ==
  ASSUME FindingInv, NEW f \in FindingIds, NEW v \in Severities, NormalizeFinding(f, v)
  PROVE  FindingInv'
<1> DEFINE opened == [NoRecord EXCEPT !.severity = v, !.original = v]
<1>1. /\ reported[f] = "none" /\ reported' = [reported EXCEPT ![f] = v]
      /\ record' = [record EXCEPT ![f] = opened] /\ UNCHANGED passed
  BY DEF NormalizeFinding
<1>2. opened = [severity |-> v, original |-> v, status |-> "open", role |-> "none",
                actorKind |-> "none"]
  <2> DEFINE half == [NoRecord EXCEPT !.severity = v]
  <2>1. half = [severity |-> v, original |-> "none", status |-> "open", role |-> "none",
                actorKind |-> "none"]
    BY DEF NoRecord
  <2>2. opened = [half EXCEPT !.original = v]
    BY Zenon
  <2> HIDE DEF half, opened
  <2> QED
    BY <2>1, <2>2
<1> HIDE DEF opened
<1>3. FindingTypes'
  BY <1>1, <1>2 DEF FindingInv, FindingTypes, StoredRecords
<1>4. /\ reported'[f] = v /\ record'[f] = opened /\ v # "none" /\ f \notin Known
      /\ \A g \in FindingIds : g # f => reported'[g] = reported[g] /\ record'[g] = record[g]
  BY <1>1 DEF FindingInv, FindingTypes, Known, Severities
<1>5. Known' = Known \union {f}
  BY <1>4 DEF Known
<1>6. RecordsRepeatReports'
  BY <1>2, <1>4, <1>5 DEF FindingInv, RecordsRepeatReports, Known
<1>7. DecisionsAreEntitled'
  <2> SUFFICES ASSUME NEW g \in FindingIds, record'[g].status # "open"
               PROVE  MayDecide(record'[g].status, record'[g].role, record'[g].actorKind)
    BY DEF DecisionsAreEntitled
  <2> QED
    BY <1>2, <1>4 DEF FindingInv, DecisionsAreEntitled
<1>8. \A g \in passed[2] : g \in FindingIds /\ g # f
  BY <1>4 DEF FindingInv, Known
<1>9. PassedScanIsDecided' /\ passed'[2] \subseteq Known'
  BY <1>1, <1>4, <1>5, <1>8 DEF FindingInv, PassedScanIsDecided
<1> QED
  BY <1>3, <1>6, <1>7, <1>9 DEF FindingInv

LEMMA DecideFindingKeeps ==
  ASSUME FindingInv, NEW f \in FindingIds, NEW k \in DOMAIN DecisionRoles, NEW r \in Deciders,
         NEW a \in ActorKinds, DecideFinding(f, k, r, a)
  PROVE  FindingInv'
<1>1. /\ f \in Known /\ record[f].status = "open" /\ MayDecide(k, r, a)
      /\ record' = [record EXCEPT ![f].status = k, ![f].role = r, ![f].actorKind = a]
      /\ UNCHANGED <<reported, passed>>
  BY DEF DecideFinding
<1>2. k \in DecisionKinds /\ k # "open"
  BY RolesOfDecisions DEF DecisionKinds
<1>3. record \in [FindingIds -> StoredRecords]
  BY DEF FindingInv, FindingTypes
<1> DEFINE decided == record'[f]
<1>4. record' \in [FindingIds -> StoredRecords] /\ \A g \in FindingIds : g # f => record'[g] = record[g]
  <2> DEFINE one == [record EXCEPT ![f].status = k]
             two == [one EXCEPT ![f].role = r]
  <2>1. record' = [two EXCEPT ![f].actorKind = a]
    BY <1>1
  <2>2. /\ one \in [FindingIds -> StoredRecords]
        /\ \A g \in FindingIds : g # f => one[g] = record[g]
    BY <1>2, <1>3 DEF StoredRecords
  <2> HIDE DEF one
  <2>3. /\ two \in [FindingIds -> StoredRecords]
        /\ \A g \in FindingIds : g # f => two[g] = one[g]
    BY <2>2 DEF StoredRecords
  <2> HIDE DEF two
  <2>4. /\ [two EXCEPT ![f].actorKind = a] \in [FindingIds -> StoredRecords]
        /\ \A g \in FindingIds : g # f => [two EXCEPT ![f].actorKind = a][g] = two[g]
    BY <2>3 DEF StoredRecords
  <2> QED
    BY <2>1, <2>2, <2>3, <2>4
<1>5. /\ decided.original = record[f].original /\ decided.status = k /\ decided.role = r
      /\ decided.actorKind = a
  BY <1>1, <1>3 DEF StoredRecords
<1> HIDE DEF decided
<1>6. FindingTypes'
  BY <1>1, <1>4 DEF FindingInv, FindingTypes
<1>7. record'[f] = decided /\ \A g \in FindingIds : g # f => record'[g] = record[g]
  BY <1>4 DEF decided
<1>8. Known' = Known
  BY <1>1 DEF Known
<1>9. RecordsRepeatReports'
  BY <1>1, <1>5, <1>7, <1>8 DEF FindingInv, RecordsRepeatReports, Known
<1>10. DecisionsAreEntitled'
  BY <1>1, <1>5, <1>7 DEF FindingInv, DecisionsAreEntitled
<1>11. PassedScanIsDecided'
  <2> SUFFICES ASSUME NEW g \in passed[2],
                      reported[g] = "unknown" \/ Rank[reported[g]] >= 4 - passed[1]
               PROVE  /\ record'[g].status # "open"
                      /\ record'[g].role \in {"security-reviewer", "governance-owner"}
                      /\ record'[g].status = "accepted_risk" => record'[g].actorKind = "human"
    BY <1>1 DEF PassedScanIsDecided
  <2>1. record[g].status # "open" /\ g \in FindingIds
    BY DEF FindingInv, PassedScanIsDecided, Known
  <2>2. record'[g] = record[g]
    BY <1>1, <1>7, <2>1
  <2> QED
    BY <2>2 DEF FindingInv, PassedScanIsDecided
<1> QED
  BY <1>1, <1>6, <1>8, <1>9, <1>10, <1>11 DEF FindingInv

LEMMA RewriteKeeps ==
  ASSUME FindingInv, NEW f \in FindingIds, NEW v \in Severities, Rewrite(f, v)
  PROVE  FindingInv'
<1>1. record' = [record EXCEPT ![f].severity = v] /\ UNCHANGED <<reported, passed>>
  BY DEF Rewrite
<1>2. FindingTypes'
  BY <1>1 DEF FindingInv, FindingTypes, StoredRecords
<1>3. \A g \in FindingIds : /\ record'[g].original = record[g].original
                            /\ record'[g].status = record[g].status
                            /\ record'[g].role = record[g].role
                            /\ record'[g].actorKind = record[g].actorKind
  BY <1>1 DEF FindingInv, FindingTypes
<1>4. Known' = Known /\ Known \subseteq FindingIds
  BY <1>1 DEF Known
<1>5. RecordsRepeatReports' /\ DecisionsAreEntitled' /\ PassedScanIsDecided'
  BY <1>1, <1>3, <1>4 DEF FindingInv, RecordsRepeatReports, DecisionsAreEntitled, PassedScanIsDecided
<1> QED
  BY <1>1, <1>2, <1>4, <1>5 DEF FindingInv

LEMMA ScanKeeps ==
  ASSUME FindingInv, NEW d \in Levels, ScanAt(d)
  PROVE  FindingInv'
<1>1. ScanPasses(d) /\ passed' = <<d, Known>> /\ UNCHANGED <<reported, record>>
  BY DEF ScanAt
<1>2. passed'[1] = d /\ passed'[2] = Known /\ Known' = Known /\ Known \subseteq FindingIds
  BY <1>1 DEF Known
<1>3. FindingTypes' /\ RecordsRepeatReports' /\ DecisionsAreEntitled'
  BY <1>1, <1>2 DEF FindingInv, FindingTypes, RecordsRepeatReports, DecisionsAreEntitled
<1>4. PassedScanIsDecided'
  <2> SUFFICES ASSUME NEW f \in Known, reported[f] = "unknown" \/ Rank[reported[f]] >= 4 - d
               PROVE  /\ record[f].status # "open"
                      /\ record[f].role \in {"security-reviewer", "governance-owner"}
                      /\ record[f].status = "accepted_risk" => record[f].actorKind = "human"
    BY <1>1, <1>2 DEF PassedScanIsDecided
  <2>1. record[f].severity = reported[f] /\ f \in FindingIds
    BY <1>1, <1>2 DEF ScanPasses, Assessable, ValidRecord, FindingInv, RecordsRepeatReports
  <2>2. Threshold[d] = 4 - d
    BY DEF Threshold
  <2>3. record[f].status # "open"
    BY <1>1, <2>1, <2>2 DEF ScanPasses, Blocks
  <2>4. record[f].status \in DecisionKinds
    BY <2>1, <2>3 DEF FindingInv, FindingTypes, StoredRecords
  <2>5. MayDecide(record[f].status, record[f].role, record[f].actorKind)
    BY <2>1, <2>3 DEF FindingInv, DecisionsAreEntitled
  <2> QED
    BY <2>3, <2>4, <2>5, RolesOfDecisions DEF MayDecide
<1> QED
  BY <1>2, <1>3, <1>4 DEF FindingInv

LEMMA FindingsStep == FindingInv /\ FindingNext => FindingInv'
BY NormalizeFindingKeeps, DecideFindingKeeps, RewriteKeeps, ScanKeeps DEF FindingNext

(* The thresholds fall as the depth rises, so that a scan that passes at a *)
(* depth passes at every weaker one.                                       *)
LEMMA WeakerScansPass == FindingInv => ThresholdsAreMonotonic
<1> SUFFICES ASSUME FindingInv, NEW d \in Levels, NEW e \in Levels, e <= d, ScanPasses(d),
                    NEW f \in Known
             PROVE  ~Blocks(record[f], e)
  BY DEF ThresholdsAreMonotonic, ScanPasses
<1>1. /\ d \in Int /\ e \in Int /\ Threshold[d] = 4 - d /\ Threshold[e] = 4 - e
  BY DEF Threshold, Levels
<1>2. record[f].severity \in Severities
  <2>1. record[f].severity = reported[f] /\ reported[f] \in Severities
    BY DEF Known, FindingInv, FindingTypes, ScanPasses, Assessable, ValidRecord, RecordsRepeatReports
  <2> QED
    BY <2>1
<1>3. Rank[record[f].severity] \in Nat
  BY <1>2, RanksAreNumbers
<1>4. ~Blocks(record[f], d)
  BY DEF ScanPasses
<1>5. Rank[record[f].severity] >= 4 - e => Rank[record[f].severity] >= 4 - d
  BY <1>1, <1>3
<1> QED
  BY <1>1, <1>4, <1>5 DEF Blocks

-----------------------------------------------------------------------------
(* Reviews.  A decision is taken back whenever artifact or review change;  *)
(* what it rests on otherwise only grows: a waiver is given once.          *)

ReviewTypes ==
  /\ policy \subseteq Profiles
  /\ produced \in [revision : Nat, by : Provenances]
  /\ review = NoReview
     \/ review \in [given : {TRUE}, revision : Nat, by : Provenances,
                    kind : {"human", "ai-agent"}, verdict : {"approved", "rejected"}]
  /\ waiver.given \in BOOLEAN
  /\ decision \in [allowed : BOOLEAN, waived : BOOLEAN]

WaivedIsGiven == decision.waived => waiver.given

ReviewInv == ReviewTypes /\ WaivedIsGiven /\ AllowedReviewIsIndependent

LEMMA ReviewBegins == ReviewInit => ReviewInv
<1> SUFFICES ASSUME ReviewInit PROVE ReviewInv
  OBVIOUS
<1>1. ReviewTypes
  BY DEF ReviewInit, ReviewTypes, NoReview, NoWaiver
<1> QED
  BY <1>1 DEF ReviewInit, ReviewInv, WaivedIsGiven, AllowedReviewIsIndependent

(* What the policy demands of provenances, if nothing was waived: known    *)
(* providers, observed if the artifact is regulated.                       *)
LEMMA ObservedProvidersDiffer ==
  ASSUME NEW a \in Provenances, NEW b \in Provenances, "regulated" \in policy,
         Distinct(a, b, "provider", policy)
  PROVE  a.real # b.real
<1>1. MinSource(policy) = "observed" /\ a.source \in Sources /\ b.source \in Sources
  BY DEF MinSource, Provenances
<1>2. /\ SourceRank[a.source] >= SourceRank["observed"]
      /\ SourceRank[b.source] >= SourceRank["observed"] /\ a.claim # b.claim
  BY <1>1 DEF Distinct
<1>3. a.source = "observed" /\ b.source = "observed"
  BY <1>1, <1>2 DEF SourceRank, Sources
<1> QED
  BY <1>2, <1>3 DEF Provenances

LEMMA EvaluateReviewKeeps ==
  ASSUME ReviewInv, EvaluateReview
  PROVE  ReviewInv'
<1>1. /\ decision' = [allowed |-> Allowed, waived |-> waiver.given] /\ review.given
      /\ UNCHANGED <<policy, produced, review, waiver>>
  BY DEF EvaluateReview
<1>2. Allowed \in BOOLEAN
  BY DEF Allowed
<1>3. decision'.allowed = Allowed /\ decision'.waived = waiver.given
  BY <1>1
<1>4. ReviewTypes' /\ WaivedIsGiven'
  BY <1>1, <1>2, <1>3 DEF ReviewInv, ReviewTypes, WaivedIsGiven
<1>5. /\ produced.by \in Provenances /\ review.by \in Provenances
      /\ review.kind \in {"human", "ai-agent"}
  <2>1. review # NoReview
    BY <1>1 DEF NoReview
  <2> QED
    BY <2>1 DEF ReviewInv, ReviewTypes
<1>6. ASSUME Allowed
      PROVE  /\ review.revision = produced.revision /\ review.verdict = "approved"
             /\ "regulated" \in policy => review.kind = "human"
             /\ waiver.given => waiver.role = "governance-owner"
  BY <1>6 DEF Allowed, WaiverValid, HumanBlocked, HumanWaivable, RequiresHuman
<1>7. ASSUME Allowed, ~waiver.given
      PROVE  /\ policy \intersect {"distinct-actor", "regulated"} # {}
                => Folded(produced.by.actor) # Folded(review.by.actor)
             /\ "regulated" \in policy => produced.by.real # review.by.real
             /\ "human-final" \in policy => review.kind = "human"
  <2>1. ~HumanBlocked(policy) /\ \A d \in Dimensions(policy) : Distinct(produced.by, review.by, d, policy)
    BY <1>7 DEF Allowed, SeparationBlockers
  <2>2. policy \intersect {"distinct-actor", "regulated"} # {}
          => Folded(produced.by.actor) # Folded(review.by.actor)
    BY <2>1 DEF Dimensions, Distinct
  <2>3. "regulated" \in policy => produced.by.real # review.by.real
    BY <1>5, <2>1, ObservedProvidersDiffer DEF Dimensions
  <2> QED
    BY <2>1, <2>2, <2>3 DEF HumanBlocked, RequiresHuman
<1>8. AllowedReviewIsIndependent'
  BY <1>1, <1>3, <1>6, <1>7 DEF AllowedReviewIsIndependent
<1> QED
  BY <1>4, <1>8 DEF ReviewInv

LEMMA ReviewStep ==
  ASSUME ReviewInv, ReviewNext
  PROVE  ReviewInv'
<1>1. CASE ProduceAgain \/ GiveReview
  <2>1. /\ decision' = [allowed |-> FALSE, waived |-> FALSE] /\ UNCHANGED <<policy, waiver>>
    BY <1>1 DEF ProduceAgain, GiveReview
  <2>2. ReviewTypes'
    <3>1. CASE ProduceAgain
      <4>1. produced' = [produced EXCEPT !.revision = @ + 1] /\ UNCHANGED review
        BY <3>1 DEF ProduceAgain
      <4>2. produced' \in [revision : Nat, by : Provenances]
        BY <4>1 DEF ReviewInv, ReviewTypes
      <4> QED
        BY <2>1, <4>1, <4>2 DEF ReviewInv, ReviewTypes
    <3>2. CASE GiveReview
      <4>1. review' \in Reviewers /\ UNCHANGED produced
        BY <3>2 DEF GiveReview
      <4>2. produced.revision \in Nat
        BY DEF ReviewInv, ReviewTypes
      <4> QED
        BY <2>1, <4>1, <4>2 DEF ReviewInv, ReviewTypes, Reviewers
    <3> QED
      BY <1>1, <3>1, <3>2
  <2> QED
    BY <2>1, <2>2 DEF ReviewInv, WaivedIsGiven, AllowedReviewIsIndependent
<1>2. CASE GiveWaiver
  <2>1. /\ ~waiver.given /\ waiver'.given = TRUE
        /\ UNCHANGED <<policy, produced, review, decision>>
    BY <1>2 DEF GiveWaiver
  <2>2. ~decision.waived
    BY <2>1 DEF ReviewInv, WaivedIsGiven
  <2> QED
    BY <2>1, <2>2 DEF ReviewInv, ReviewTypes, WaivedIsGiven, AllowedReviewIsIndependent
<1> QED
  BY <1>1, <1>2, EvaluateReviewKeeps DEF ReviewNext

-----------------------------------------------------------------------------
(* Modernization.  Documents are only added, a cutover plan names none but *)
(* reports there were, and what a request was let through with lasts.      *)

IsSequence(q) == q \in Seq({q[i] : i \in 1 .. Len(q)})

PlansFollowReports ==
  \A i \in Indices("cutover-plan") :
    LET plan == Doc("cutover-plan", i)
    IN  /\ plan.after \in Nat /\ plan.after <= Count("equivalence-report")
        /\ plan.reports \subseteq 1 .. plan.after

RequestTypes ==
  requests \in [Requesters -> {NoRequest} \union
    [step : {"read", "move"}, to : States,
     gate : {"none", "architecture-approved", "build-verified", "completion"},
     reports : Nat, current : SUBSET Nat]]

(* What a request that was let through had read.                           *)
ReadWasSettled(q) ==
  /\ q.gate \in {"build-verified", "completion"} =>
       q.reports <= Count("equivalence-report") /\ Settled(q.reports)
  /\ q.gate = "completion" =>
       1 \in Indices("cutover-plan") /\ Doc("cutover-plan", 1).after = q.reports

RequestIsRead(r) ==
  LET q == requests[r]
  IN  q.step # "none" =>
        /\ q.gate \in {"build-verified", "completion"} => workState # "inception"
        /\ q.to = "operations" => q.gate \in {"none", "build-verified"}
        /\ q.to = "completed" => q.gate \in {"none", "completion"}
        /\ q.step = "move" => ReadWasSettled(q)

ModernizationInv ==
  /\ documents = [k \in Kinds |-> documents[k]]
  /\ \A k \in Kinds : IsSequence(documents[k])
  /\ PlansFollowReports
  /\ RequestTypes
  /\ \A r \in Requesters : RequestIsRead(r)

(* A set of places of a sequence has a last one: the least upper bound.    *)
LEMMA LastOfPlaces ==
  ASSUME NEW n \in Nat, NEW S \in SUBSET (1 .. n), S # {}
  PROVE  \E i \in S : \A j \in S : i >= j
<1> DEFINE R == OpToRel(<, Nat)
           Bounds == {m \in Nat : \A j \in S : j <= m}
<1>1. IsWellFoundedOn(R, Nat)
  BY NatLessThanWellFounded, Zenon
<1>2. \A i, j \in Nat : <<i, j>> \in R <=> i < j
  BY Zenon DEF OpToRel
<1>3. Bounds # {} /\ Bounds \subseteq Nat
  <2>1. n \in Bounds
    OBVIOUS
  <2> QED
    BY <2>1
<1> HIDE DEF R
<1>4. \E m \in Bounds : \A k \in Bounds : ~(<<k, m>> \in R)
  <2> HIDE DEF Bounds
  <2> QED
    BY <1>1, <1>3, WFMin
<1>5. PICK m \in Bounds : \A k \in Bounds : ~(<<k, m>> \in R)
  BY <1>4
<1>6. m \in Nat /\ \A j \in S : j <= m
  OBVIOUS
<1>7. m \in S
  <2> SUFFICES ASSUME m \notin S PROVE FALSE
    OBVIOUS
  <2>1. \A j \in S : j \in Nat /\ j >= 1 /\ j <= m - 1
    BY <1>6
  <2>2. m - 1 \in Nat
    <3>1. PICK j \in S : TRUE
      OBVIOUS
    <3>2. j \in Nat /\ 1 <= j /\ j <= m - 1
      BY <2>1
    <3> QED
      BY <1>6, <3>2
  <2>3. m - 1 \in Bounds
    BY <2>1, <2>2
  <2>4. m - 1 < m
    BY <1>6
  <2> QED
    BY <1>2, <1>5, <1>6, <2>2, <2>3, <2>4
<1> QED
  BY <1>6, <1>7

LEMMA AppendedSequence ==
  ASSUME NEW q, NEW x, IsSequence(q)
  PROVE  /\ IsSequence(Append(q, x)) /\ Len(Append(q, x)) = Len(q) + 1 /\ Len(q) \in Nat
         /\ Append(q, x)[Len(q) + 1] = x
         /\ \A i \in 1 .. Len(q) : Append(q, x)[i] = q[i]
<1> DEFINE S == {q[i] : i \in 1 .. Len(q)}
           T == S \union {x}
           a == Append(q, x)
<1>1. q \in Seq(S) /\ q \in Seq(T) /\ x \in T
  <2>1. q \in Seq(S)
    BY DEF IsSequence
  <2> HIDE DEF S
  <2>2. \A U, V : U \subseteq V => \A p \in Seq(U) : p \in Seq(V)
    OBVIOUS
  <2> QED
    BY <2>1, <2>2
<1> HIDE DEF T
<1>2. \A p \in Seq(T), y \in T :
        /\ Append(p, y) \in Seq(T) /\ Len(Append(p, y)) = Len(p) + 1 /\ Len(p) \in Nat
        /\ Append(p, y)[Len(p) + 1] = y
        /\ \A i \in 1 .. Len(p) : Append(p, y)[i] = p[i]
  OBVIOUS
<1>3. /\ a \in Seq(T) /\ Len(a) = Len(q) + 1 /\ Len(q) \in Nat
      /\ a[Len(q) + 1] = x
      /\ \A i \in 1 .. Len(q) : a[i] = q[i]
  BY <1>1, <1>2, Zenon
<1> HIDE DEF a
<1>4. IsSequence(a)
  <2>1. \A p \in Seq(T) : p \in Seq({p[i] : i \in 1 .. Len(p)})
    OBVIOUS
  <2> QED
    BY <1>3, <2>1 DEF IsSequence
<1> QED
  BY <1>3, <1>4 DEF a

(* The document of a slice that counts is the last of them.                *)
LEMMA LatestIsLast ==
  ASSUME ModernizationInv, NEW kind \in Kinds, NEW i \in Indices(kind)
  PROVE  LET s == Doc(kind, i).slice
             latest == LatestOfSlice(kind, s)
         IN  /\ latest \in Indices(kind) /\ latest >= i /\ Doc(kind, latest).slice = s
<1> DEFINE s == Doc(kind, i).slice
           own == {j \in Indices(kind) : Doc(kind, j).slice = s}
           Last(m) == \A j \in own : m >= j
<1>1. Count(kind) \in Nat
  BY AppendedSequence DEF ModernizationInv, Count
<1>2. i \in own /\ own \in SUBSET (1 .. Count(kind))
  BY DEF Indices
<1>3. \E m \in own : Last(m)
  <2> HIDE DEF own
  <2> QED
    BY <1>1, <1>2, LastOfPlaces
<1>4. LatestOfSlice(kind, s) = CHOOSE m \in own : Last(m)
  BY <1>2 DEF LatestOfSlice
<1>5. LatestOfSlice(kind, s) \in own /\ Last(LatestOfSlice(kind, s))
  <2> HIDE DEF own, Last
  <2> QED
    BY <1>3, <1>4
<1> QED
  BY <1>2, <1>5

(* Where equivalence is shown, what the last report of its slices says of  *)
(* a behaviour is what the gate accepted.                                  *)
LEMMA ShownIsSettled ==
  ASSUME ModernizationInv, EquivalenceShown
  PROVE  Settled(Count("equivalence-report"))
<1> DEFINE word(b) == LastWord(b, Count("equivalence-report"))
<1> SUFFICES ASSUME NEW b \in DOMAIN BehaviorStatus
             PROVE  \/ word(b) = "accepted"
                    \/ word(b) = "equivalent" /\ BehaviorStatus[b] = "known"
  BY DEF Settled
<1> DEFINE results(i) == Doc("equivalence-report", i).results
           slice(i) == Doc("equivalence-report", i).slice
           about == {i \in Indices("equivalence-report") :
                       b \in DOMAIN results(i) /\ b \in SliceBehaviors(slice(i))}
           Last(m) == \A j \in about : m >= j
           latest(s) == LatestOfSlice("equivalence-report", s)
<1>1. Count("equivalence-report") \in Nat /\ "equivalence-report" \in Kinds
  BY AppendedSequence DEF ModernizationInv, Count, Kinds
<1>2. ASSUME NEW i \in about
      PROVE  /\ slice(i) \in PlannedSlices /\ latest(slice(i)) \in about /\ latest(slice(i)) >= i
  <2>1. i \in Indices("equivalence-report") /\ b \in SliceBehaviors(slice(i))
    OBVIOUS
  <2>2. slice(i) \in PlannedSlices
    BY <2>1 DEF EquivalenceShown
  <2>3. /\ latest(slice(i)) \in Indices("equivalence-report") /\ latest(slice(i)) >= i
        /\ slice(latest(slice(i))) = slice(i)
    BY <1>1, <2>1, LatestIsLast
  <2>4. DOMAIN results(latest(slice(i))) = SliceBehaviors(slice(i))
    BY <2>2 DEF EquivalenceShown, SliceCompared
  <2> QED
    BY <2>1, <2>2, <2>3, <2>4
<1>3. about # {}
  <2>1. PICK s \in PlannedSlices : b \in SliceBehaviors(s)
    BY DEF EquivalenceShown, BehaviorsCovered
  <2>2. latest(s) # NoDocument /\ DOMAIN results(latest(s)) = SliceBehaviors(s)
    BY <2>1 DEF EquivalenceShown, SliceCompared
  <2>3. PICK i \in Indices("equivalence-report") : slice(i) = s
    BY <2>2 DEF LatestOfSlice
  <2>4. latest(s) \in Indices("equivalence-report") /\ slice(latest(s)) = s
    BY <1>1, <2>3, LatestIsLast
  <2> QED
    BY <2>1, <2>2, <2>4
<1>4. about \in SUBSET (1 .. Count("equivalence-report"))
  BY DEF Indices
<1>5. \E m \in about : Last(m)
  <2> HIDE DEF about
  <2> QED
    BY <1>1, <1>3, <1>4, LastOfPlaces
<1> DEFINE m == CHOOSE i \in about : Last(i)
<1>6. m \in about /\ Last(m)
  <2> HIDE DEF about, Last
  <2> QED
    BY <1>5
<1>7. word(b) = results(m)[b]
  BY <1>3 DEF LastWord, Indices
<1> HIDE DEF m
<1>8. latest(slice(m)) = m
  <2>1. latest(slice(m)) \in about /\ latest(slice(m)) >= m /\ m >= latest(slice(m))
    BY <1>2, <1>6
  <2>2. m \in Nat /\ latest(slice(m)) \in Nat
    BY <1>4, <1>6, <2>1
  <2> QED
    BY <2>1, <2>2
<1>9. b \in SliceBehaviors(slice(m)) /\ slice(m) \in PlannedSlices
  BY <1>2, <1>6
<1>10. Acceptable(BehaviorStatus[b], results(m)[b])
  <2>1. SliceCompared(slice(m))
    BY <1>9 DEF EquivalenceShown
  <2> QED
    BY <1>8, <1>9, <2>1 DEF SliceCompared
<1> QED
  BY <1>7, <1>10 DEF Acceptable

(* A cutover plan that covers the current reports covers the last of all.  *)
LEMMA CoveredIsLast ==
  ASSUME ModernizationInv, EquivalenceShown, CutoverCovers
  PROVE  Doc("cutover-plan", 1).after = Count("equivalence-report")
<1> DEFINE after == Doc("cutover-plan", 1).after
           n == Count("equivalence-report")
<1>1. n \in Nat /\ "equivalence-report" \in Kinds
  BY AppendedSequence DEF ModernizationInv, Count, Kinds
<1>2. 1 \in Indices("cutover-plan")
  BY DEF CutoverCovers, Only, Indices
<1>3. after \in Nat /\ after <= n /\ Doc("cutover-plan", 1).reports \subseteq 1 .. after
  BY <1>2 DEF ModernizationInv, PlansFollowReports
<1>4. CASE n = 0
  BY <1>1, <1>3, <1>4
<1>5. CASE n # 0
  <2> DEFINE s == Doc("equivalence-report", n).slice
             latest == LatestOfSlice("equivalence-report", s)
  <2>1. n \in Indices("equivalence-report")
    BY <1>1, <1>5 DEF Indices
  <2>2. latest >= n
    BY <1>1, <2>1, LatestIsLast
  <2>3. s \in PlannedSlices
    BY <2>1 DEF EquivalenceShown
  <2>4. latest \in 1 .. after
    BY <1>3, <2>3 DEF CutoverCovers, CoversCurrentReports, CurrentReports
  <2> QED
    BY <1>1, <1>3, <2>2, <2>4
<1> QED
  BY <1>4, <1>5

LEMMA TransitionSettles ==
  ASSUME ModernizationInv, [ModernizationNext]_modernizationVars
  PROVE  [SettledStep]_modernizationVars /\ [CutoverStep]_modernizationVars
<1> SUFFICES ASSUME workState' # workState, workState' \in {"operations", "completed"}
             PROVE  SettledStep /\ CutoverStep
  BY DEF SettledStep, CutoverStep
<1>1. TransitionAtOnce \/ \E r \in Requesters : Move(r)
  BY DEF ModernizationNext, ReadState, ReadDocuments, RegisterPlan, RegisterSlice, RegisterConversion,
         RegisterReport, RegisterCutover, RegisterStabilization, RegisterRollback, Register,
         RecordSuccess, modernizationVars
<1>2. CASE TransitionAtOnce
  <2>1. /\ CoreMoves(workState, workState') /\ requests' = requests
        /\ GateOf(workState, workState') # "none" => DocumentsAllow(GateOf(workState, workState'))
    BY <1>2 DEF TransitionAtOnce
  <2>2. /\ GateOf(workState, workState') \in {"build-verified", "completion"}
        /\ workState' = "completed" => GateOf(workState, workState') = "completion"
    BY <2>1 DEF CoreMoves, GateOf
  <2>3. EquivalenceShown /\ (workState' = "completed" => CutoverCovers)
    BY <2>1, <2>2 DEF DocumentsAllow
  <2> QED
    BY <2>1, <2>3, ShownIsSettled, CoveredIsLast DEF SettledStep, CutoverStep
<1>3. ASSUME NEW r \in Requesters, Move(r) PROVE SettledStep /\ CutoverStep
  <2>1. /\ requests[r].step = "move" /\ requests[r].to = workState'
        /\ requests' = [requests EXCEPT ![r] = NoRequest]
    BY <1>3 DEF Move
  <2>2. requests'[r] = NoRequest
    BY <2>1 DEF ModernizationInv, RequestTypes
  <2>3. Moved(r)
    BY <2>1, <2>2 DEF Moved
  <2>4. /\ requests[r].to = "operations" => requests[r].gate \in {"none", "build-verified"}
        /\ requests[r].to = "completed" => requests[r].gate \in {"none", "completion"}
        /\ ReadWasSettled(requests[r])
    BY <2>1 DEF ModernizationInv, RequestIsRead
  <2>5. /\ requests[r].gate = "none" \/ Settled(requests[r].reports)
        /\ workState' = "completed" =>
             requests[r].gate = "none" \/ Doc("cutover-plan", 1).after = requests[r].reports
    BY <2>1, <2>4 DEF ReadWasSettled
  <2> QED
    BY <2>3, <2>5 DEF SettledStep, CutoverStep
<1> QED
  BY <1>1, <1>2, <1>3

(* What documents and states do to a request that is under way: of a Work  *)
(* that has left inception no slice is registered any more.                *)
Grows ==
  /\ documents'["characterization"] = documents["characterization"]
  /\ workState = "inception" \/ documents'["migration-slice"] = documents["migration-slice"]
  /\ workState' = "inception" => workState = "inception"
  /\ \A k \in Kinds : /\ Indices(k) \subseteq Indices(k)'
                      /\ \A i \in Indices(k) : Doc(k, i)' = Doc(k, i)
  /\ Count("equivalence-report")' \in Nat
  /\ Count("equivalence-report") <= Count("equivalence-report")'

(* The same slices have the same behaviours.                               *)
LEMMA SlicesLast ==
  ASSUME documents'["migration-slice"] = documents["migration-slice"]
  PROVE  \A s : SliceBehaviors(s)' = SliceBehaviors(s)
<1> TAKE s
<1>1. PICK own : own = {i \in Indices("migration-slice") : Doc("migration-slice", i).slice = s}
  OBVIOUS
<1>2. own = {i \in Indices("migration-slice") : Doc("migration-slice", i).slice = s}'
  BY <1>1 DEF Indices, Count, Doc
<1>3. PICK m : m = IF own = {} THEN NoDocument ELSE CHOOSE i \in own : \A j \in own : i >= j
  OBVIOUS
<1>4. LatestOfSlice("migration-slice", s) = m
  BY <1>1, <1>3 DEF LatestOfSlice
<1>5. LatestOfSlice("migration-slice", s)' = m
  BY <1>2, <1>3 DEF LatestOfSlice
<1> QED
  BY <1>4, <1>5 DEF SliceBehaviors, Doc

(* The reports that were read settle what they settled.                    *)
LEMMA SettledLasts ==
  ASSUME NEW n \in Nat, n <= Count("equivalence-report"), Grows, workState # "inception",
         Count("equivalence-report") \in Nat, Settled(n)
  PROVE  Settled(n)'
<1>1. \A s : SliceBehaviors(s)' = SliceBehaviors(s)
  BY SlicesLast DEF Grows
<1>2. BehaviorStatus' = BehaviorStatus
  BY DEF Grows, BehaviorStatus, Doc
<1>3. \A i \in 1 .. n : Doc("equivalence-report", i)' = Doc("equivalence-report", i)
  BY DEF Grows, Indices, Kinds
<1>4. ASSUME NEW b PROVE LastWord(b, n)' = LastWord(b, n)
  <2>1. PICK about : about = {i \in 1 .. n :
                       /\ b \in DOMAIN Doc("equivalence-report", i).results
                       /\ b \in SliceBehaviors(Doc("equivalence-report", i).slice)}
    OBVIOUS
  <2>2. about = {i \in 1 .. n :
                   /\ b \in DOMAIN Doc("equivalence-report", i)'.results
                   /\ b \in SliceBehaviors(Doc("equivalence-report", i).slice)'}
    BY <1>1, <1>3, <2>1
  <2>3. PICK last : last = CHOOSE i \in about : \A j \in about : i >= j
    OBVIOUS
  <2>4. LastWord(b, n) = IF about = {} THEN "none" ELSE Doc("equivalence-report", last).results[b]
    BY <2>1, <2>3 DEF LastWord
  <2>5. LastWord(b, n)' = IF about = {} THEN "none" ELSE Doc("equivalence-report", last)'.results[b]
    BY <2>2, <2>3 DEF LastWord
  <2>6. about # {} => last \in 1 .. n
    <3>1. about \in SUBSET (1 .. n)
      BY <2>1
    <3>2. about # {} => \E i \in about : \A j \in about : i >= j
      BY <3>1, LastOfPlaces
    <3> QED
      BY <2>3, <3>1, <3>2
  <2> QED
    BY <1>3, <2>4, <2>5, <2>6
<1> QED
  BY <1>2, <1>4 DEF Settled

LEMMA ModernizationBegins == ModernizationInit => ModernizationInv
<1> SUFFICES ASSUME ModernizationInit PROVE ModernizationInv
  OBVIOUS
<1>1. PICK c : documents = [k \in Kinds |-> IF k # "characterization" THEN <<>> ELSE <<c>>]
  BY DEF ModernizationInit
<1>2. IsSequence(<<>>) /\ IsSequence(<<c>>)
  <2>1. <<>> \in Seq({<<>>[i] : i \in 1 .. Len(<<>>)}) /\ <<c>> \in Seq({<<c>>[i] : i \in 1 .. Len(<<c>>)})
    OBVIOUS
  <2> QED
    BY <2>1, Zenon DEF IsSequence
<1>3. \A k \in Kinds : IsSequence(documents[k])
  BY <1>1, <1>2
<1>4. Indices("cutover-plan") = {}
  BY <1>1 DEF Indices, Count, Kinds
<1>5. RequestTypes /\ \A r \in Requesters : RequestIsRead(r)
  BY DEF ModernizationInit, RequestTypes, RequestIsRead, NoRequest
<1> QED
  BY <1>1, <1>3, <1>4, <1>5 DEF ModernizationInv, PlansFollowReports

(* A request that takes no step stays read.                                *)
LEMMA RequestLasts ==
  ASSUME ModernizationInv, Grows, NEW r \in Requesters, requests'[r] = requests[r]
  PROVE  RequestIsRead(r)'
<1>1. PICK q : q = requests[r]
  OBVIOUS
<1>2. q = requests'[r]
  BY <1>1
<1> SUFFICES ASSUME q.step # "none"
             PROVE  /\ q.gate \in {"build-verified", "completion"} => workState' # "inception"
                    /\ q.to = "operations" => q.gate \in {"none", "build-verified"}
                    /\ q.to = "completed" => q.gate \in {"none", "completion"}
                    /\ q.step = "move" => ReadWasSettled(q)'
  BY <1>2 DEF RequestIsRead
<1>3. /\ q.gate \in {"build-verified", "completion"} => workState # "inception"
      /\ q.to = "operations" => q.gate \in {"none", "build-verified"}
      /\ q.to = "completed" => q.gate \in {"none", "completion"}
      /\ q.step = "move" => ReadWasSettled(q)
  BY <1>1 DEF ModernizationInv, RequestIsRead
<1>4. q.reports \in Nat
  <2>1. q # NoRequest
    BY DEF NoRequest
  <2> QED
    BY <1>1, <2>1 DEF ModernizationInv, RequestTypes
<1>5. Count("equivalence-report") \in Nat
  BY AppendedSequence DEF ModernizationInv, Count, Kinds
<1>6. ASSUME q.step = "move" PROVE ReadWasSettled(q)'
  <2>1. ASSUME q.gate \in {"build-verified", "completion"}
        PROVE  q.reports <= Count("equivalence-report")' /\ Settled(q.reports)'
    <3>1. q.reports <= Count("equivalence-report") /\ Settled(q.reports) /\ workState # "inception"
      BY <1>3, <1>6, <2>1 DEF ReadWasSettled
    <3>2. Settled(q.reports)'
      BY <1>4, <1>5, <3>1, SettledLasts
    <3> QED
      BY <1>4, <1>5, <3>1, <3>2 DEF Grows
  <2>2. ASSUME q.gate = "completion"
        PROVE  1 \in Indices("cutover-plan")' /\ Doc("cutover-plan", 1)'.after = q.reports
    <3>1. 1 \in Indices("cutover-plan") /\ Doc("cutover-plan", 1).after = q.reports
      BY <1>3, <1>6, <2>2 DEF ReadWasSettled
    <3> QED
      BY <3>1 DEF Grows, Kinds
  <2> QED
    BY <2>1, <2>2 DEF ReadWasSettled
<1> QED
  BY <1>3, <1>6 DEF Grows

(* A step that registers nothing, and does not lead back to inception.     *)
LEMMA NothingRegistered ==
  ASSUME ModernizationInv, documents' = documents,
         workState' = "inception" => workState = "inception"
  PROVE  /\ Grows /\ PlansFollowReports'
         /\ documents' = [k \in Kinds |-> documents'[k]]
         /\ \A k \in Kinds : IsSequence(documents[k])'
<1>1. Count("equivalence-report") \in Nat
  BY AppendedSequence DEF ModernizationInv, Count, Kinds
<1>2. /\ \A k : Count(k)' = Count(k) /\ Indices(k)' = Indices(k)
      /\ \A k, i : Doc(k, i)' = Doc(k, i)
  BY DEF Count, Indices, Doc
<1> QED
  BY <1>1, <1>2 DEF Grows, ModernizationInv, PlansFollowReports, IsSequence

LEMMA RegisterKeeps ==
  ASSUME ModernizationInv, NEW kind \in Kinds, NEW contents, Register(kind, contents),
         kind = "cutover-plan" => /\ contents.after = Count("equivalence-report")
                                  /\ contents.reports \subseteq Indices("equivalence-report"),
         kind # "characterization", kind = "migration-slice" => workState = "inception"
  PROVE  ModernizationInv'
<1> DEFINE added == Append(documents[kind], contents)
<1>1. documents' = [documents EXCEPT ![kind] = added]
  BY DEF Register
<1>2. /\ IsSequence(documents[kind]) /\ IsSequence(added)
      /\ Len(added) = Len(documents[kind]) + 1 /\ Len(documents[kind]) \in Nat
      /\ added[Len(documents[kind]) + 1] = contents
      /\ \A i \in 1 .. Len(documents[kind]) : added[i] = documents[kind][i]
  BY AppendedSequence DEF ModernizationInv
<1> HIDE DEF added
<1>3. documents'[kind] = added /\ \A k \in Kinds : k # kind => documents'[k] = documents[k]
  BY <1>1 DEF ModernizationInv
<1>4. documents' = [k \in Kinds |-> documents'[k]] /\ \A k \in Kinds : IsSequence(documents'[k])
  BY <1>1, <1>2, <1>3 DEF ModernizationInv
<1>5. "equivalence-report" \in Kinds /\ "cutover-plan" \in Kinds
  BY DEF Kinds
<1>6. /\ Count("equivalence-report") \in Nat /\ Count("equivalence-report")' \in Nat
      /\ Count("equivalence-report") <= Count("equivalence-report")'
  <2>1. Count("equivalence-report") \in Nat
    BY <1>5, AppendedSequence DEF ModernizationInv, Count
  <2>2. CASE kind = "equivalence-report"
    BY <1>2, <1>3, <2>2 DEF Count
  <2>3. CASE kind # "equivalence-report"
    BY <1>3, <1>5, <2>1, <2>3 DEF Count
  <2> QED
    BY <2>2, <2>3
<1>7. ASSUME NEW i \in Indices("cutover-plan")'
      PROVE  /\ Doc("cutover-plan", i)'.after \in Nat
             /\ Doc("cutover-plan", i)'.after <= Count("equivalence-report")'
             /\ Doc("cutover-plan", i)'.reports \subseteq 1 .. Doc("cutover-plan", i)'.after
  <2>1. CASE i \in Indices("cutover-plan") /\ Doc("cutover-plan", i)' = Doc("cutover-plan", i)
    BY <1>6, <2>1 DEF ModernizationInv, PlansFollowReports
  <2>2. CASE kind = "cutover-plan" /\ Doc("cutover-plan", i)' = contents
    BY <1>3, <1>5, <1>6, <2>2 DEF Count, Indices
  <2>3. \/ i \in Indices("cutover-plan") /\ Doc("cutover-plan", i)' = Doc("cutover-plan", i)
        \/ kind = "cutover-plan" /\ Doc("cutover-plan", i)' = contents
    <3>1. CASE kind # "cutover-plan"
      BY <1>3, <1>5, <3>1 DEF Doc, Indices, Count
    <3>2. CASE kind = "cutover-plan"
      <4>1. i \in 1 .. Len(added) /\ Doc("cutover-plan", i)' = added[i]
        BY <1>3, <3>2 DEF Doc, Indices, Count
      <4>2. i \in 1 .. Len(documents[kind]) \/ i = Len(documents[kind]) + 1
        BY <1>2, <4>1
      <4> QED
        BY <1>2, <3>2, <4>1, <4>2 DEF Doc, Indices, Count
    <3> QED
      BY <3>1, <3>2
  <2> QED
    BY <2>1, <2>2, <2>3
<1>8. Grows
  <2>1. ASSUME NEW k \in Kinds
        PROVE  Indices(k) \subseteq Indices(k)' /\ \A i \in Indices(k) : Doc(k, i)' = Doc(k, i)
    <3>1. CASE k = kind
      BY <1>2, <1>3, <3>1 DEF Indices, Count, Doc
    <3>2. CASE k # kind
      BY <1>3, <3>2 DEF Indices, Count, Doc
    <3> QED
      BY <3>1, <3>2
  <2>2. /\ documents'["characterization"] = documents["characterization"]
        /\ workState = "inception" \/ documents'["migration-slice"] = documents["migration-slice"]
    BY <1>3 DEF Kinds
  <2>3. workState' = workState
    BY DEF Register
  <2> QED
    BY <1>6, <2>1, <2>2, <2>3 DEF Grows
<1>9. RequestTypes' /\ \A r \in Requesters : RequestIsRead(r)'
  <2>1. requests' = requests
    BY DEF Register
  <2> QED
    BY <1>8, <2>1, RequestLasts DEF ModernizationInv, RequestTypes
<1> QED
  BY <1>4, <1>7, <1>9 DEF ModernizationInv, PlansFollowReports

(* A step of one request.                                                  *)
LEMMA RequestKeeps ==
  ASSUME ModernizationInv, documents' = documents,
         workState' = "inception" => workState = "inception",
         NEW r \in Requesters, NEW q, requests' = [requests EXCEPT ![r] = q],
         q = NoRequest \/ q \in [step : {"read", "move"}, to : States,
           gate : {"none", "architecture-approved", "build-verified", "completion"},
           reports : Nat, current : SUBSET Nat],
         q.step # "none" =>
           /\ q.gate \in {"build-verified", "completion"} => workState' # "inception"
           /\ q.to = "operations" => q.gate \in {"none", "build-verified"}
           /\ q.to = "completed" => q.gate \in {"none", "completion"}
           /\ q.step = "move" => ReadWasSettled(q)
  PROVE  ModernizationInv'
<1>1. /\ Grows /\ PlansFollowReports'
      /\ documents' = [k \in Kinds |-> documents'[k]]
      /\ \A k \in Kinds : IsSequence(documents[k])'
  BY NothingRegistered
<1>2. requests'[r] = q /\ \A p \in Requesters \ {r} : requests'[p] = requests[p]
  BY DEF ModernizationInv, RequestTypes
<1>3. RequestTypes'
  BY DEF ModernizationInv, RequestTypes
<1>4. ReadWasSettled(q)' <=> ReadWasSettled(q)
  <2>1. \A s : SliceBehaviors(s)' = SliceBehaviors(s)
    BY SlicesLast
  <2>2. \A k, i : Doc(k, i)' = Doc(k, i)
    BY DEF Doc
  <2>3. ASSUME NEW b PROVE LastWord(b, q.reports)' = LastWord(b, q.reports)
    <3>1. PICK about : about = {i \in 1 .. q.reports :
                         /\ b \in DOMAIN Doc("equivalence-report", i).results
                         /\ b \in SliceBehaviors(Doc("equivalence-report", i).slice)}
      OBVIOUS
    <3>2. about = {i \in 1 .. q.reports :
                     /\ b \in DOMAIN Doc("equivalence-report", i)'.results
                     /\ b \in SliceBehaviors(Doc("equivalence-report", i).slice)'}
      BY <2>1, <2>2, <3>1
    <3>3. PICK last : last = CHOOSE i \in about : \A j \in about : i >= j
      OBVIOUS
    <3>4. LastWord(b, q.reports)
            = IF about = {} THEN "none" ELSE Doc("equivalence-report", last).results[b]
      BY <3>1, <3>3 DEF LastWord
    <3>5. LastWord(b, q.reports)'
            = IF about = {} THEN "none" ELSE Doc("equivalence-report", last)'.results[b]
      BY <3>2, <3>3 DEF LastWord
    <3> QED
      BY <2>2, <3>4, <3>5
  <2>4. Settled(q.reports)' <=> Settled(q.reports)
    BY <2>3 DEF Settled, BehaviorStatus, Doc
  <2> QED
    BY <2>4 DEF ReadWasSettled, Indices, Count, Doc
<1>5. RequestIsRead(r)'
  BY <1>2, <1>4 DEF RequestIsRead
<1>6. \A p \in Requesters : RequestIsRead(p)'
  BY <1>1, <1>2, <1>5, RequestLasts
<1> QED
  BY <1>1, <1>3, <1>6 DEF ModernizationInv

(* Reports count by their places.                                          *)
LEMMA CurrentArePlaces == ModernizationInv => CurrentReports \in SUBSET Nat
<1> SUFFICES ASSUME ModernizationInv, NEW s \in PlannedSlices
             PROVE  LatestOfSlice("equivalence-report", s) \in Nat
  BY DEF CurrentReports
<1>1. CASE \E i \in Indices("equivalence-report") : Doc("equivalence-report", i).slice = s
  <2>1. LatestOfSlice("equivalence-report", s) \in Indices("equivalence-report")
    BY <1>1, LatestIsLast DEF Kinds
  <2> QED
    BY <2>1 DEF Indices
<1>2. CASE ~\E i \in Indices("equivalence-report") : Doc("equivalence-report", i).slice = s
  BY <1>2 DEF LatestOfSlice, NoDocument
<1> QED
  BY <1>1, <1>2

(* The three steps of transition.                                          *)
LEMMA TransitionKeeps ==
  ASSUME ModernizationInv, NEW r \in Requesters, ReadState(r) \/ ReadDocuments(r) \/ Move(r)
  PROVE  ModernizationInv'
<1>1. CASE ReadState(r)
  <2>1. PICK to \in States \ {"inception"} :
          LET asked == GateOf(workState, to)
          IN  requests' = [requests EXCEPT ![r] =
                [step |-> IF asked = "none" THEN "move" ELSE "read", to |-> to, gate |-> asked,
                 reports |-> 0, current |-> {}]]
    BY <1>1 DEF ReadState
  <2> DEFINE asked == GateOf(workState, to)
             q == [step |-> IF asked = "none" THEN "move" ELSE "read", to |-> to, gate |-> asked,
                   reports |-> 0, current |-> {}]
  <2>2. requests' = [requests EXCEPT ![r] = q] /\ documents' = documents /\ workState' = workState
    BY <1>1, <2>1 DEF ReadState
  <2>3. /\ asked \in {"none", "architecture-approved", "build-verified", "completion"}
        /\ asked \in {"build-verified", "completion"} => workState # "inception"
        /\ to = "operations" => asked \in {"none", "build-verified"}
        /\ to = "completed" => asked \in {"none", "completion"}
    BY DEF GateOf
  <2> HIDE DEF asked
  <2>4. /\ q \in [step : {"read", "move"}, to : States,
                  gate : {"none", "architecture-approved", "build-verified", "completion"},
                  reports : Nat, current : SUBSET Nat]
        /\ q.gate = asked /\ q.to = to /\ (q.step = "move" => asked = "none")
    BY <2>3
  <2>5. q.step = "move" => ReadWasSettled(q)
    BY <2>4 DEF ReadWasSettled
  <2> HIDE DEF q
  <2> QED
    BY <2>2, <2>3, <2>4, <2>5, RequestKeeps
<1>2. CASE ReadDocuments(r)
  <2> DEFINE p == requests[r]
             q == [p EXCEPT !.step = "move", !.reports = Count("equivalence-report"),
                            !.current = CurrentReports]
  <2>1. /\ p.step = "read" /\ documents' = documents /\ workState' = workState
        /\ requests' = [requests EXCEPT ![r] = IF DocumentsAllow(p.gate) THEN q ELSE NoRequest]
    BY <1>2 DEF ReadDocuments, ModernizationInv, RequestTypes
  <2>2. p \in [step : {"read", "move"}, to : States,
              gate : {"none", "architecture-approved", "build-verified", "completion"},
              reports : Nat, current : SUBSET Nat]
    BY <2>1 DEF ModernizationInv, RequestTypes, NoRequest
  <2>3. Count("equivalence-report") \in Nat
    BY AppendedSequence DEF ModernizationInv, Count, Kinds
  <2>4. /\ q \in [step : {"read", "move"}, to : States,
                  gate : {"none", "architecture-approved", "build-verified", "completion"},
                  reports : Nat, current : SUBSET Nat]
        /\ q.gate = p.gate /\ q.to = p.to /\ q.reports = Count("equivalence-report")
    BY <2>2, <2>3, CurrentArePlaces
  <2>5. /\ p.gate \in {"build-verified", "completion"} => workState # "inception"
        /\ p.to = "operations" => p.gate \in {"none", "build-verified"}
        /\ p.to = "completed" => p.gate \in {"none", "completion"}
    BY <2>1 DEF ModernizationInv, RequestIsRead
  <2> HIDE DEF p, q
  <2>6. CASE DocumentsAllow(p.gate)
    <3>1. p.gate \in {"build-verified", "completion"} => EquivalenceShown
      BY <2>6 DEF DocumentsAllow
    <3>2. p.gate = "completion" => EquivalenceShown /\ CutoverCovers
      BY <2>6 DEF DocumentsAllow
    <3>3. CutoverCovers => 1 \in Indices("cutover-plan")
      BY DEF CutoverCovers, Only, Indices
    <3>4. ReadWasSettled(q)
      BY <2>3, <2>4, <3>1, <3>2, <3>3, ShownIsSettled, CoveredIsLast DEF ReadWasSettled
    <3>5. requests' = [requests EXCEPT ![r] = q]
      BY <2>1, <2>6
    <3> QED
      BY <2>1, <2>4, <2>5, <3>4, <3>5, RequestKeeps
  <2>7. CASE ~DocumentsAllow(p.gate)
    <3>1. requests' = [requests EXCEPT ![r] = NoRequest] /\ NoRequest.step = "none"
      BY <2>1, <2>7 DEF NoRequest
    <3> QED
      BY <2>1, <3>1, RequestKeeps
  <2> QED
    BY <2>6, <2>7
<1>3. CASE Move(r)
  <2>1. /\ documents' = documents /\ requests' = [requests EXCEPT ![r] = NoRequest]
        /\ NoRequest.step = "none"
    BY <1>3 DEF Move, NoRequest
  <2>2. workState' = "inception" => workState = "inception"
    BY <1>3 DEF Move, CoreMoves, GateOf
  <2> QED
    BY <2>1, <2>2, RequestKeeps
<1> QED
  BY <1>1, <1>2, <1>3

LEMMA ModernizationStep ==
  ASSUME ModernizationInv, ModernizationNext
  PROVE  ModernizationInv'
<1>1. CASE TransitionAtOnce \/ RecordSuccess
  <2>1. /\ documents' = documents /\ requests' = requests
        /\ workState' = "inception" => workState = "inception"
    BY <1>1 DEF TransitionAtOnce, RecordSuccess, CoreMoves, GateOf
  <2> QED
    BY <2>1, NothingRegistered, RequestLasts DEF ModernizationInv, RequestTypes
<1>2. CASE RegisterCutover
  <2>1. PICK reports \in SUBSET Indices("equivalence-report") :
          Register("cutover-plan", [slices |-> PlannedSlices, reports |-> reports,
                                    after |-> Count("equivalence-report")])
    BY <1>2 DEF RegisterCutover
  <2> DEFINE contents == [slices |-> PlannedSlices, reports |-> reports,
                          after |-> Count("equivalence-report")]
  <2>2. contents.after = Count("equivalence-report") /\ contents.reports = reports
    OBVIOUS
  <2> HIDE DEF contents
  <2> QED
    BY <2>1, <2>2, RegisterKeeps DEF Kinds, contents
<1>3. CASE RegisterPlan \/ RegisterConversion \/ RegisterReport
           \/ RegisterStabilization \/ RegisterRollback
  <2>1. \E kind \in Kinds \ {"cutover-plan", "characterization", "migration-slice"} :
          \E contents : Register(kind, contents)
    BY <1>3, Zenon DEF RegisterPlan, RegisterConversion, RegisterReport,
                       RegisterStabilization, RegisterRollback, Kinds
  <2> QED
    BY <2>1, RegisterKeeps
<1>4. CASE RegisterSlice
  <2>1. workState = "inception" /\ \E contents : Register("migration-slice", contents)
    BY <1>4, Zenon DEF RegisterSlice
  <2> QED
    BY <2>1, RegisterKeeps DEF Kinds
<1>5. CASE \E r \in Requesters : ReadState(r) \/ ReadDocuments(r) \/ Move(r)
  BY <1>5, TransitionKeeps
<1> QED
  BY <1>1, <1>2, <1>3, <1>4, <1>5 DEF ModernizationNext

-----------------------------------------------------------------------------
(* The parts side by side.                                                 *)

RecordsInv ==
  /\ SnapshotInv /\ GateInv /\ FindingInv /\ RInv /\ ModernizationInv
  /\ part = "review" => ReviewInv

(* A part that rests keeps its invariant.                                  *)
LEMMA RestingKeeps ==
  /\ SnapshotInv /\ UNCHANGED snapshotVars => SnapshotInv'
  /\ GateInv /\ UNCHANGED gateVars => GateInv'
  /\ FindingInv /\ UNCHANGED findingVars => FindingInv'
  /\ ReviewInv /\ UNCHANGED reviewVars => ReviewInv'
  /\ ModernizationInv /\ UNCHANGED modernizationVars => ModernizationInv'
<1>1. SnapshotInv /\ UNCHANGED snapshotVars => SnapshotInv'
  BY DEF snapshotVars, SnapshotInv, SnapshotTypes, NormalizedForms, Green, ReadsAreJoined,
         LedgerIsOrdered, AllowedWasTrueAtOnce, LedgerFollowsProvider
<1>2. GateInv /\ UNCHANGED gateVars => GateInv'
  BY DEF gateVars, GateInv, FactsAreRuns, EvidenceTestedItsCommit, Categories
<1>3. FindingInv /\ UNCHANGED findingVars => FindingInv'
  BY DEF findingVars, FindingInv, FindingTypes, StoredRecords, RecordsRepeatReports,
         DecisionsAreEntitled, Known, PassedScanIsDecided
<1>4. ReviewInv /\ UNCHANGED reviewVars => ReviewInv'
  BY DEF reviewVars, ReviewInv, ReviewTypes, WaivedIsGiven, AllowedReviewIsIndependent
<1>5. ModernizationInv /\ UNCHANGED modernizationVars => ModernizationInv'
  BY NothingRegistered, RequestLasts DEF modernizationVars, ModernizationInv, RequestTypes
<1> QED
  BY <1>1, <1>2, <1>3, <1>4, <1>5

LEMMA RecordsBegin == Init => RecordsInv
<1> SUFFICES ASSUME Init PROVE RecordsInv
  OBVIOUS
<1>1. /\ SnapshotInit /\ GateInit /\ FindingInit /\ RegulatedInit
      /\ part = "review" => ReviewInit
  BY DEF Init, SnapshotRest, GateRest
<1>2. ModernizationInit
  BY DEF Init, ModernizationRest
<1> QED
  BY <1>1, <1>2, SnapshotsBegin, GateBegins, FindingsBegin, ReviewBegins, RegulatedInitially,
     ModernizationBegins DEF RecordsInv

LEMMA RecordsStep == RecordsInv /\ [Next]_recordsVars => RecordsInv'
<1> SUFFICES ASSUME RecordsInv, [Next]_recordsVars PROVE RecordsInv'
  OBVIOUS
<1>1. /\ UNCHANGED part
      /\ SnapshotNext \/ UNCHANGED snapshotVars
      /\ GateNext \/ UNCHANGED gateVars
      /\ FindingNext \/ UNCHANGED findingVars
      /\ (ReviewNext /\ part = "review") \/ UNCHANGED reviewVars
      /\ RegulatedNext \/ UNCHANGED regulatedVars
      /\ ModernizationNext \/ UNCHANGED modernizationVars
  BY Zenon DEF Next, recordsVars
<1>2. SnapshotInv' /\ GateInv' /\ FindingInv' /\ ModernizationInv'
  BY <1>1, SnapshotsStep, GateStep, FindingsStep, ModernizationStep, RestingKeeps DEF RecordsInv
<1>3. RInv'
  BY <1>1, RegulatedStep DEF RecordsInv
<1>4. part' = "review" => ReviewInv'
  BY <1>1, ReviewStep, RestingKeeps DEF RecordsInv
<1> QED
  BY <1>2, <1>3, <1>4 DEF RecordsInv

(* The invariants of the parts hold side by side.                          *)
THEOREM RecordsInvariance == Spec => []RecordsInv
BY RecordsBegin, RecordsStep, PTL DEF Spec

(* Whatever the provider changes between two reads, an allowed GitHub      *)
(* snapshot was true at one instant and the GitLab ledger ends with what   *)
(* was observed last; successful evidence rests on successes of its own    *)
(* commit, however often the Work moved (normalize_delivery,               *)
(* reconcile_observation, evaluate_bundle).                                *)
THEOREM ObservationsStayTrue == Spec => []ObservationsAreTrue
<1>1. RecordsInv => ObservationsAreTrue
  BY DEF RecordsInv, ObservationsAreTrue, SnapshotInv, GateInv
<1> QED
  BY <1>1, RecordsInvariance, PTL

(* Passed scans left no finding to decide, thresholds are monotonic, and   *)
(* allowed reviews are of the present revision and independent, however    *)
(* records are rewritten and artifacts produced again (evaluate_findings,  *)
(* evaluate_review).                                                       *)
THEOREM DecisionsStayIndependent == Spec => []DecisionsAreIndependent
<1>1. RecordsInv => DecisionsAreIndependent
  BY WeakerScansPass DEF RecordsInv, DecisionsAreIndependent, FindingInv, ReviewInv
<1> QED
  BY <1>1, RecordsInvariance, PTL

(* The same of the regulated profile's actions, among the other records.   *)
THEOREM RegulatedActionsStayBacked == Spec => []RegulatedActionsAreBacked
<1>1. RecordsInv => RegulatedActionsAreBacked
  BY DEF RecordsInv, RegulatedActionsAreBacked, RInv
<1> QED
  BY <1>1, RecordsInvariance, PTL

(* Whatever slices, reports, requests, rework and behaviours there are, a  *)
(* request that assessed a gate takes a Work into operations or completes  *)
(* it only with every behaviour settled by the last report of its slice    *)
(* among those it read, and completes it only when none of these came      *)
(* after the cutover plan (assess_documents, assess_gate, transition).     *)
THEOREM ModernizationStaysSettled == Spec => ModernizationIsSettled
<1>1. RecordsInv /\ [Next]_recordsVars
        => [SettledStep]_modernizationVars /\ [CutoverStep]_modernizationVars
  <2>1. [Next]_recordsVars => [ModernizationNext]_modernizationVars
    BY Zenon DEF Next, recordsVars
  <2> QED
    BY <2>1, TransitionSettles DEF RecordsInv
<1> QED
  BY <1>1, RecordsInvariance, PTL DEF Spec, ModernizationIsSettled, BehaviorsAreSettled,
     CutoverFollowsReports
=============================================================================
