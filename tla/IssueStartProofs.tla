--------------------------- MODULE IssueStartProofs ---------------------------
(***************************************************************************)
(* What TLAPS proves of prepare_start, for every repository and issue, any *)
(* number of starts and cuts, edits and commits at any time and anything   *)
(* the person does between the starts: unrelated edits a start could see   *)
(* stay on their branch, and a start that ends as prepared has prepared the*)
(* branch of the issue.                                                    *)
(***************************************************************************)
EXTENDS IssueStart, TLAPS

Checkouts == {"main", "linked"}

-----------------------------------------------------------------------------
(* The governed state.                                                     *)

(* A step of the preparation leaves a governed state with the same Works.  *)
Leaves(g, h) == h \in Governed /\ h.work = g.work

LEMMA InstalledLeaves ==
  ASSUME NEW g \in Governed
  PROVE  Leaves(g, Installed(g))
<1> DEFINE a == [g EXCEPT !.method = "packaged"]
<1>1. "packaged" \in Contents
  BY DEF Contents
<1>2. a \in Governed /\ a.work = g.work
  BY <1>1 DEF Governed
<1>3. [a EXCEPT !.locked = "packaged"] \in Governed /\ [a EXCEPT !.locked = "packaged"].work = a.work
  <2> HIDE DEF a
  <2>1. QED
    BY <1>1, <1>2 DEF Governed
<1>4. Installed(g) = [a EXCEPT !.locked = "packaged"]
  BY DEF Installed
<1>5. QED
  BY <1>2, <1>3, <1>4 DEF Leaves

(* Each step before the swarm is resolved, and that step.                  *)
LEMMA PreparedLeaves ==
  ASSUME NEW g \in Governed, NEW step \in Range(Preparation), NEW h \in Prepared(step, g)
  PROVE  Leaves(g, h)
<1>1. Range(Preparation) = {"initialize", "frontmatter", "selection", "method", "review",
                            "refresh", "skill", "issues", "adapters", "actors", "swarm"}
  BY DEF Range, Preparation
<1>2. Leaves(g, g)
  BY DEF Leaves
<1>3. g.method \in Contents /\ "packaged" \in Contents /\ "canonical" \in Contents
  BY DEF Governed, Contents
<1>4. CASE step = "initialize"
  <2>1. h = g \/ h = [g EXCEPT !.flavor = "ours"]
    BY <1>4 DEF Prepared, Initialized
  <2>2. QED
    BY <1>2, <2>1 DEF Leaves, Governed
<1>5. CASE step = "frontmatter"
  <2>1. h = g \/ (g.method = "wrapped" /\ h = [g EXCEPT !.method = "canonical"])
    BY <1>5 DEF Prepared, FrontMatterRepaired, RepairsFrontMatter
  <2>2. QED
    BY <1>2, <1>3, <2>1 DEF Leaves, Governed
<1>6. CASE step = "selection"
  <2>1. h = [g EXCEPT !.flavor = "ours"]
    BY <1>6 DEF Prepared, ProjectSelected
  <2>2. QED
    BY <2>1 DEF Leaves, Governed
<1>7. CASE step = "method"
  <2>1. \/ h = g
        \/ g.method = "none" /\ h = Installed(g)
        \/ g.method = "reformatted" /\ h = [g EXCEPT !.method = "packaged"]
    BY <1>7 DEF Prepared, MethodEnsured
  <2>2. QED
    BY <1>2, <1>3, <2>1, InstalledLeaves DEF Leaves, Governed
<1>8. CASE step = "review"
  <2>1. h = g \/ (g.method = "restricted" /\ h = Installed(g))
    BY <1>8 DEF Prepared, ReviewWriteEnsured
  <2>2. QED
    BY <1>2, <2>1, InstalledLeaves
<1>9. CASE step = "refresh"
  <2>1. h = [g EXCEPT !.locked = g.method]
    BY <1>9 DEF Prepared, LockRefreshed
  <2>2. QED
    BY <1>3, <2>1 DEF Leaves, Governed
<1>10. CASE step = "skill"
  <2>1. h = [g EXCEPT !.skill = "complete"]
    BY <1>10 DEF Prepared, SkillEnsured
  <2>2. QED
    BY <2>1 DEF Leaves, Governed
<1>11. CASE step = "issues"
  <2> DEFINE a == [g EXCEPT !.issues = "working"]
  <2>1. h = a \/ h = [a EXCEPT !.locked = g.method]
    BY <1>11 DEF Prepared, IssuesAdapterEnsured
  <2>2. Leaves(g, a)
    BY DEF Leaves, Governed
  <2> HIDE DEF a
  <2>3. Leaves(a, [a EXCEPT !.locked = g.method])
    BY <1>3, <2>2 DEF Leaves, Governed
  <2>4. QED
    BY <2>1, <2>2, <2>3 DEF Leaves
<1>12. CASE step = "adapters"
  <2> DEFINE a == [g EXCEPT !.adapters = TRUE]
  <2>1. h = g \/ h = [a EXCEPT !.locked = g.method]
    BY <1>12 DEF Prepared, AdaptersEnsured
  <2>2. Leaves(g, a)
    BY DEF Leaves, Governed
  <2> HIDE DEF a
  <2>3. Leaves(a, [a EXCEPT !.locked = g.method])
    BY <1>3, <2>2 DEF Leaves, Governed
  <2>4. QED
    BY <1>2, <2>1, <2>2, <2>3 DEF Leaves
<1>13. CASE step = "actors"
  <2>1. h = [g EXCEPT !.actors = TRUE]
    BY <1>13 DEF Prepared, ActorsEnsured
  <2>2. QED
    BY <2>1 DEF Leaves, Governed
<1>14. CASE step = "swarm"
  <2>1. PICK s \in Swarms : h = g \/ h = [g EXCEPT !.swarm[s].status = "ready"]
    BY <1>14 DEF Prepared, SwarmResolved, ResolvedSwarm, Swarms
  <2>2. QED
    BY <1>2, <2>1 DEF Leaves, Governed
<1>15. QED
  BY <1>1, <1>4, <1>5, <1>6, <1>7, <1>8, <1>9, <1>10, <1>11, <1>12, <1>13, <1>14

(* So do the assignments of a swarm's actors.                              *)
LEMMA AssignedLeaves ==
  ASSUME NEW g \in Governed, NEW s \in Swarms
  PROVE  /\ \A h \in OwnerAssigned(g, s) : Leaves(g, h)
         /\ \A h \in DeveloperAssigned(g, s) : Leaves(g, h)
<1> DEFINE Actors == [status : {"none", "ready", "terminal"}, owner : BOOLEAN, developer : BOOLEAN]
<1>1. g.swarm \in [Swarms -> Actors]
  BY DEF Governed
<1>2. ASSUME NEW a \in Actors
      PROVE  Leaves(g, [g EXCEPT !.swarm = [g.swarm EXCEPT ![s] = a]])
  <2>1. [g.swarm EXCEPT ![s] = a] \in [Swarms -> Actors]
    BY <1>1
  <2>2. QED
    BY <2>1 DEF Leaves, Governed
<1>3. /\ [g.swarm[s] EXCEPT !.owner = TRUE] \in Actors
      /\ [g.swarm[s] EXCEPT !.developer = TRUE] \in Actors
  BY <1>1
<1>4. /\ [g EXCEPT !.swarm[s].owner = TRUE]
           = [g EXCEPT !.swarm = [g.swarm EXCEPT ![s] = [g.swarm[s] EXCEPT !.owner = TRUE]]]
      /\ [g EXCEPT !.swarm[s].developer = TRUE]
           = [g EXCEPT !.swarm = [g.swarm EXCEPT ![s] = [g.swarm[s] EXCEPT !.developer = TRUE]]]
  OBVIOUS
<1>5. QED
  BY <1>2, <1>3, <1>4 DEF OwnerAssigned, DeveloperAssigned

(* The steps behind the Work change one part of the governed state each.   *)
LEMMA PartsLeave ==
  ASSUME NEW g \in Governed
  PROVE  /\ \A x \in {"launched", "failed", "completed"} :
              Leaves(g, [g EXCEPT !.read = x])
         /\ Leaves(g, [g EXCEPT !.intent = TRUE])
         /\ Leaves(g, [g EXCEPT !.draft = TRUE])
         /\ Leaves(g, [g EXCEPT !.handoff = TRUE])
<1>1. \A x \in {"launched", "failed", "completed"} : Leaves(g, [g EXCEPT !.read = x])
  BY DEF Leaves, Governed
<1>2. Leaves(g, [g EXCEPT !.intent = TRUE])
  BY DEF Leaves, Governed
<1>3. Leaves(g, [g EXCEPT !.draft = TRUE])
  BY DEF Leaves, Governed
<1>4. Leaves(g, [g EXCEPT !.handoff = TRUE])
  BY DEF Leaves, Governed
<1>5. QED
  BY <1>1, <1>2, <1>3, <1>4

-----------------------------------------------------------------------------
(* What a step does to the checkouts.                                      *)

Switches == {"switchToRead", "switchToCreate"}

(* It writes the governed state where the start works, or nothing.         *)
Wrote(h) ==
  /\ h \in Governed
  /\ gov' = [gov EXCEPT ![root] = h]
  /\ UNCHANGED <<tip, branch, edits, late, root>>

LEMMA StartWorksHere ==
  ASSUME TypeOK, InTheirPlaces, pc # "idle"
  PROVE  /\ Here \in Governed /\ root \in Checkouts
         /\ gov \in [Checkouts -> Governed \cup {Absent}]
         /\ branch[root] \in {"base", "issue"}
         /\ root = "main" \/ branch[root] = "issue"
         /\ branch["main"] = branch.main /\ branch["linked"] = branch.linked
<1>1. root \in Checkouts /\ gov \in [Checkouts -> Governed \cup {Absent}]
  BY DEF TypeOK, Checkouts
<1>2. branch \in [main : {"base", "issue"}, linked : {"issue", "foreign", Absent}]
  BY DEF TypeOK
<1>3. branch["main"] = branch.main /\ branch["linked"] = branch.linked
  OBVIOUS
<1>4. CASE root = "main"
  BY <1>1, <1>2, <1>3, <1>4 DEF InTheirPlaces, Here
<1>5. CASE root = "linked"
  <2>1. branch.linked = "issue" /\ gov["linked"] \in Governed
    BY <1>5 DEF InTheirPlaces
  <2>2. QED
    BY <1>1, <1>2, <1>3, <1>5, <2>1 DEF Here
<1>6. QED
  BY <1>1, <1>3, <1>4, <1>5 DEF Checkouts

(* Writing keeps everything in its place when the Works stay, but for one  *)
(* that is added on the branch of the issue.                               *)
LEMMA WriteKeepsPlaces ==
  ASSUME TypeOK, InTheirPlaces, EditsAside, WorksComeByMerge, pc # "idle" \/ pc' = "idle",
         pc' = pc \/ pc' \notin Switches,
         NEW c \in Checkouts, gov[c] \in Governed, NEW h \in Governed,
         gov' = [gov EXCEPT ![c] = h], UNCHANGED <<tip, branch, edits, late, root>>,
         gov[c].work \subseteq h.work, branch[c] = "issue" \/ h.work = gov[c].work
  PROVE  /\ InTheirPlaces' /\ EditsAside' /\ WorksComeByMerge'
         /\ gov' \in [Checkouts -> Governed \cup {Absent}] /\ gov'[c] = h
         /\ \A r \in Checkouts : r # c => gov'[r] = gov[r]
<1>1. /\ gov \in [Checkouts -> Governed \cup {Absent}]
      /\ branch["main"] = branch.main /\ branch["linked"] = branch.linked
  BY DEF TypeOK, Checkouts
<1>2. c = "main" \/ branch[c] = "issue"
  <2>1. Absent \notin Governed
    BY WorksAssumption
  <2>2. QED
    BY <1>1, <2>1 DEF InTheirPlaces, Checkouts
<1>3. /\ gov'[c] = h /\ \A r \in Checkouts : r # c => gov'[r] = gov[r]
      /\ gov' \in [Checkouts -> Governed \cup {Absent}]
  BY <1>1
<1>4. InTheirPlaces'
  <2>1. gov'["main"] \in Governed
    BY <1>3 DEF InTheirPlaces, Checkouts
  <2>2. IF branch.linked = "issue" THEN gov'["linked"] \in Governed ELSE gov'["linked"] = Absent
    <3>1. CASE c = "linked"
      BY <1>1, <1>2, <1>3, <3>1
    <3>2. CASE c # "linked"
      BY <1>3, <3>2 DEF InTheirPlaces, Checkouts
    <3>3. QED
      BY <3>1, <3>2
  <2>3. QED
    BY <2>1, <2>2 DEF InTheirPlaces, Switches
<1>5. EditsAside'
  BY DEF EditsAside
<1>6. WorksComeByMerge'
  <2>1. \A r \in Checkouts : branch[r] = "issue" => tip["issue"].work \subseteq gov'[r].work
    <3>1. \A r \in Checkouts : branch[r] = "issue" => tip["issue"].work \subseteq gov[r].work
      BY DEF WorksComeByMerge, Checkouts
    <3>2. QED
      BY <1>3, <3>1
  <2>2. branch.main = "base" => gov'["main"].work = tip["base"].work
    <3>1. branch.main = "base" => gov["main"].work = tip["base"].work
      BY DEF WorksComeByMerge
    <3>2. QED
      BY <1>1, <1>3, <3>1 DEF Checkouts
  <2>3. /\ tip["issue"] # Absent => tip["base"].work \subseteq tip["issue"].work
        /\ tip["issue"] = Absent /\ tip["remote"] # Absent =>
             tip["base"].work \subseteq tip["remote"].work
    BY DEF WorksComeByMerge
  <2>4. QED
    BY <2>1, <2>2, <2>3 DEF WorksComeByMerge, Checkouts
<1>7. QED
  BY <1>3, <1>4, <1>5, <1>6

(* A step that writes nothing keeps everything where it was.               *)
LEMMA StayKeepsPlaces ==
  ASSUME InTheirPlaces, EditsAside, WorksComeByMerge,
         UNCHANGED repo, UNCHANGED root, pc # "idle" \/ pc' = "idle",
         pc' \notin Switches
  PROVE  InTheirPlaces' /\ EditsAside' /\ WorksComeByMerge' /\ Here' = Here
<1>1. UNCHANGED <<tip, branch, gov, edits, late, root>>
  BY DEF repo
<1>2. InTheirPlaces'
  BY <1>1 DEF InTheirPlaces, Switches
<1>3. EditsAside'
  BY <1>1 DEF EditsAside
<1>4. WorksComeByMerge'
  BY <1>1 DEF WorksComeByMerge
<1>5. QED
  BY <1>1, <1>2, <1>3, <1>4 DEF Here

(* The issue's branch is checked out in the main checkout.                 *)
LEMMA CheckoutKeepsPlaces ==
  ASSUME TypeOK, InTheirPlaces, EditsAside, WorksComeByMerge, Checkout
  PROVE  /\ InTheirPlaces' /\ EditsAside' /\ WorksComeByMerge'
         /\ root = "main" /\ tip["base"].work \subseteq tip["issue"].work
         /\ tip["issue"] \in Governed /\ Here' = tip["issue"] /\ Here.work = tip["base"].work
         /\ branch' \in [main : {"issue"}, linked : {"foreign", Absent}]
         /\ gov' \in [Checkouts -> Governed \cup {Absent}]
         /\ UNCHANGED <<tip, edits, late, running>>
<1>1. /\ pc \in Switches /\ pc' \in {"read", "create"}
      /\ gov \in [Checkouts -> Governed \cup {Absent}]
  BY DEF Checkout, Goto, TypeOK, Checkouts, Switches
<1>2. branch \in [main : {"base", "issue"}, linked : {"issue", "foreign", Absent}]
  BY DEF TypeOK
<1>3. /\ root = "main" /\ branch.main = "base" /\ branch.linked # "issue"
      /\ tip["issue"] \in Governed /\ tip["issue"] # Absent
  BY <1>1 DEF InTheirPlaces, Switches, TypeOK, Branches
<1>4. /\ branch' = [branch EXCEPT !["main"] = "issue"] /\ gov' = [gov EXCEPT !["main"] = tip["issue"]]
      /\ UNCHANGED <<tip, edits, late, root, running>>
  BY <1>3 DEF Checkout, running
<1>5. /\ branch'.main = "issue" /\ branch'.linked = branch.linked
      /\ branch'["main"] = "issue" /\ branch'["linked"] = branch.linked
      /\ branch' \in [main : {"issue"}, linked : {"foreign", Absent}]
  BY <1>2, <1>3, <1>4
<1>6. /\ gov'["main"] = tip["issue"] /\ gov'["linked"] = gov["linked"]
      /\ gov' \in [Checkouts -> Governed \cup {Absent}]
  BY <1>1, <1>3, <1>4 DEF Checkouts
<1>7. InTheirPlaces'
  BY <1>1, <1>2, <1>3, <1>4, <1>5, <1>6 DEF InTheirPlaces
<1>8. EditsAside'
  BY <1>5 DEF EditsAside
<1>9. WorksComeByMerge'
  BY <1>3, <1>4, <1>5, <1>6 DEF WorksComeByMerge
<1>10. tip["base"].work \subseteq tip["issue"].work /\ Here.work = tip["base"].work
  BY <1>3 DEF WorksComeByMerge, Here
<1>11. QED
  BY <1>2, <1>3, <1>4, <1>5, <1>6, <1>7, <1>8, <1>9, <1>10 DEF Here

-----------------------------------------------------------------------------
(* The steps of a start.                                                   *)

(* The names of the steps.                                                 *)
LEMMA StepsAre ==
  /\ Range(Preparation) = {"initialize", "frontmatter", "selection", "method", "review",
                           "refresh", "skill", "issues", "adapters", "actors", "swarm"}
  /\ Range(Materialization) = {"requirements", "unit", "registerIntent", "registerRequirements",
                               "registerUnit", "elaborate", "clarify"}
  /\ Head(Preparation) = "initialize" /\ Head(Materialization) = "requirements"
  /\ Last(Materialization) = "clarify"
<1>1. Range(Preparation) = {"initialize", "frontmatter", "selection", "method", "review",
                            "refresh", "skill", "issues", "adapters", "actors", "swarm"}
  BY DEF Range, Preparation
<1>2. Range(Materialization) = {"requirements", "unit", "registerIntent", "registerRequirements",
                                "registerUnit", "elaborate", "clarify"}
  BY DEF Range, Materialization
<1>3. Head(Preparation) = "initialize" /\ Head(Materialization) = "requirements"
  BY DEF Preparation, Materialization
<1>4. Last(Materialization) = "clarify"
  BY DEF Last, Materialization
<1>5. QED
  BY <1>1, <1>2, <1>3, <1>4

(* Every step of the preparation but the last has one that follows it, and *)
(* so has every step of the materialization.                               *)
LEMMA StepsFollow ==
  /\ \A step \in Range(Preparation) \ {"swarm"} : Following(step) \in Range(Preparation)
  /\ \A step \in Range(Materialization) \ {"clarify"} :
       Materialization[(CHOOSE i \in DOMAIN Materialization : Materialization[i] = step) + 1]
         \in Range(Materialization)
<1>1. ASSUME NEW step \in Range(Preparation) \ {"swarm"}
      PROVE  Following(step) \in Range(Preparation)
  <2> DEFINE i == CHOOSE j \in DOMAIN Preparation : Preparation[j] = step
  <2>1. i \in DOMAIN Preparation /\ Preparation[i] = step
    BY DEF Range
  <2>2. DOMAIN Preparation = 1 .. 11 /\ Preparation[11] = "swarm"
    BY DEF Preparation
  <2> HIDE DEF i
  <2>3. i \in 1 .. 10
    BY <2>1, <2>2
  <2>4. i + 1 \in DOMAIN Preparation
    BY <2>2, <2>3
  <2>5. Preparation[i + 1] \in Range(Preparation)
    BY <2>4 DEF Range
  <2>6. QED
    BY <2>5 DEF Following, i
<1>2. ASSUME NEW step \in Range(Materialization) \ {"clarify"}
      PROVE  Materialization[(CHOOSE j \in DOMAIN Materialization : Materialization[j] = step) + 1]
               \in Range(Materialization)
  <2> DEFINE i == CHOOSE j \in DOMAIN Materialization : Materialization[j] = step
  <2>1. i \in DOMAIN Materialization /\ Materialization[i] = step
    BY DEF Range
  <2>2. DOMAIN Materialization = 1 .. 7 /\ Materialization[7] = "clarify"
    BY DEF Materialization
  <2> HIDE DEF i
  <2>3. i \in 1 .. 6
    BY <2>1, <2>2
  <2>4. i + 1 \in DOMAIN Materialization
    BY <2>2, <2>3
  <2>5. Materialization[i + 1] \in Range(Materialization)
    BY <2>4 DEF Range
  <2>6. QED
    BY <2>5 DEF i
<1>3. QED
  BY <1>1, <1>2

(* The steps up to the Work, behind which nothing has been prepared yet.   *)
Early == Range(Preparation) \cup {"idle", "owner", "developer", "work"}

LEMMA EarlyIsPrepared ==
  ASSUME pc' \in Early
  PROVE  PreparedSoFar'
BY StepsAre DEF Early, PreparedSoFar, Onward

(* The steps that write: what they write, and what they leave alone.       *)
LEMMA PreparationWrites ==
  ASSUME StartInv,
         Prepare \/ RefreshLock \/ ResolveSwarm \/ AssignOwner \/ AssignDeveloper
  PROVE  /\ pc \in Early \ {"idle"} /\ pc' \in (Early \cap Steps) \ {"idle"}
         /\ swarm' \in Swarms /\ repaired' \in BOOLEAN
         /\ UNCHANGED <<gap, issue, outcome, cuts, acts>>
         /\ \E h : Wrote(h) /\ Leaves(Here, h)
<1>1. pc # "idle"
  BY StepsAre DEF Prepare, RefreshLock, ResolveSwarm, AssignOwner, AssignDeveloper
<1>2. Here \in Governed /\ gov[root] = Here
  BY <1>1, StartWorksHere DEF StartInv, Here
<1>3. swarm \in Swarms /\ repaired \in BOOLEAN
  BY DEF StartInv, TypeOK
<1>4. Leaves(Here, Here) /\ [gov EXCEPT ![root] = Here] = gov
  <2>1. gov \in [Checkouts -> Governed \cup {Absent}] /\ root \in Checkouts
    BY <1>1, StartWorksHere DEF StartInv
  <2>2. QED
    BY <1>2, <2>1 DEF Leaves
<1>5. /\ Early \subseteq Steps
      /\ "owner" \in Early /\ "developer" \in Early /\ "work" \in Early
  BY DEF Early, Steps
<1>6. CASE Prepare
  <2>1. /\ pc \in Range(Preparation) \ {"swarm"} /\ pc' = Following(pc)
        /\ UNCHANGED <<tip, branch, edits, late, root, swarm, gap, issue, outcome, cuts, acts>>
        /\ repaired' \in BOOLEAN
    BY <1>3, <1>6 DEF Prepare, Goto, RepairsFrontMatter
  <2>2. PICK h \in Prepared(pc, Here) : gov' = [gov EXCEPT ![root] = h]
    BY <1>6 DEF Prepare, Write
  <2>3. Leaves(Here, h)
    BY <1>2, <2>1, PreparedLeaves
  <2>4. Wrote(h)
    BY <2>1, <2>2, <2>3 DEF Wrote, Leaves
  <2>5. pc' \in Early /\ pc' # "idle"
    BY <2>1, StepsFollow, StepsAre DEF Early
  <2>6. QED
    BY <1>1, <1>3, <1>5, <2>1, <2>3, <2>4, <2>5 DEF Early
<1>7. CASE RefreshLock
  <2>1. /\ pc = "refresh" /\ pc' = Following(pc)
        /\ UNCHANGED <<tip, branch, edits, late, root, swarm, repaired, gap, issue, outcome, cuts, acts>>
    BY <1>7 DEF RefreshLock, Goto, Keep, running
  <2>2. Prepared("refresh", Here) = LockRefreshed(Here)
    BY DEF Prepared
  <2>3. PICK h : gov' = [gov EXCEPT ![root] = h] /\ (h = Here \/ h \in Prepared("refresh", Here))
    BY <1>4, <1>7, <2>2 DEF RefreshLock, Write
  <2>4. Leaves(Here, h)
    BY <1>2, <1>4, <2>3, PreparedLeaves, StepsAre
  <2>5. Wrote(h)
    BY <2>1, <2>3, <2>4 DEF Wrote, Leaves
  <2>6. pc' \in Early /\ pc' # "idle"
    BY <2>1, StepsFollow, StepsAre DEF Early
  <2>7. QED
    BY <1>1, <1>3, <1>5, <2>1, <2>4, <2>5, <2>6, StepsAre DEF Early
<1>8. CASE ResolveSwarm
  <2>1. /\ pc = "swarm" /\ pc' \in {"owner", "work"} /\ swarm' = ResolvedSwarm(Here)
        /\ UNCHANGED <<tip, branch, edits, late, root, repaired, gap, issue, outcome, cuts, acts>>
    BY <1>8 DEF ResolveSwarm, Goto
  <2>2. Prepared("swarm", Here) = SwarmResolved(Here)
    BY DEF Prepared
  <2>3. PICK h \in Prepared("swarm", Here) : gov' = [gov EXCEPT ![root] = h]
    BY <1>8, <2>2 DEF ResolveSwarm, Write
  <2>4. Leaves(Here, h)
    BY <1>2, <2>3, PreparedLeaves, StepsAre
  <2>5. Wrote(h)
    BY <2>1, <2>3, <2>4 DEF Wrote, Leaves
  <2>6. swarm' \in Swarms
    BY <2>1 DEF ResolvedSwarm, Swarms
  <2>7. QED
    BY <1>1, <1>3, <1>5, <2>1, <2>4, <2>5, <2>6, StepsAre DEF Early
<1>9. CASE AssignOwner \/ AssignDeveloper
  <2>1. /\ pc \in {"owner", "developer"} /\ pc' \in {"developer", "work"}
        /\ UNCHANGED <<tip, branch, edits, late, root, swarm, repaired, gap, issue, outcome, cuts, acts>>
    BY <1>9 DEF AssignOwner, AssignDeveloper, Goto, Keep, running
  <2>2. PICK h \in OwnerAssigned(Here, swarm) \cup DeveloperAssigned(Here, swarm) :
          gov' = [gov EXCEPT ![root] = h]
    BY <1>9 DEF AssignOwner, AssignDeveloper, Write
  <2>3. Leaves(Here, h)
    BY <1>2, <1>3, <2>2, AssignedLeaves
  <2>4. Wrote(h)
    BY <2>1, <2>2, <2>3 DEF Wrote, Leaves
  <2>5. QED
    BY <1>1, <1>3, <1>5, <2>1, <2>3, <2>4 DEF Early
<1>10. QED
  BY <1>6, <1>7, <1>8, <1>9

(* The Work is created on the branch of the issue.                         *)
LEMMA WorkIsCreated ==
  ASSUME StartInv, CreateWork
  PROVE  /\ pc # "idle" /\ pc' = "read" /\ PreparedSoFar'
         /\ UNCHANGED <<running, outcome, cuts, acts>>
         /\ \E h : Wrote(h) /\ Here.work \subseteq h.work /\ branch[root] = "issue"
<1> DEFINE h == [Here EXCEPT !.work = Here.work \cup {swarm}]
<1>1. /\ pc = "create" /\ pc' = "read" /\ gov' = [gov EXCEPT ![root] = h]
      /\ UNCHANGED <<tip, branch, edits, late, running, outcome, cuts, acts>>
  BY DEF CreateWork, Write, Goto, Keep
<1>2. /\ Here \in Governed /\ root \in Checkouts
      /\ gov \in [Checkouts -> Governed \cup {Absent}]
  BY <1>1, StartWorksHere DEF StartInv
<1>3. swarm \in Swarms
  BY DEF StartInv, TypeOK
<1>4. h \in Governed /\ h.work = Here.work \cup {swarm}
  BY <1>2, <1>3 DEF Governed
<1>5. branch[root] = "issue"
  BY <1>1 DEF StartInv, PreparedSoFar, Onward
<1>6. UNCHANGED <<root, swarm>>
  BY <1>1 DEF running
<1>7. Wrote(h) /\ gov'[root] = h
  BY <1>1, <1>2, <1>4, <1>6 DEF Wrote
<1>8. PreparedSoFar'
  BY <1>1, <1>4, <1>5, <1>6, <1>7, StepsAre DEF PreparedSoFar, Onward, Here
<1>9. QED
  BY <1>1, <1>4, <1>5, <1>7, <1>8

(* The governed read of the issue.                                         *)
LEMMA ReadWrites ==
  ASSUME StartInv, EnableRead \/ LaunchRead \/ FinishRead \/ FailRead
  PROVE  /\ pc # "idle" /\ pc' \in {"launch", "reading", "intent", "idle"} /\ PreparedSoFar'
         /\ UNCHANGED <<running, acts>>
         /\ outcome' \in {outcome, "refused"}
         /\ cuts' = cuts \/ (cuts < MaxCuts /\ cuts' = cuts + 1)
         /\ \E h : Wrote(h) /\ Leaves(Here, h)
<1>1. pc \in {"read", "launch", "reading"}
  BY DEF EnableRead, LaunchRead, FinishRead, FailRead
<1>2. /\ Here \in Governed /\ root \in Checkouts
      /\ gov \in [Checkouts -> Governed \cup {Absent}]
  BY <1>1, StartWorksHere DEF StartInv
<1>3. branch[root] = "issue" /\ swarm \in Here.work
  BY <1>1 DEF StartInv, PreparedSoFar, Onward
<1>4. UNCHANGED <<tip, branch, edits, late, running, acts>> /\ UNCHANGED <<root, swarm>>
  BY DEF EnableRead, LaunchRead, FinishRead, FailRead, Goto, Keep, running
<1>5. ASSUME NEW h \in Governed, Leaves(Here, h), gov' = [gov EXCEPT ![root] = h]
      PROVE  Wrote(h) /\ Here' = h /\ swarm \in h.work
  BY <1>2, <1>3, <1>4, <1>5 DEF Wrote, Leaves, Here
<1>6. CASE EnableRead
  <2> DEFINE a == IF Here.method = "legacy" THEN Installed(Here) ELSE Here
             i == IF a.issues = "none" THEN "working" ELSE a.issues
             h == [a EXCEPT !.issues = i]
  <2>1. pc = "read" /\ pc' = "launch" /\ gov' = [gov EXCEPT ![root] = h]
        /\ UNCHANGED <<outcome, cuts>>
    BY <1>6 DEF EnableRead, Write, Goto
  <2>2. Leaves(Here, a)
    BY <1>2, InstalledLeaves DEF Leaves
  <2>3. i \in {"none", "malformed", "edited", "working"}
    BY <2>2 DEF Leaves, Governed
  <2> HIDE DEF a, i
  <2>4. Leaves(a, h)
    BY <2>2, <2>3 DEF Leaves, Governed
  <2>5. Leaves(Here, h) /\ h \in Governed
    BY <2>2, <2>4 DEF Leaves
  <2>6. PreparedSoFar'
    BY <1>3, <1>4, <1>5, <2>1, <2>5, StepsAre DEF PreparedSoFar, Onward
  <2>7. QED
    BY <1>1, <1>4, <1>5, <2>1, <2>5, <2>6
<1>7. CASE LaunchRead \/ FailRead
  <2>1. PICK x \in {"launched", "failed"} : gov' = [gov EXCEPT ![root] = [Here EXCEPT !.read = x]]
    BY <1>7 DEF LaunchRead, FailRead, Write
  <2>2. /\ pc' \in {"reading", "idle"} /\ outcome' \in {outcome, "refused"}
        /\ cuts' = cuts \/ (cuts < MaxCuts /\ cuts' = cuts + 1)
    BY <1>7 DEF LaunchRead, FailRead, Goto
  <2> DEFINE h == [Here EXCEPT !.read = x]
  <2>3. Leaves(Here, h) /\ h \in Governed
    BY <1>2, PartsLeave DEF Leaves
  <2>4. PreparedSoFar'
    BY <1>3, <1>4, <1>5, <2>1, <2>2, <2>3, StepsAre DEF PreparedSoFar, Onward
  <2>5. QED
    BY <1>1, <1>4, <1>5, <2>1, <2>2, <2>3, <2>4
<1>8. CASE FinishRead
  <2> DEFINE h == [Here EXCEPT !.read = "completed"]
  <2>1. gov' = [gov EXCEPT ![root] = h] /\ pc' = "intent" /\ UNCHANGED <<outcome, cuts>>
    BY <1>8 DEF FinishRead, Write, Goto
  <2>2. Leaves(Here, h) /\ h \in Governed /\ h.read = "completed"
    <3>1. Leaves(Here, h)
      BY <1>2, PartsLeave
    <3>2. h.read = "completed"
      BY <1>2 DEF Governed
    <3>3. QED
      BY <3>1, <3>2 DEF Leaves
  <2>3. PreparedSoFar'
    BY <1>3, <1>4, <1>5, <2>1, <2>2, StepsAre DEF PreparedSoFar, Onward
  <2>4. QED
    BY <1>1, <1>4, <1>5, <2>1, <2>2, <2>3
<1>9. QED
  BY <1>6, <1>7, <1>8

(* What the start produces from the issue.                                 *)
LEMMA RestWrites ==
  ASSUME StartInv, CreateIntent \/ BuildDraft \/ HandOff \/ Materialize
  PROVE  /\ pc # "idle" /\ pc' \in Steps \ Switches /\ PreparedSoFar'
         /\ UNCHANGED <<running, outcome, cuts, acts>>
         /\ \E h : Wrote(h) /\ Leaves(Here, h)
<1>1. pc \in Onward({"intent", "draft", "triage", "handoff"}) /\ pc # "idle"
  BY StepsAre DEF CreateIntent, BuildDraft, HandOff, Materialize, Onward
<1>2. /\ Here \in Governed /\ root \in Checkouts
      /\ gov \in [Checkouts -> Governed \cup {Absent}]
  BY <1>1, StartWorksHere DEF StartInv
<1>3. branch[root] = "issue" /\ swarm \in Here.work /\ Here.read = "completed"
  BY <1>1 DEF StartInv, PreparedSoFar, Onward
<1>4. UNCHANGED <<tip, branch, edits, late, running, outcome, cuts, acts>> /\ UNCHANGED <<root, swarm>>
  BY DEF CreateIntent, BuildDraft, HandOff, Materialize, Goto, Keep, running
<1>5. ASSUME NEW h \in Governed, Leaves(Here, h), gov' = [gov EXCEPT ![root] = h]
      PROVE  Wrote(h) /\ Here' = h /\ swarm \in h.work
  BY <1>2, <1>3, <1>4, <1>5 DEF Wrote, Leaves, Here
<1>6. CASE CreateIntent
  <2> DEFINE h == [Here EXCEPT !.intent = TRUE]
  <2>1. gov' = [gov EXCEPT ![root] = h] /\ pc' = "draft"
    BY <1>6 DEF CreateIntent, Write, Goto
  <2>2. Leaves(Here, h) /\ h \in Governed /\ h.read = "completed" /\ h.intent
    <3>1. Leaves(Here, h)
      BY <1>2, PartsLeave
    <3>2. h.read = "completed" /\ h.intent
      BY <1>2, <1>3 DEF Governed
    <3>3. QED
      BY <3>1, <3>2 DEF Leaves
  <2>3. PreparedSoFar'
    BY <1>3, <1>4, <1>5, <2>1, <2>2, StepsAre DEF PreparedSoFar, Onward
  <2>4. QED
    BY <1>1, <1>4, <1>5, <2>1, <2>2, <2>3 DEF Steps, Switches
<1>7. CASE BuildDraft
  <2> DEFINE h == [Here EXCEPT !.draft = TRUE]
  <2>1. pc = "draft" /\ gov' = [gov EXCEPT ![root] = h] /\ pc' = "triage"
    BY <1>7 DEF BuildDraft, Write, Goto
  <2>2. Here.intent
    BY <2>1 DEF StartInv, PreparedSoFar, Onward
  <2>3. Leaves(Here, h) /\ h \in Governed /\ h.read = "completed" /\ h.intent /\ h.draft
    <3>1. Leaves(Here, h)
      BY <1>2, PartsLeave
    <3>2. h.read = "completed" /\ h.intent /\ h.draft
      BY <1>2, <1>3, <2>2 DEF Governed
    <3>3. QED
      BY <3>1, <3>2 DEF Leaves
  <2>4. PreparedSoFar'
    BY <1>3, <1>4, <1>5, <2>1, <2>3, StepsAre DEF PreparedSoFar, Onward
  <2>5. QED
    BY <1>1, <1>4, <1>5, <2>1, <2>3, <2>4 DEF Steps, Switches
<1>8. CASE HandOff
  <2> DEFINE h == [Here EXCEPT !.handoff = TRUE]
  <2>1. /\ pc = "handoff" /\ gov' = [gov EXCEPT ![root] = h]
        /\ pc' \in {"execute", "requirements", "done"}
    BY <1>8, StepsAre DEF HandOff, Write, Goto
  <2>2. Here.intent /\ Here.draft
    BY <2>1 DEF StartInv, PreparedSoFar, Onward
  <2>3. /\ Leaves(Here, h) /\ h \in Governed /\ h.read = "completed" /\ h.intent /\ h.draft
        /\ h.handoff
    <3>1. Leaves(Here, h)
      BY <1>2, PartsLeave
    <3>2. h.read = "completed" /\ h.intent /\ h.draft /\ h.handoff
      BY <1>2, <1>3, <2>2 DEF Governed
    <3>3. QED
      BY <3>1, <3>2 DEF Leaves
  <2>4. PreparedSoFar'
    BY <1>3, <1>4, <1>5, <2>1, <2>3 DEF PreparedSoFar
  <2>5. QED
    BY <1>1, <1>4, <1>5, <2>1, <2>3, <2>4, StepsAre DEF Steps, Switches
<1>9. CASE Materialize
  <2> DEFINE h == Materialized(pc, Here)
  <2>1. pc \in Range(Materialization) /\ gov' = [gov EXCEPT ![root] = h]
    BY <1>9 DEF Materialize, Write
  <2>2. pc' \in Range(Materialization) \cup {"done"}
    BY <1>9, StepsFollow, StepsAre DEF Materialize, Goto
  <2>3. Here.intent /\ Here.draft /\ Here.handoff
    BY <2>1 DEF StartInv, PreparedSoFar, Onward
  <2>4. /\ Leaves(Here, h) /\ h \in Governed /\ h.read = "completed" /\ h.intent /\ h.draft
        /\ h.handoff
    <3>1. \/ h = Here \/ h = [Here EXCEPT !.elaborated = TRUE] \/ h = [Here EXCEPT !.clarified = TRUE]
          \/ \E k \in Kinds : \/ h = [Here EXCEPT !.written = Here.written \cup {k}]
                             \/ h = [Here EXCEPT !.artifacts = Here.artifacts \cup {k}]
      BY <2>1, StepsAre DEF Materialized, Artifact, Kinds
    <3>2. CASE \/ h = Here \/ h = [Here EXCEPT !.elaborated = TRUE]
               \/ h = [Here EXCEPT !.clarified = TRUE]
      <4> HIDE DEF h
      <4>1. CASE h = Here
        BY <1>2, <1>3, <2>3, <4>1 DEF Leaves, Governed
      <4>2. CASE h = [Here EXCEPT !.elaborated = TRUE]
        BY <1>2, <1>3, <2>3, <4>2 DEF Leaves, Governed
      <4>3. CASE h = [Here EXCEPT !.clarified = TRUE]
        BY <1>2, <1>3, <2>3, <4>3 DEF Leaves, Governed
      <4>4. QED
        BY <3>2, <4>1, <4>2, <4>3
    <3>3. ASSUME NEW k \in Kinds,
                 \/ h = [Here EXCEPT !.written = Here.written \cup {k}]
                 \/ h = [Here EXCEPT !.artifacts = Here.artifacts \cup {k}]
          PROVE  /\ Leaves(Here, h) /\ h \in Governed /\ h.read = "completed" /\ h.intent
                 /\ h.draft /\ h.handoff
      <4> HIDE DEF h
      <4>1. QED
        BY <1>2, <1>3, <2>3, <3>3 DEF Leaves, Governed
    <3>4. QED
      BY <3>1, <3>2, <3>3
  <2>5. PreparedSoFar'
    BY <1>3, <1>4, <1>5, <2>1, <2>2, <2>4 DEF PreparedSoFar
  <2>6. QED
    BY <1>1, <1>4, <1>5, <2>1, <2>2, <2>4, <2>5, StepsAre DEF Steps, Switches
<1>10. QED
  BY <1>6, <1>7, <1>8, <1>9

-----------------------------------------------------------------------------
(* The steps of a start keep the invariant and the packs.                  *)

(* A step that writes where the start works.                               *)
LEMMA WritesCarry ==
  ASSUME StartInv, pc # "idle", NEW h, Wrote(h), Here.work \subseteq h.work,
         branch[root] = "issue" \/ h.work = Here.work,
         PreparedSoFar', pc' \in Steps \ Switches, swarm' \in Swarms, repaired' \in BOOLEAN,
         UNCHANGED <<gap, issue, acts>>, outcome' \in {outcome, "refused"},
         cuts' = cuts \/ (cuts < MaxCuts /\ cuts' = cuts + 1)
  PROVE  StartInv' /\ EditsCarried
<1>1. /\ Here \in Governed /\ root \in Checkouts /\ gov[root] = Here
      /\ gov \in [Checkouts -> Governed \cup {Absent}]
  BY StartWorksHere DEF StartInv, Here
<1>2. /\ h \in Governed /\ gov' = [gov EXCEPT ![root] = h]
      /\ UNCHANGED <<tip, branch, edits, late, root>>
  BY DEF Wrote
<1>3. /\ InTheirPlaces' /\ EditsAside' /\ WorksComeByMerge'
      /\ gov' \in [Checkouts -> Governed \cup {Absent}] /\ gov'[root] = h
      /\ \A r \in Checkouts : r # root => gov'[r] = gov[r]
  <2>1. TypeOK /\ InTheirPlaces /\ EditsAside /\ WorksComeByMerge
    BY DEF StartInv
  <2>2. gov[root].work \subseteq h.work /\ (branch[root] = "issue" \/ h.work = gov[root].work)
    BY <1>1
  <2>3. QED
    BY <1>1, <1>2, <2>1, <2>2, WriteKeepsPlaces
<1>4. TypeOK'
  <2>1. cuts' \in 0 .. MaxCuts
    BY BoundsAssumption DEF StartInv, TypeOK
  <2>2. QED
    BY <1>2, <1>3, <2>1 DEF StartInv, TypeOK, Checkouts
<1>5. EditsCarried
  BY <1>2 DEF EditsCarried
<1>6. QED
  BY <1>3, <1>4, <1>5 DEF StartInv

(* A step that writes nothing.                                             *)
LEMMA StaysCarry ==
  ASSUME StartInv, UNCHANGED <<repo, root, swarm, repaired, issue, acts>>,
         gap' \in BOOLEAN, pc # "idle" \/ pc' = "idle", pc' \in Steps \ Switches,
         PreparedSoFar',
         outcome' \in {outcome, "refused", "prepared", "cut"},
         cuts' = cuts \/ (cuts < MaxCuts /\ cuts' = cuts + 1)
  PROVE  StartInv' /\ EditsCarried
<1>1. InTheirPlaces' /\ EditsAside' /\ WorksComeByMerge'
  BY StayKeepsPlaces DEF StartInv
<1>2. UNCHANGED <<tip, branch, gov, edits, late>>
  BY DEF repo
<1>3. TypeOK'
  <2>1. cuts' \in 0 .. MaxCuts
    BY BoundsAssumption DEF StartInv, TypeOK
  <2>2. QED
    BY <1>2, <2>1 DEF StartInv, TypeOK
<1>4. EditsCarried
  BY <1>2 DEF EditsCarried
<1>5. QED
  BY <1>1, <1>3, <1>4 DEF StartInv

(* The start takes the checkout it was called in, or a worktree.           *)
LEMMA StartCarries ==
  ASSUME StartInv, Start
  PROVE  StartInv' /\ EditsCarried
<1>1. /\ pc = "idle" /\ pc' = "initialize" /\ outcome' = "none"
      /\ UNCHANGED <<swarm, repaired, gap, issue, cuts, acts>>
  BY StepsAre DEF Start
<1>2. /\ tip \in [Branches -> Governed \cup {Absent}]
      /\ branch \in [main : {"base", "issue"}, linked : {"issue", "foreign", Absent}]
      /\ gov \in [Checkouts -> Governed \cup {Absent}]
  BY DEF StartInv, TypeOK, Checkouts
<1>3. PreparedSoFar' /\ pc' \in Steps \ Switches
  <2>1. pc' \in Early
    BY <1>1, StepsAre DEF Early
  <2>2. QED
    BY <1>1, <2>1, EarlyIsPrepared, StepsAre DEF Steps, Switches
<1>4. CASE ~NeedsIsolation /\ root' = "main"
            /\ UNCHANGED <<tip, branch, gov, edits>>
  <2>1. UNCHANGED <<tip, branch, gov, edits>> /\ late' = FALSE
    BY <1>4 DEF Start
  <2>2. TypeOK'
    BY <1>1, <1>3, <1>4, <2>1 DEF StartInv, TypeOK
  <2>3. InTheirPlaces' /\ WorksComeByMerge'
    BY <1>3, <1>4, <2>1 DEF StartInv, InTheirPlaces, WorksComeByMerge, Switches
  <2>4. EditsAside'
    BY <1>4, <2>1 DEF StartInv, EditsAside, NeedsIsolation, Dirty
  <2>5. EditsCarried
    BY <2>1 DEF EditsCarried
  <2>6. QED
    BY <1>3, <2>2, <2>3, <2>4, <2>5 DEF StartInv
<1>5. CASE branch.linked = "issue" /\ root' = "linked"
            /\ UNCHANGED <<tip, branch, gov, edits>>
  <2>1. UNCHANGED <<tip, branch, gov, edits>> /\ late' = FALSE
    BY <1>5 DEF Start
  <2>2. TypeOK'
    BY <1>1, <1>3, <1>5, <2>1 DEF StartInv, TypeOK
  <2>3. InTheirPlaces' /\ WorksComeByMerge'
    BY <1>3, <1>5, <2>1 DEF StartInv, InTheirPlaces, WorksComeByMerge, Switches
  <2>4. EditsAside'
    BY <1>5, <2>1 DEF StartInv, EditsAside
  <2>5. EditsCarried
    BY <2>1 DEF EditsCarried
  <2>6. QED
    BY <1>3, <2>2, <2>3, <2>4, <2>5 DEF StartInv
<1>6. CASE NeedsIsolation /\ branch.linked = Absent /\ root' = "linked" /\ AddWorktree
  <2> DEFINE Source(b) ==
        \/ b = "issue" /\ tip["issue"] # Absent
        \/ b = "remote" /\ tip["issue"] = Absent /\ tip["remote"] # Absent
        \/ b = "base" /\ tip["issue"] = Absent /\ tip["remote"] = Absent
             from == CHOOSE b \in Branches : Source(b)
  <2>1. \E b \in Branches : Source(b)
    BY DEF Branches
  <2>2. from \in Branches /\ Source(from)
    BY <2>1
  <2>3. /\ tip' = [tip EXCEPT !["issue"] = tip[from]]
        /\ branch' = [branch EXCEPT !["linked"] = "issue"]
        /\ gov' = [gov EXCEPT !["linked"] = tip[from]]
        /\ edits' = edits /\ late' = FALSE
    BY <1>6 DEF AddWorktree, Start
  <2> HIDE DEF from
  <2>4. tip["base"] \in Governed /\ gov["main"] \in Governed
    BY DEF StartInv, InTheirPlaces
  <2>5. tip[from] \in Governed /\ tip["base"].work \subseteq tip[from].work
    <3>1. CASE from = "issue" /\ tip["issue"] # Absent
      BY <1>2, <3>1 DEF StartInv, WorksComeByMerge, Branches
    <3>2. CASE from = "remote" /\ tip["issue"] = Absent /\ tip["remote"] # Absent
      BY <1>2, <3>2 DEF StartInv, WorksComeByMerge, Branches
    <3>3. CASE from = "base"
      BY <2>4, <3>3
    <3>4. QED
      BY <2>2, <3>1, <3>2, <3>3
  <2>6. /\ tip'["issue"] = tip[from] /\ tip'["base"] = tip["base"] /\ tip'["remote"] = tip["remote"]
        /\ tip' \in [Branches -> Governed \cup {Absent}]
    BY <1>2, <2>3, <2>5 DEF Branches
  <2>7. /\ gov'["linked"] = tip[from] /\ gov'["main"] = gov["main"]
        /\ gov' \in [Checkouts -> Governed \cup {Absent}]
    BY <1>2, <2>3, <2>5 DEF Checkouts
  <2>8. /\ branch'.linked = "issue" /\ branch'.main = branch.main
        /\ branch'["linked"] = "issue" /\ branch'["main"] = branch["main"]
        /\ branch' \in [main : {"base", "issue"}, linked : {"issue"}]
    BY <1>2, <2>3
  <2>9. branch.main = "base" /\ branch["main"] = "base"
    BY <1>2, <1>6 DEF NeedsIsolation
  <2>10. branch.linked # "issue" /\ gov["linked"] = Absent
    BY <1>6, WorksAssumption DEF StartInv, InTheirPlaces
  <2>11. TypeOK'
    BY <1>1, <1>3, <1>6, <2>3, <2>6, <2>7, <2>8 DEF StartInv, TypeOK, Checkouts
  <2>12. tip[from] # Absent
    BY <2>5, WorksAssumption
  <2>13. InTheirPlaces'
    BY <1>3, <1>6, <2>4, <2>5, <2>6, <2>7, <2>8, <2>9, <2>12 DEF InTheirPlaces, Switches
  <2>14. EditsAside'
    BY <1>6, <2>3, <2>8 DEF StartInv, EditsAside
  <2>15. WorksComeByMerge'
    <3>1. gov["main"].work = tip["base"].work
      BY <2>9 DEF StartInv, WorksComeByMerge
    <3>2. QED
      BY <2>5, <2>6, <2>7, <2>8, <2>9, <2>12, <3>1 DEF WorksComeByMerge
  <2>16. EditsCarried
    BY <2>8 DEF EditsCarried
  <2>17. QED
    BY <1>3, <2>11, <2>13, <2>14, <2>15, <2>16 DEF StartInv
<1>7. QED
  BY <1>4, <1>5, <1>6 DEF Start

(* The Work and its branch are looked up...                                *)
LEMMA BranchCarries ==
  ASSUME StartInv, UseWork \/ UseBranch
  PROVE  StartInv' /\ EditsCarried
<1>1. /\ pc = "work" /\ pc' \in {"read", "create"} \cup Switches /\ pc' \in Steps
      /\ UNCHANGED <<repo, running, outcome, cuts, acts>>
      /\ pc' \in {"read", "switchToRead"} => HasWork
  BY DEF UseWork, UseBranch, Enter, Goto, Steps, Switches
<1>2. UNCHANGED <<tip, branch, gov, edits, late, root, swarm, repaired, gap, issue>>
  BY <1>1 DEF repo, running
<1>3. pc' \in {"read", "switchToRead"} => swarm' \in Here'.work
  BY <1>1, <1>2 DEF HasWork, Here
<1>4. CASE OnIssueBranch /\ pc' \notin Switches
  <2>1. branch'[root'] = "issue"
    BY <1>2, <1>4 DEF OnIssueBranch
  <2>2. PreparedSoFar'
    BY <1>1, <1>3, <1>4, <2>1, StepsAre DEF PreparedSoFar, Onward, Switches
  <2>3. UNCHANGED <<repo, root, swarm, repaired, issue, acts>> /\ gap' \in BOOLEAN
    BY <1>1, <1>2 DEF StartInv, TypeOK
  <2>4. QED
    BY <1>1, <1>4, <2>2, <2>3, StaysCarry
<1>5. CASE ~OnIssueBranch /\ tip["issue"] # Absent /\ CanSwitch /\ pc' \in Switches
  <2>1. PreparedSoFar'
    BY <1>3, <1>5, StepsAre DEF PreparedSoFar, Onward, Switches
  <2>2. TypeOK'
    BY <1>1, <1>2 DEF StartInv, TypeOK
  <2>3. InTheirPlaces'
    <3>1. /\ root = "main" \/ branch[root] = "issue"
          /\ branch[root] \in {"base", "issue"} /\ branch["main"] = branch.main
      BY <1>1, StartWorksHere DEF StartInv
    <3>2. root = "main" /\ branch.main = "base" /\ branch.linked # "issue"
      BY <1>5, <3>1 DEF OnIssueBranch, CanSwitch
    <3>3. QED
      BY <1>2, <1>5, <3>2 DEF StartInv, InTheirPlaces, Switches
  <2>4. EditsAside' /\ WorksComeByMerge'
    BY <1>1, <1>2 DEF StartInv, EditsAside, WorksComeByMerge
  <2>5. EditsCarried
    BY <1>2 DEF EditsCarried
  <2>6. QED
    BY <2>1, <2>2, <2>3, <2>4, <2>5 DEF StartInv
<1>6. QED
  BY <1>4, <1>5 DEF UseWork, UseBranch, Enter, Goto, Switches

(* ... and the branch is checked out, with what was edited meanwhile.      *)
LEMMA CheckoutCarries ==
  ASSUME StartInv, Checkout
  PROVE  StartInv' /\ EditsCarried
<1>1. /\ pc \in Switches /\ pc' = (IF pc = "switchToRead" THEN "read" ELSE "create")
      /\ UNCHANGED <<outcome, cuts, acts>>
  BY DEF Checkout, Goto, Switches
<1>2. /\ InTheirPlaces' /\ EditsAside' /\ WorksComeByMerge'
      /\ root = "main" /\ tip["base"].work \subseteq tip["issue"].work
      /\ tip["issue"] \in Governed /\ Here' = tip["issue"] /\ Here.work = tip["base"].work
      /\ branch' \in [main : {"issue"}, linked : {"foreign", Absent}]
      /\ gov' \in [Checkouts -> Governed \cup {Absent}]
      /\ UNCHANGED <<tip, edits, late, running>>
  BY CheckoutKeepsPlaces DEF StartInv
<1>3. UNCHANGED <<root, swarm, repaired, gap, issue>>
  BY <1>2 DEF running
<1>4. TypeOK'
  BY <1>1, <1>2, <1>3 DEF StartInv, TypeOK, Checkouts, Steps
<1>5. branch'[root'] = "issue"
  BY <1>2, <1>3
<1>6. pc' = "read" => swarm' \in Here'.work
  <2>1. pc = "switchToRead" => swarm \in Here.work
    BY DEF StartInv, PreparedSoFar, Onward
  <2>2. QED
    BY <1>1, <1>2, <1>3, <2>1
<1>7. PreparedSoFar'
  BY <1>1, <1>5, <1>6, StepsAre DEF PreparedSoFar, Onward
<1>8. EditsCarried
  BY <1>1, <1>2 DEF StartInv, EditsAside, EditsCarried, Switches
<1>9. QED
  BY <1>2, <1>4, <1>7, <1>8 DEF StartInv

(* The branch is created where the start works, which is the main checkout.*)
LEMMA NewBranchCarries ==
  ASSUME StartInv, NewBranch
  PROVE  StartInv' /\ EditsCarried
<1> DEFINE from == From
           g == IF tip[from] = tip["base"] THEN gov[root] ELSE tip[from]
<1>1. /\ pc = "work" /\ pc' = "create" /\ tip["issue"] = Absent
      /\ tip' = [tip EXCEPT !["issue"] = tip[from]]
      /\ gov' = [gov EXCEPT ![root] = g]
      /\ branch' = [branch EXCEPT ![root] = "issue"]
      /\ UNCHANGED <<edits, late, running, outcome, cuts, acts>>
  BY DEF NewBranch, Goto
<1>2. UNCHANGED <<root, swarm, repaired, gap, issue>>
  BY <1>1 DEF running
<1>3. /\ tip \in [Branches -> Governed \cup {Absent}]
      /\ branch \in [main : {"base", "issue"}, linked : {"issue", "foreign", Absent}]
      /\ gov \in [Checkouts -> Governed \cup {Absent}]
  BY DEF StartInv, TypeOK, Checkouts
<1>4. root = "main" /\ branch.main = "base" /\ branch.linked # "issue" /\ (~edits \/ late)
  <2>1. branch.main # "issue" /\ branch.linked # "issue"
    BY <1>1 DEF StartInv, InTheirPlaces
  <2>2. root \in {"main", "linked"}
    BY DEF StartInv, TypeOK
  <2>3. root = "main"
    BY <1>1, <2>1, <2>2 DEF StartInv, InTheirPlaces
  <2>4. QED
    BY <1>1, <1>3, <2>1, <2>3 DEF StartInv, EditsAside
<1>5. /\ tip["base"] \in Governed /\ gov["main"] \in Governed
      /\ gov["main"].work = tip["base"].work
      /\ gov["linked"] = Absent
  BY <1>4 DEF StartInv, InTheirPlaces, WorksComeByMerge
<1>6. /\ from \in {"remote", "base"} /\ tip[from] \in Governed
      /\ tip["base"].work \subseteq tip[from].work
  <2>1. CASE tip["remote"] # Absent
    BY <1>1, <1>3, <2>1 DEF StartInv, WorksComeByMerge, Branches, From
  <2>2. CASE tip["remote"] = Absent
    BY <1>5, <2>2 DEF From
  <2>3. QED
    BY <2>1, <2>2
<1>7. g \in Governed /\ g.work = tip[from].work
  BY <1>4, <1>5, <1>6
<1> HIDE DEF from, g
<1>8. /\ tip'["issue"] = tip[from] /\ tip'["base"] = tip["base"] /\ tip'["remote"] = tip["remote"]
      /\ tip' \in [Branches -> Governed \cup {Absent}]
  BY <1>1, <1>3, <1>6 DEF Branches
<1>9. /\ gov'["main"] = g /\ gov'["linked"] = gov["linked"]
      /\ gov' \in [Checkouts -> Governed \cup {Absent}]
  BY <1>1, <1>3, <1>4, <1>7 DEF Checkouts
<1>10. /\ branch'.main = "issue" /\ branch'.linked = branch.linked
       /\ branch'["main"] = "issue" /\ branch'["linked"] = branch.linked
       /\ branch' \in [main : {"issue"}, linked : {"issue", "foreign", Absent}]
  BY <1>1, <1>3, <1>4
<1>11. tip[from] # Absent
  BY <1>6, WorksAssumption
<1>12. TypeOK'
  BY <1>1, <1>2, <1>8, <1>9, <1>10 DEF StartInv, TypeOK, Steps, Checkouts
<1>13. InTheirPlaces'
  BY <1>1, <1>2, <1>4, <1>5, <1>7, <1>8, <1>9, <1>10, <1>11 DEF InTheirPlaces
<1>14. EditsAside'
  BY <1>10 DEF EditsAside
<1>15. WorksComeByMerge'
  BY <1>4, <1>6, <1>7, <1>8, <1>9, <1>10, <1>11 DEF WorksComeByMerge
<1>16. PreparedSoFar'
  <2>1. branch'[root'] = "issue"
    BY <1>2, <1>4, <1>10
  <2>2. QED
    BY <1>1, <2>1, StepsAre DEF PreparedSoFar, Onward
<1>17. EditsCarried
  BY <1>4, <1>10 DEF EditsCarried
<1>18. QED
  BY <1>12, <1>13, <1>14, <1>15, <1>16, <1>17 DEF StartInv

(* The steps that read, refuse or end.                                     *)
Stays ==
  \/ StartRefused \/ PreparationRefused \/ BranchRefused \/ CreateRefused
  \/ ReuseRead \/ ReadRefused \/ LaunchRefused \/ IntentRefused
  \/ Triage \/ MaterializationRefused \/ Execute \/ Finish

LEMMA StaysAre ==
  ASSUME StartInv, Stays \/ Cut
  PROVE  StartInv' /\ EditsCarried
<1>1. gap \in BOOLEAN /\ "idle" \in Steps \ Switches /\ "idle" \in Early
  BY DEF StartInv, TypeOK, Steps, Early, Switches
<1>2. CASE \/ StartRefused \/ PreparationRefused \/ BranchRefused \/ CreateRefused
           \/ ReadRefused \/ LaunchRefused \/ IntentRefused \/ MaterializationRefused
           \/ Finish \/ Cut
  <2>1. /\ UNCHANGED <<repo, running, acts>> /\ pc' = "idle"
        /\ outcome' \in {"refused", "prepared", "cut"}
        /\ cuts' = cuts \/ (cuts < MaxCuts /\ cuts' = cuts + 1)
    BY <1>2 DEF StartRefused, PreparationRefused, BranchRefused, CreateRefused, ReadRefused,
                LaunchRefused, IntentRefused, MaterializationRefused, Finish, Cut, Refuse, End
  <2>2. UNCHANGED <<repo, root, swarm, repaired, issue, acts>> /\ gap' \in BOOLEAN
    BY <1>1, <2>1 DEF running
  <2>3. PreparedSoFar'
    BY <1>1, <2>1, EarlyIsPrepared
  <2>4. QED
    BY <1>1, <2>1, <2>2, <2>3, StaysCarry
<1>3. CASE ReuseRead \/ Triage \/ Execute
  <2>1. /\ UNCHANGED <<repo, root, swarm, repaired, issue, outcome, cuts, acts>>
        /\ gap' \in BOOLEAN
    BY <1>1, <1>3 DEF ReuseRead, Triage, Execute, Goto, running
  <2>2. \/ pc = "read" /\ pc' = "intent" /\ Here.read = "completed"
        \/ pc = "triage" /\ pc' = "handoff"
        \/ pc = "execute" /\ pc' = "done"
    BY <1>3 DEF ReuseRead, Triage, Execute, Goto
  <2>3. UNCHANGED <<branch, gov, Here>>
    BY <2>1 DEF repo, Here
  <2>4. PreparedSoFar'
    BY <2>1, <2>2, <2>3, StepsAre DEF StartInv, PreparedSoFar, Onward
  <2>5. pc # "idle" /\ pc' \in Steps \ Switches
    BY <2>2 DEF Steps, Switches
  <2>6. QED
    BY <2>1, <2>4, <2>5, StaysCarry
<1>4. QED
  BY <1>2, <1>3 DEF Stays

(* No step of a start breaks the invariant or carries edits it could see.  *)
LEMMA CommandsCarry ==
  ASSUME StartInv, Command \/ FailRead \/ Cut
  PROVE  StartInv' /\ EditsCarried
<1>1. swarm \in Swarms /\ repaired \in BOOLEAN
  BY DEF StartInv, TypeOK
<1>2. CASE Prepare \/ RefreshLock \/ ResolveSwarm \/ AssignOwner \/ AssignDeveloper
  <2>1. /\ pc # "idle" /\ pc' \in Early \cap Steps
        /\ swarm' \in Swarms /\ repaired' \in BOOLEAN
        /\ UNCHANGED <<gap, issue, outcome, cuts, acts>>
        /\ \E h : Wrote(h) /\ Leaves(Here, h)
    BY <1>2, PreparationWrites
  <2>2. PICK h : Wrote(h) /\ Leaves(Here, h)
    BY <2>1
  <2>3. PreparedSoFar' /\ pc' \in Steps \ Switches
    BY <2>1, EarlyIsPrepared, StepsAre DEF Early, Switches
  <2>4. QED
    BY <2>1, <2>2, <2>3, WritesCarry DEF Leaves
<1>3. CASE CreateWork
  <2>1. /\ pc # "idle" /\ pc' = "read" /\ PreparedSoFar'
        /\ UNCHANGED <<running, outcome, cuts, acts>>
        /\ \E h : Wrote(h) /\ Here.work \subseteq h.work /\ branch[root] = "issue"
    BY <1>3, WorkIsCreated
  <2>2. PICK h : Wrote(h) /\ Here.work \subseteq h.work /\ branch[root] = "issue"
    BY <2>1
  <2>3. UNCHANGED <<swarm, repaired, gap, issue>> /\ pc' \in Steps \ Switches
    BY <2>1 DEF running, Steps, Switches
  <2>4. QED
    BY <1>1, <2>1, <2>2, <2>3, WritesCarry
<1>4. CASE EnableRead \/ LaunchRead \/ FinishRead \/ FailRead
  <2>1. /\ pc # "idle" /\ pc' \in {"launch", "reading", "intent", "idle"} /\ PreparedSoFar'
        /\ UNCHANGED <<running, acts>>
        /\ outcome' \in {outcome, "refused"}
        /\ cuts' = cuts \/ (cuts < MaxCuts /\ cuts' = cuts + 1)
        /\ \E h : Wrote(h) /\ Leaves(Here, h)
    BY <1>4, ReadWrites
  <2>2. PICK h : Wrote(h) /\ Leaves(Here, h)
    BY <2>1
  <2>3. UNCHANGED <<swarm, repaired, gap, issue>> /\ pc' \in Steps \ Switches
    BY <2>1 DEF running, Steps, Switches
  <2>4. QED
    BY <1>1, <2>1, <2>2, <2>3, WritesCarry DEF Leaves
<1>5. CASE CreateIntent \/ BuildDraft \/ HandOff \/ Materialize
  <2>1. /\ pc # "idle" /\ pc' \in Steps \ Switches /\ PreparedSoFar'
        /\ UNCHANGED <<running, outcome, cuts, acts>>
        /\ \E h : Wrote(h) /\ Leaves(Here, h)
    BY <1>5, RestWrites
  <2>2. PICK h : Wrote(h) /\ Leaves(Here, h)
    BY <2>1
  <2>3. UNCHANGED <<swarm, repaired, gap, issue>>
    BY <2>1 DEF running
  <2>4. QED
    BY <1>1, <2>1, <2>2, <2>3, WritesCarry DEF Leaves
<1>6. CASE Start
  BY <1>6, StartCarries
<1>7. CASE UseWork \/ UseBranch
  BY <1>7, BranchCarries
<1>8. CASE NewBranch \/ Checkout
  BY <1>8, NewBranchCarries, CheckoutCarries
<1>9. CASE Stays \/ Cut
  BY <1>9, StaysAre
<1>10. QED
  BY <1>2, <1>3, <1>4, <1>5, <1>6, <1>7, <1>8, <1>9 DEF Command, Stays

-----------------------------------------------------------------------------
(* What the person does.                                                   *)

LEMMA FormatLeaves ==
  ASSUME NEW g \in Governed
  PROVE  /\ \A x \in {"wrapped", "reformatted"} :
              [g EXCEPT !.method = x] \in Governed /\ [g EXCEPT !.method = x].work = g.work
         /\ [g EXCEPT !.swarm["delivery"].status = "terminal"] \in Governed
         /\ [g EXCEPT !.swarm["delivery"].status = "terminal"].work = g.work
<1>1. \A x \in {"wrapped", "reformatted"} :
        [g EXCEPT !.method = x] \in Governed /\ [g EXCEPT !.method = x].work = g.work
  BY DEF Governed, Contents
<1>2. /\ [g EXCEPT !.swarm["delivery"].status = "terminal"] \in Governed
      /\ [g EXCEPT !.swarm["delivery"].status = "terminal"].work = g.work
  BY DEF Governed, Swarms
<1>3. QED
  BY <1>1, <1>2

(* An act keeps the invariant when it keeps the places.                    *)
LEMMA ActsCarry ==
  ASSUME StartInv, NEW c, Act(c), InTheirPlaces', EditsAside', WorksComeByMerge',
         tip' \in [Branches -> Governed \cup {Absent}],
         branch' \in [main : {"base", "issue"}, linked : {"issue", "foreign", Absent}],
         gov' \in [Checkouts -> Governed \cup {Absent}],
         edits' \in BOOLEAN, late' \in BOOLEAN,
         pc = "idle" \/ (branch'[root] = branch[root] /\ gov'[root] = gov[root])
  PROVE  StartInv'
<1>1. /\ pc' = pc /\ acts < MaxActs /\ acts' = acts + 1
      /\ UNCHANGED <<root, swarm, repaired, gap, issue, outcome, cuts>>
  BY DEF Act, running
<1>2. TypeOK'
  BY <1>1, BoundsAssumption DEF StartInv, TypeOK, Checkouts
<1>3. CASE pc = "idle"
  <2>1. PreparedSoFar'
    BY <1>1, <1>3, EarlyIsPrepared DEF Early
  <2>2. QED
    BY <1>2, <2>1 DEF StartInv
<1>4. CASE branch'[root] = branch[root] /\ gov'[root] = gov[root]
  <2>1. PreparedSoFar'
    BY <1>1, <1>4 DEF StartInv, PreparedSoFar, Onward, Here
  <2>2. QED
    BY <1>2, <2>1 DEF StartInv
<1>5. QED
  BY <1>3, <1>4

LEMMA PersonCarries ==
  ASSUME StartInv, Person
  PROVE  StartInv' /\ EditsCarried
<1>1. /\ tip \in [Branches -> Governed \cup {Absent}]
      /\ branch \in [main : {"base", "issue"}, linked : {"issue", "foreign", Absent}]
      /\ gov \in [Checkouts -> Governed \cup {Absent}]
      /\ edits \in BOOLEAN /\ late \in BOOLEAN
      /\ branch["main"] = branch.main /\ branch["linked"] = branch.linked
  BY DEF StartInv, TypeOK, Checkouts
<1>2. TypeOK /\ InTheirPlaces /\ EditsAside /\ WorksComeByMerge
  BY DEF StartInv
<1>3. Absent \notin Governed
  BY WorksAssumption
<1>4. /\ \A c : Act(c) => pc' = pc /\ gov[c] # Absent /\ UNCHANGED root
      /\ root \in Checkouts
  BY DEF Act, running, StartInv, TypeOK, Checkouts
<1>5. CASE Edit
  <2>1. /\ Act("main") /\ edits' = TRUE /\ late' = (pc # "idle")
        /\ UNCHANGED <<tip, branch, gov>>
    BY <1>5 DEF Edit
  <2>2. pc' = pc /\ UNCHANGED root
    BY <1>4, <2>1
  <2>3. InTheirPlaces' /\ WorksComeByMerge'
    BY <1>2, <2>1, <2>2 DEF InTheirPlaces, WorksComeByMerge
  <2>4. EditsAside'
    BY <2>1, <2>2 DEF EditsAside
  <2>5. QED
    BY <1>1, <2>1, <2>3, <2>4, ActsCarry DEF EditsCarried
<1>6. CASE Merge
  <2>1. /\ Act("main") /\ branch.main = "base" /\ Free("main") /\ tip["issue"] # Absent
        /\ tip' = [tip EXCEPT !["base"] = tip["issue"]]
        /\ gov' = [gov EXCEPT !["main"] = tip["issue"]]
        /\ UNCHANGED <<branch, edits, late>>
    BY <1>6 DEF Merge
  <2>2. pc' = pc /\ UNCHANGED root /\ (pc = "idle" \/ root = "linked")
    BY <1>4, <2>1 DEF Free, Checkouts
  <2>3. tip["issue"] \in Governed
    BY <1>1, <2>1 DEF Branches
  <2>4. /\ tip'["base"] = tip["issue"] /\ tip'["issue"] = tip["issue"]
        /\ tip'["remote"] = tip["remote"] /\ tip' \in [Branches -> Governed \cup {Absent}]
    BY <1>1, <2>1 DEF Branches
  <2>5. /\ gov'["main"] = tip["issue"] /\ gov'["linked"] = gov["linked"]
        /\ gov' \in [Checkouts -> Governed \cup {Absent}]
    BY <1>1, <2>1, <2>3 DEF Checkouts
  <2>6. InTheirPlaces'
    BY <1>2, <2>1, <2>2, <2>3, <2>4, <2>5 DEF InTheirPlaces
  <2>7. WorksComeByMerge'
    BY <1>1, <1>2, <2>1, <2>4, <2>5 DEF WorksComeByMerge
  <2>8. EditsAside'
    BY <1>2, <2>1, <2>2 DEF EditsAside
  <2>9. QED
    BY <1>1, <2>1, <2>2, <2>4, <2>5, <2>6, <2>7, <2>8, ActsCarry DEF EditsCarried
<1>7. ASSUME NEW b \in {"base", "issue"}, Switch(b)
      PROVE  StartInv' /\ EditsCarried
  <2>1. /\ Act("main") /\ tip[b] # Absent /\ b # branch.linked /\ ~edits
        /\ Free("main")
        /\ branch' = [branch EXCEPT !["main"] = b]
        /\ gov' = [gov EXCEPT !["main"] = tip[b]]
        /\ UNCHANGED <<tip, edits, late>>
    BY <1>7 DEF Switch, Dirty
  <2>2. pc' = pc /\ UNCHANGED root /\ (pc = "idle" \/ root = "linked")
    BY <1>4, <2>1 DEF Free, Checkouts
  <2>3. tip[b] \in Governed
    BY <1>1, <2>1 DEF Branches
  <2>4. /\ branch'.main = b /\ branch'.linked = branch.linked
        /\ branch'["main"] = b /\ branch'["linked"] = branch.linked
        /\ branch' \in [main : {"base", "issue"}, linked : {"issue", "foreign", Absent}]
    BY <1>1, <2>1
  <2>5. /\ gov'["main"] = tip[b] /\ gov'["linked"] = gov["linked"]
        /\ gov' \in [Checkouts -> Governed \cup {Absent}]
    BY <1>1, <2>1, <2>3 DEF Checkouts
  <2>6. InTheirPlaces'
    BY <1>2, <2>1, <2>2, <2>3, <2>4, <2>5 DEF InTheirPlaces
  <2>7. WorksComeByMerge'
    BY <1>1, <1>2, <2>1, <2>4, <2>5 DEF WorksComeByMerge
  <2>8. EditsAside'
    BY <2>1, <2>2 DEF EditsAside
  <2>9. QED
    BY <1>1, <2>1, <2>2, <2>4, <2>5, <2>6, <2>7, <2>8, ActsCarry DEF EditsCarried
<1>8. ASSUME NEW c \in Checkouts, Format(c) \/ CloseSwarm(c)
      PROVE  StartInv' /\ EditsCarried
  <2>1. Act(c) /\ Free(c) /\ UNCHANGED <<tip, branch, edits, late>>
    BY <1>8 DEF Format, CloseSwarm
  <2>2. /\ pc' = pc /\ UNCHANGED root /\ gov[c] \in Governed /\ (pc = "idle" \/ root # c)
    BY <1>1, <1>4, <2>1 DEF Free
  <2>3. PICK h \in Governed : gov' = [gov EXCEPT ![c] = h] /\ h.work = gov[c].work
    <3>1. CASE Format(c)
      <4>1. PICK x \in {"wrapped", "reformatted"} : gov' = [gov EXCEPT ![c].method = x]
        BY <3>1 DEF Format
      <4>2. gov' = [gov EXCEPT ![c] = [gov[c] EXCEPT !.method = x]]
        BY <4>1
      <4>3. QED
        BY <2>2, <4>2, FormatLeaves
    <3>2. CASE CloseSwarm(c)
      <4>1. gov' = [gov EXCEPT ![c].swarm["delivery"].status = "terminal"]
        BY <3>2 DEF CloseSwarm
      <4>2. gov' = [gov EXCEPT ![c] = [gov[c] EXCEPT !.swarm["delivery"].status = "terminal"]]
        BY <4>1
      <4>3. QED
        BY <2>2, <4>2, FormatLeaves
    <3>3. QED
      BY <1>8, <3>1, <3>2
  <2>4. /\ InTheirPlaces' /\ EditsAside' /\ WorksComeByMerge'
        /\ gov' \in [Checkouts -> Governed \cup {Absent}]
        /\ \A r \in Checkouts : r # c => gov'[r] = gov[r]
    <3>1. pc # "idle" \/ pc' = "idle"
      BY <2>2
    <3>2. gov[c].work \subseteq h.work
      BY <2>3
    <3>3. h \in Governed /\ gov' = [gov EXCEPT ![c] = h] /\ h.work = gov[c].work
      BY <2>3
    <3>4. QED
      BY <1>2, <2>1, <2>2, <3>1, <3>2, <3>3, WriteKeepsPlaces
  <2>5. QED
    BY <1>1, <1>4, <2>1, <2>2, <2>4, ActsCarry DEF EditsCarried
<1>9. ASSUME NEW c \in Checkouts, Commit(c)
      PROVE  StartInv' /\ EditsCarried
  <2>1. /\ Act(c) /\ tip' = [tip EXCEPT ![branch[c]] = gov[c]]
        /\ edits' = (edits /\ c # "main") /\ UNCHANGED <<branch, gov, late>>
    BY <1>9 DEF Commit
  <2>2. /\ pc' = pc /\ UNCHANGED root /\ gov[c] \in Governed
    BY <1>1, <1>4, <2>1
  <2>3. c = "main" \/ (c = "linked" /\ branch[c] = "issue")
    BY <1>1, <1>2, <1>3, <2>2 DEF InTheirPlaces, Checkouts
  <2>4. branch[c] \in {"base", "issue"}
    BY <1>1, <2>3
  <2>5. /\ tip'[branch[c]] = gov[c] /\ \A b \in Branches : b # branch[c] => tip'[b] = tip[b]
        /\ tip' \in [Branches -> Governed \cup {Absent}]
    BY <1>1, <2>1, <2>2, <2>4 DEF Branches
  <2>6. gov[c] # Absent
    BY <1>3, <2>2
  <2>7. InTheirPlaces'
    <3>1. tip'["base"] \in Governed
      BY <1>2, <2>2, <2>5 DEF InTheirPlaces, Branches
    <3>2. "issue" \in {branch.main, branch.linked} => tip'["issue"] # Absent
      BY <1>2, <2>5, <2>6 DEF InTheirPlaces, Branches
    <3>3. tip["issue"] # Absent => tip'["issue"] # Absent
      BY <2>5, <2>6 DEF Branches
    <3>4. QED
      BY <1>2, <2>1, <2>2, <3>1, <3>2, <3>3 DEF InTheirPlaces
  <2>8. EditsAside'
    BY <1>1, <1>2, <2>1, <2>2 DEF EditsAside
  <2>9. WorksComeByMerge'
    <3>1. CASE branch[c] = "base"
      <4>1. c = "main" /\ gov["main"].work = tip["base"].work /\ branch.main = "base"
        BY <1>1, <1>2, <2>3, <3>1 DEF WorksComeByMerge
      <4>2. /\ tip'["base"].work = tip["base"].work /\ tip'["issue"] = tip["issue"]
            /\ tip'["remote"] = tip["remote"]
        BY <2>5, <3>1, <4>1 DEF Branches
      <4>3. QED
        BY <1>1, <1>2, <2>1, <4>1, <4>2 DEF WorksComeByMerge
    <3>2. CASE branch[c] = "issue"
      <4>1. /\ tip'["base"] = tip["base"] /\ tip'["issue"] = gov[c]
            /\ tip'["remote"] = tip["remote"]
        BY <2>5, <3>2 DEF Branches
      <4>2. tip["issue"] # Absent
        BY <1>1, <1>2, <2>3, <3>2 DEF InTheirPlaces
      <4>3. tip["base"].work \subseteq gov[c].work
        BY <1>2, <2>3, <3>2, <4>2 DEF WorksComeByMerge
      <4>4. \A r \in {"main", "linked"} : branch[r] = "issue" => r = c
        BY <1>1, <1>2, <2>3, <3>2 DEF InTheirPlaces
      <4>5. QED
        BY <1>2, <2>1, <2>6, <4>1, <4>3, <4>4 DEF WorksComeByMerge
    <3>3. QED
      BY <2>4, <3>1, <3>2
  <2>10. edits' \in BOOLEAN /\ late' \in BOOLEAN
    BY <1>1, <2>1
  <2>11. QED
    BY <1>1, <2>1, <2>5, <2>7, <2>8, <2>9, <2>10, ActsCarry DEF EditsCarried
<1>10. QED
  BY <1>5, <1>6, <1>7, <1>8, <1>9 DEF Person, Checkouts

-----------------------------------------------------------------------------
(* The theorems.                                                           *)

LEMMA StartInitially ==
  ASSUME Init
  PROVE  StartInv
<1>1. PICK c \in Cases :
        /\ tip = [base |-> c.base, issue |-> Absent, remote |-> c.remote]
        /\ branch = [main |-> "base", linked |-> c.linked]
        /\ gov = [main |-> c.base, linked |-> Absent]
        /\ issue = c.issue
  BY DEF Init
<1>2. /\ edits = FALSE /\ late = FALSE /\ pc = "idle" /\ root = "main" /\ swarm = "delivery"
      /\ repaired = FALSE /\ gap = FALSE /\ outcome = "none" /\ cuts = 0 /\ acts = 0
  BY DEF Init
<1>3. /\ c.base \in Governed /\ c.remote \in Governed \cup {Absent}
      /\ c.linked \in {"foreign", Absent} /\ c.issue \in [Parts -> BOOLEAN]
  BY CasesAssumption
<1>4. /\ Absent \notin Governed \cup {"issue", "foreign"}
      /\ c.remote # Absent => c.base.work \subseteq c.remote.work
  BY WorksAssumption
<1>5. TypeOK
  <2>1. tip \in [Branches -> Governed \cup {Absent}]
    BY <1>1, <1>3 DEF Branches
  <2>2. /\ branch \in [main : {"base", "issue"}, linked : {"issue", "foreign", Absent}]
        /\ gov \in [{"main", "linked"} -> Governed \cup {Absent}]
    BY <1>1, <1>3
  <2>3. cuts \in 0 .. MaxCuts /\ acts \in 0 .. MaxActs
    BY <1>2, BoundsAssumption
  <2>4. QED
    BY <1>1, <1>2, <1>3, <2>1, <2>2, <2>3 DEF TypeOK, Steps, Swarms
<1>6. InTheirPlaces
  BY <1>1, <1>2, <1>3, <1>4 DEF InTheirPlaces
<1>7. EditsAside
  BY <1>2 DEF EditsAside
<1>8. WorksComeByMerge
  BY <1>1, <1>3, <1>4 DEF WorksComeByMerge
<1>9. PreparedSoFar
  BY <1>2, StepsAre DEF PreparedSoFar, Onward
<1>10. QED
  BY <1>5, <1>6, <1>7, <1>8, <1>9 DEF StartInv

LEMMA StartStutters ==
  ASSUME StartInv, UNCHANGED vars
  PROVE  StartInv' /\ EditsCarried
<1>1. UNCHANGED <<tip, branch, gov, edits, late, pc, root, swarm, repaired, gap, issue,
                  outcome, cuts, acts>>
  BY DEF vars, repo, running
<1>2. TypeOK' /\ InTheirPlaces' /\ EditsAside' /\ WorksComeByMerge'
  BY <1>1 DEF StartInv, TypeOK, InTheirPlaces, EditsAside, WorksComeByMerge
<1>3. PreparedSoFar'
  BY <1>1 DEF StartInv, PreparedSoFar, Onward, Here
<1>4. QED
  BY <1>1, <1>2, <1>3 DEF StartInv, EditsCarried

(* The branches and the checkouts stay consistent, unrelated edits stay    *)
(* aside, and every step of a start finds what the ones before it left,    *)
(* in whichever checkout prepare_start works.                              *)
THEOREM StartInvariance == Spec => []StartInv
<1>1. Init => StartInv
  BY StartInitially
<1>2. StartInv /\ [Next]_vars => StartInv'
  BY CommandsCarry, PersonCarries, StartStutters DEF Next
<1>3. QED
  BY <1>1, <1>2, PTL DEF Spec

(* isolate_dirty_work and the switch of branches behind it: unrelated edits*)
(* a start could see stay on their branch; later ones are carried to the   *)
(* branch of the issue at most, whenever the person makes them.            *)
THEOREM EditsAlwaysStay == Spec => EditsStay
<1>1. StartInv /\ [Next]_vars => [EditsCarried]_vars
  BY CommandsCarry, PersonCarries, StartStutters DEF Next
<1>2. QED
  BY <1>1, StartInvariance, PTL DEF Spec, EditsStay

(* A start that ends as prepared did so on the issue's branch, with the    *)
(* Work of its swarm and everything it was to produce.                     *)
THEOREM PreparedThere == Spec => []PreparedOnTheIssueBranch
<1>1. StartInv => PreparedOnTheIssueBranch
  BY DEF StartInv, PreparedSoFar, Onward, PreparedOnTheIssueBranch
<1>2. QED
  BY <1>1, StartInvariance, PTL

=============================================================================
