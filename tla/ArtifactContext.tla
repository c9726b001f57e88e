-------------------------- MODULE ArtifactContext --------------------------
(* The artifacts an agent is handed for one artifact or Bolt: the trace      *)
(* graph and its bundle within a distance and a budget (context_graph.py),   *)
(* the question whether any artifact is needed (context_need.py), and the    *)
(* pruning by the local classifier (context_selection.py).  A command builds *)
(* the graph, answers one query and ends: no cache outlives it.              *)
EXTENDS Naturals, Sequences, FiniteSets, SequencesExt

CONSTANTS
    Nodes,      \* artifacts and Bolts, as naturals in the order of kind and id
    Missing,    \* an id no document has
    Documents,  \* the directories a command may find: per node, the ids it
                \* traces to and its tokens
    Queries     \* the commands people may give

ASSUME GraphAssumption ==
    /\ Nodes \subseteq Nat /\ IsFiniteSet(Nodes) /\ Missing \notin Nodes
    /\ Documents \subseteq [Nodes -> [traces : SUBSET (Nodes \union {Missing}),
                                      tokens : Nat]]
    /\ Queries \subseteq [root : Nodes, direction : {"backward", "forward", "both"},
                          depth : 0 .. Cardinality(Nodes), budget : Nat, strict : BOOLEAN]

VARIABLES
    artifacts,   \* per node: the ids it traces to and its tokens
    query,       \* the command's arguments
    answer,      \* the classifier's answers, none when it is not asked
    handed       \* the bundle's items, or why there is none

artifactVars == <<artifacts, query, answer, handed>>

WalkLengths == 0 .. Cardinality(Nodes)
Beyond == Cardinality(Nodes) + 1
Unanswered == "unanswered"
NotYet == [kind |-> "none", items |-> {}, candidates |-> {}]

-----------------------------------------------------------------------------
SourcesOf(n) == artifacts[n].traces \intersect Nodes
DerivedOf(n) == {m \in Nodes : n \in SourcesOf(m)}
Backward == [n \in Nodes |-> SourcesOf(n)]
Forward == [n \in Nodes |-> DerivedOf(n)]

\* Breadth first: the nodes within d steps.
Walk(neighbours, root) ==
    LET within[d \in WalkLengths] ==
          IF d = 0 THEN {root}
          ELSE LET nearer == within[d - 1] IN nearer \union UNION {neighbours[n] : n \in nearer}
    IN  within

Distance(walk, n) == Min({d \in WalkLengths : n \in walk[d]} \union {Beyond})

\* One traversal over both kinds of edges.
MixedRanks(root, direction) ==
    LET walk == Walk([n \in Nodes |-> SourcesOf(n) \union DerivedOf(n)], root)
    IN  [n \in Nodes |-> <<Distance(walk, n), IF n = root THEN 0 ELSE 1>>]

\* How near a node is, and by which traversal: nearest first, backward first.
Ranks(root, direction) ==
    LET back == Walk(Backward, root)
        fore == Walk(Forward, root)
        B(n) == IF direction = "forward" THEN Beyond ELSE Distance(back, n)
        F(n) == IF direction = "backward" THEN Beyond ELSE Distance(fore, n)
    IN  [n \in Nodes |-> IF n = root THEN <<0, 0>>
                         ELSE IF B(n) <= F(n) THEN <<B(n), 1>> ELSE <<F(n), 2>>]

Nearby == LET rank == Ranks(query.root, query.direction)
              IN  {n \in Nodes : rank[n][1] \in 0 .. query.depth}

Precedes(rank, m, n) ==
    \/ rank[m][1] < rank[n][1]
    \/ rank[m][1] = rank[n][1] /\ rank[m][2] < rank[n][2]
    \/ rank[m] = rank[n] /\ m < n

TokensIn(S) == MapThenSumSet(LAMBDA n : artifacts[n].tokens, S)

InOrder(rank, items) ==
    CHOOSE order \in [1 .. Cardinality(items) -> items] :
      \A i, j \in DOMAIN order : i < j => Precedes(rank, order[i], order[j])

\* The budget is spent until an item does not fit.
FittingPrefix(items) ==
    LET order == InOrder(Ranks(query.root, query.direction), items)
        UpTo(k) == ToSet(SubSeq(order, 1, k))
    IN  UpTo(Max({k \in 1 .. Len(order) : k = 1 \/ TokensIn(UpTo(k)) <= query.budget}))

\* The root, then in order each item that fits what is left.
FittingAlong(order) ==
    FoldLeft(LAMBDA kept, n : IF n = query.root \/ TokensIn(kept \union {n}) <= query.budget
                              THEN kept \union {n} ELSE kept,
             {}, order)

\* Ranks and order are bound values, so that TLC computes them once.
Fitting(items) ==
    UNION {FittingAlong(order) :
             order \in {InOrder(rank, items) : rank \in {Ranks(query.root, query.direction)}}}

\* find_cycles: the nodes that reach themselves.
SelfReferring == {n \in Nodes : n \in SourcesOf(n)}
OnCycle ==
    LET Above(n) == UNION {Walk(Backward, m)[Cardinality(Nodes)] : m \in SourcesOf(n)}
    IN  {n \in Nodes : n \in Above(n)}
Dangling == {n \in Nodes : Missing \in artifacts[n].traces}

-----------------------------------------------------------------------------
ArtifactInit ==
    /\ artifacts \in Documents
    /\ query \in Queries
    /\ answer = Unanswered
    /\ handed = NotYet

\* An action decided to need no artifacts is handed the root alone.
HandRoot ==
    /\ handed = NotYet /\ ~query.strict
    /\ handed' = [kind |-> "bundle", items |-> {query.root}, candidates |-> {}]
    /\ UNCHANGED <<artifacts, query, answer>>

\* context_bundle without a classifier.
HandBundle ==
    /\ handed = NotYet
    /\ LET near == Nearby
       IN  handed' = IF query.strict /\ near \intersect (OnCycle \union Dangling) # {}
                     THEN [NotYet EXCEPT !.kind = "refused"]
                     ELSE [kind |-> "bundle", items |-> Fitting(near), candidates |-> near]
    /\ UNCHANGED <<artifacts, query, answer>>

(* select_context_with_laya: the budget is applied to what the classifier did *)
(* not find irrelevant, the answers it was unsure of included.               *)
HandSelection ==
    /\ handed = NotYet /\ ~query.strict
    /\ LET near == Nearby
       IN  \E label \in [near \ {query.root} -> {"required", "irrelevant", "unsure"}] :
             LET keep == {n \in near : n = query.root \/ label[n] # "irrelevant"}
             IN  /\ answer' = label
                 /\ handed' = [kind |-> "bundle", items |-> Fitting(keep),
                               candidates |-> keep]
    /\ UNCHANGED <<artifacts, query>>

ArtifactNext == HandRoot \/ HandBundle \/ HandSelection

ArtifactSpec == ArtifactInit /\ [][ArtifactNext]_artifactVars

-----------------------------------------------------------------------------
\* There is a path from a to b of at most d edges, none visited twice.
Traces(a, b, d) ==
    \E k \in 1 .. d : \E path \in [0 .. k -> Nodes] :
      /\ path[0] = a /\ path[k] = b
      /\ \A i \in 1 .. k : path[i] \in artifacts[path[i - 1]].traces

(* What is handed out beside the root is traced from it or traces to it,      *)
(* within the asked distance; siblings and unrelated branches are left out    *)
(* (context_bundle).                                                          *)
HandedIsTraced ==
    \A n \in handed.items \ {query.root} :
      \/ query.direction # "forward" /\ Traces(query.root, n, query.depth)
      \/ query.direction # "backward" /\ Traces(n, query.root, query.depth)

(* Nothing is left out for the budget that nearer items left room for, and    *)
(* the budget is exceeded by the root alone at most (context_bundle,          *)
(* select_context_with_laya).                                                 *)
BudgetGoesToTheNearest ==
    handed.kind = "bundle" =>
      /\ TokensIn(handed.items) <= query.budget \/ handed.items = {query.root}
      /\ LET rank == Ranks(query.root, query.direction)
         IN  \A n \in handed.candidates \ handed.items :
               TokensIn({m \in handed.items : Precedes(rank, m, n)} \union {n}) > query.budget

(* A strict bundle can be read in trace order: its items can be numbered so   *)
(* that each traces to smaller ones only (find_cycles).                       *)
StrictIsReadable ==
    (handed.kind = "bundle" /\ query.strict) =>
      \E number \in [handed.items -> 1 .. Cardinality(Nodes)] :
        \A n \in handed.items : \A m \in artifacts[n].traces :
          m \in Nodes /\ (m \in handed.items => number[m] < number[n])
=============================================================================
