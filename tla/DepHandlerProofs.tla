--------------------------- MODULE DepHandlerProofs ---------------------------
(***************************************************************************)
(* Proofs about DepHandler: the properties that the runs check, for every  *)
(* set of troves and packages, every graph of requirements and every       *)
(* number of resolutions under way.                                        *)
(***************************************************************************)
EXTENDS DepHandlerGraphs

-----------------------------------------------------------------------------
(* The inductive invariant.                                                *)

Graph == [node : SUBSET (Trove \ Special), edge : SUBSET (Trove \X Trove \X Label)]

\* A trove that may have edges of its own.
Live(t) == state[t] \in Unresolved \cup {"resolving"}

\* The books have their shape, and each trove has the states of its kind and a place
\* in the tables its state calls for.
Types ==
    /\ TypeOK
    /\ depGraph \in Graph
    /\ \A t \in Special : state[t] \in {"init", "building", "built", "failed"}
    /\ buildable = {t \in Trove : state[t] = "buildable"}
    /\ \A t \in Trove : state[t] = "resolving" => t \in DOMAIN resolving
    /\ \A t \in Trove : state[t] = "prebuilt" => t \in DOMAIN job.old
    /\ \A t \in delayed : state[t] \in {"init"} \cup Failure

\* A trove leaves the graph only when it is settled.
InGraph == \A t \in Trove \ Special : ~Settled(t) => t \in depGraph.node

\* A duplicate waits for one match.
Rows ==
    /\ \A d \in duplicates : state[d[2]] = "duplicate"
    /\ \A d, x \in duplicates : d[2] = x[2] => d = x

\* As long as nothing had to be built, troves are resolved, reused and fail.
FastOnly ==
    fastResolution =>
        /\ delayed = {}
        /\ \A t \in Trove \ Special : state[t] \in Unresolved \cup {"resolving", "reused"} \cup Failure
        /\ \A t \in depGraph.node : Live(t)

\* The binaries of what was made are known, unless others had made some of them.
Binaries ==
    \A t \in Trove \ disallowed : state[t] \in Made => Output[t] \subseteq builtBinaries

\* Nobody waits for itself, only who may yet be resolved waits for others, and for
\* one that is settled only by a hard dependency.
Edges ==
    \A e \in depGraph.edge :
        /\ e[1] # e[2]
        /\ Live(e[1])
        /\ Settled(e[2]) => <<e[1], e[2]>> \in hardDep

\* A requirement is an edge to one of its providers, that has not failed.
Requirements ==
    \A e \in depGraph.edge : \A p \in Package : e[3] = Requirement(p) =>
        e[2] \in Accepted(e[1], p) /\ state[e[2]] \notin Failure

\* No edge of a requirement is lost before its provider is settled.  It is lost when
\* a cycle is broken, but then the trove is resolved.
EdgesKept ==
    \A t \in Trove \ (PrepOnly \cup Special) : Live(t) =>
        \A p \in buildReqs[t] : \A q \in Accepted(t, p) :
            <<t, q, Requirement(p)>> \in depGraph.edge \/ Settled(q)

\* The trove t, under resolution, waits for nobody, or the cycle it was taken from is
\* still one: no edge leaves it, all of it waits for t, and no other one is resolved.
CycleKept(t) ==
    IF resolving[t] = {} THEN \A e \in depGraph.edge : e[1] # t
    ELSE /\ t \in resolving[t] /\ resolving[t] \subseteq depGraph.node
         /\ Closed(depGraph, resolving[t])
         /\ \A u \in resolving[t] : Reaches(depGraph, u, t)
         /\ \A u \in resolving[t] \ {t} : state[u] \in Unresolved

Cycles == \A t \in Trove : state[t] = "resolving" => CycleKept(t)

DepInv ==
    /\ Types /\ InGraph /\ Rows /\ FastOnly /\ Binaries /\ BuiltOnce
    /\ Edges /\ Requirements /\ EdgesKept /\ FailurePropagates /\ Cycles

-----------------------------------------------------------------------------
(* The operators the steps are made of.                                    *)

LEMMA ProvidersBuilt ==
    ASSUME NEW t, NEW p \in Package
    PROVE  /\ OtherProviders(t, p) \subseteq Trove \ (Special \cup PrepOnly)
           /\ Accepted(t, p) \subseteq OtherProviders(t, p) /\ t \notin OtherProviders(t, p)
<1>1. Provides[p] \in Seq(Trove \ (Special \cup PrepOnly))
  BY DepHandlerAssumption
<1>2. Providers(p) \subseteq Trove \ (Special \cup PrepOnly)
  BY <1>1 DEF Providers
<1> QED BY <1>2 DEF OtherProviders, Accepted

LEMMA DeleteAll ==
    ASSUME NEW g, NEW S, NEW T
    PROVE  Delete(Delete(g, S), T) = Delete(g, S \cup T)
  BY DEF Delete

LEMMA DeleteNone == ASSUME NEW g \in Graph PROVE Delete(g, {}) = g
  BY DEF Delete, Graph

LEMMA AddNone == ASSUME NEW g \in Graph PROVE AddEdges(g, {}) = g
  BY DEF AddEdges, EndsOf, Graph

\* What is left of a graph.
LEMMA Deleted ==
    ASSUME NEW g \in Graph, NEW T
    PROVE  /\ Delete(g, T) \in Graph
           /\ Delete(g, T).node = g.node \ T
           /\ \A e : e \in Delete(g, T).edge <=> e \in g.edge /\ e[1] \notin T /\ e[2] \notin T
  BY DEF Delete, Graph

LEMMA Added ==
    ASSUME NEW g \in Graph, NEW t \in Trove \ Special,
           NEW E \in SUBSET (Trove \X Trove \X Label),
           \A e \in E : e[1] = t /\ e[2] \in Trove \ Special
    PROVE  /\ AddEdges(g, E) \in Graph
           /\ g.node \subseteq AddEdges(g, E).node
           /\ AddEdges(g, E).node \subseteq g.node \cup {t} \cup {e[2] : e \in E}
           /\ AddEdges(g, E).edge = g.edge \cup E
           /\ \A e \in E : e[1] \in AddEdges(g, E).node /\ e[2] \in AddEdges(g, E).node
  BY DEF AddEdges, EndsOf, Graph

\* The first trove that decides about a duplicate is one.
LEMMA OneDecider ==
    ASSUME NEW s, NEW t \in Trove, NEW B
    PROVE  /\ Deciders(s, t, B) \subseteq Trove
           /\ \A q, r \in Deciders(s, t, B) : q = r
<1> DEFINE list == Provides[PackageOf[t]]
<1> DEFINE First(i) == /\ i \in DOMAIN list /\ Decides(s, t, B, list[i])
                       /\ \A k \in 1 .. i - 1 : ~Decides(s, t, B, list[k])
<1>1. list \in Seq(Trove) /\ Len(list) \in Nat /\ DOMAIN list = 1 .. Len(list)
  BY DepHandlerAssumption
<1>2. \A q \in Deciders(s, t, B) : \E i \in DOMAIN list : q = list[i] /\ First(i)
  BY DEF Deciders
<1>3. ASSUME NEW i \in DOMAIN list, NEW j \in DOMAIN list, First(i), First(j) PROVE i = j
  <2>1. i \in Nat /\ j \in Nat /\ i >= 1 /\ j >= 1
    BY <1>1
  <2>2. ~(i < j)
    BY <1>3, <2>1
  <2>3. ~(j < i)
    BY <1>3, <2>1
  <2> QED BY <2>1, <2>2, <2>3
<1> QED BY <1>1, <1>2, <1>3

-----------------------------------------------------------------------------
(* Duplicates.                                                             *)

Row == Trove \X Trove \X SUBSET Binary
TrovesOf(D) == {d[2] : d \in D}

\* The rows of the duplicates D and those already there go on in the state s, but
\* those of the troves S.
RowsFollow(D, S, s) ==
    /\ duplicates' \subseteq Row
    /\ \A d \in duplicates' : d[2] \notin S /\ s[d[2]] = "duplicate" /\ d[2] \in TrovesOf(D)
    /\ \A d, x \in duplicates' : d[2] = x[2] => d = x
    /\ \A d \in D : d[2] \in S \/ d[2] \in TrovesOf(duplicates')

\* Of the duplicates D the troves T are matched and F are conflicts.
Sorts(D, T, F, s, g, d) ==
    /\ T \in SUBSET TrovesOf(D) /\ F \in SUBSET TrovesOf(D) /\ T \cap F = {}
    /\ Fail(F, s, Delete(g, T), d)
    /\ RowsFollow(D \cup duplicates, T \cup F, s)
    /\ disallowed' = disallowed \cup T \cup BuiltAgain(s)

LEMMA DuplicatedSettles ==
    ASSUME NEW D \in SUBSET Row, NEW s \in [Trove -> State], NEW g, NEW d,
           Types, Rows,
           \A x \in D \cup duplicates : s[x[2]] = "duplicate",
           \A x, y \in D : x[2] = y[2] => x = y,
           \A x \in D, y \in duplicates : x[2] = y[2] => y \in D,
           Duplicated(D, s, g, d)
    PROVE  \E T, F : Sorts(D, T, F, s, g, d)
<1> DEFINE of(v) == {x \in D : Verdict(s, x[2], x[3]) = v}
<1> DEFINE T == {x[2] : x \in of("matched")}
<1> DEFINE F == {x[2] : x \in of("conflict")}
<1> DEFINE new == UNION {{<<q, x[2], x[3]>> : q \in Deciders(s, x[2], x[3])} : x \in of("pending")}
<1>1. /\ Fail(F, s, Delete(g, T), d)
      /\ duplicates' = (duplicates \ D) \cup new
      /\ disallowed' = disallowed \cup T \cup BuiltAgain(s)
  BY DEF Duplicated
<1>2. \A x \in D : x \in of("matched") \/ x \in of("conflict") \/ x \in of("pending")
  BY DEF Verdict
<1>3. /\ of("matched") \cap of("conflict") = {} /\ of("matched") \cap of("pending") = {}
      /\ of("conflict") \cap of("pending") = {}
  OBVIOUS
<1>4. \A x \in D : x[1] \in Trove /\ x[2] \in Trove /\ x[3] \in SUBSET Binary
  BY DEF Row
<1>5. T \in SUBSET TrovesOf(D) /\ F \in SUBSET TrovesOf(D)
  BY <1>4 DEF TrovesOf
<1>6. T \cap F = {}
  BY <1>3
<1>7. \A y \in new : \E x \in of("pending") : \E q \in Deciders(s, x[2], x[3]) : y = <<q, x[2], x[3]>>
  OBVIOUS
<1>8. \A y \in new : y \in Row /\ y[2] \notin T \cup F /\ y[2] \in TrovesOf(D)
                     /\ s[y[2]] = "duplicate"
  <2> SUFFICES ASSUME NEW y \in new, NEW x \in of("pending"), NEW q \in Deciders(s, x[2], x[3]),
                      y = <<q, x[2], x[3]>>
               PROVE  /\ y \in Row /\ y[2] \notin T \cup F /\ y[2] \in TrovesOf(D)
                      /\ s[y[2]] = "duplicate"
    BY <1>7
  <2>1. q \in Trove
    BY <1>4, OneDecider
  <2>2. y \in Row
    BY <1>4, <2>1 DEF Row
  <2>3. \A z \in D : z[2] = y[2] => z = x
    OBVIOUS
  <2>4. y[2] \notin T \cup F
    BY <1>3, <2>3
  <2> QED BY <2>2, <2>4 DEF TrovesOf
<1>9. \A y, z \in new : y[2] = z[2] => y = z
  <2> SUFFICES ASSUME NEW y \in new, NEW z \in new, y[2] = z[2] PROVE y = z
    OBVIOUS
  <2>1. PICK x \in of("pending") : \E q \in Deciders(s, x[2], x[3]) : y = <<q, x[2], x[3]>>
    BY <1>7
  <2>2. PICK w \in of("pending") : \E r \in Deciders(s, w[2], w[3]) : z = <<r, w[2], w[3]>>
    BY <1>7
  <2>3. x = w
    BY <2>1, <2>2
  <2> PICK q \in Deciders(s, x[2], x[3]) : y = <<q, x[2], x[3]>>
    BY <2>1
  <2> PICK r \in Deciders(s, w[2], w[3]) : z = <<r, w[2], w[3]>>
    BY <2>2
  <2>4. q = r
    BY <1>4, <2>1, <2>2, <2>3, OneDecider
  <2> QED BY <2>1, <2>2, <2>3, <2>4
<1>10. \A y \in new, z \in duplicates \ D : y[2] # z[2]
  BY <1>8 DEF TrovesOf
<1>11. \A y \in duplicates \ D : y \in Row /\ y[2] \notin T \cup F /\ s[y[2]] = "duplicate"
  BY <1>5 DEF TrovesOf, Row, Types, TypeOK
<1>12. \A x \in D \cup duplicates : x[2] \in T \cup F \/ x[2] \in TrovesOf(duplicates')
  <2>1. ASSUME NEW x \in of("pending") PROVE x[2] \in TrovesOf(duplicates')
    <3>1. PICK q \in Deciders(s, x[2], x[3]) : TRUE
      BY <2>1 DEF Verdict
    <3>2. <<q, x[2], x[3]>> \in new
      BY <3>1
    <3>3. PICK d1 \in duplicates' : d1 = <<q, x[2], x[3]>>
      BY <1>1, <3>2
    <3>4. d1[2] = x[2]
      BY <3>3
    <3> QED BY <3>4 DEF TrovesOf
  <2> QED BY <1>1, <1>2, <2>1 DEF TrovesOf
<1>13. RowsFollow(D \cup duplicates, T \cup F, s)
  <2>1. \A y \in duplicates' : y \in Row /\ y[2] \notin T \cup F /\ s[y[2]] = "duplicate"
                               /\ y[2] \in TrovesOf(D \cup duplicates)
    BY <1>1, <1>8, <1>11 DEF TrovesOf
  <2>2. \A y, z \in duplicates' : y[2] = z[2] => y = z
    BY <1>1, <1>9, <1>10 DEF Rows
  <2> QED BY <1>12, <2>1, <2>2 DEF RowsFollow
<1>14. Sorts(D, T, F, s, g, d)
  BY <1>1, <1>5, <1>6, <1>13 DEF Sorts
<1> QED BY <1>14

-----------------------------------------------------------------------------
(* Troves that are built, or reused.                                       *)

\* What is newly made in the state s has its binaries in the tables or is disallowed,
\* and no two of it have binaries in common.
Makes(s) ==
    /\ builtBinaries \subseteq builtBinaries' /\ builtBinaries' \subseteq Binary
    /\ disallowed \subseteq disallowed' /\ disallowed' \subseteq Trove
    /\ \A t \in Trove : s[t] \in Made /\ state[t] \notin Made =>
          (Output[t] \cap builtBinaries = {} /\ Output[t] \subseteq builtBinaries') \/ t \in disallowed'
    /\ \A t, u \in Trove :
          /\ t # u
          /\ s[t] \in Made /\ state[t] \notin Made
          /\ s[u] \in Made /\ state[u] \notin Made
          => Output[t] \cap Output[u] = {}

\* When T0 is built, the duplicates M that waited for it are matched, and F conflict.
Builds(T0, M, F, s, g, d) ==
    /\ M \in SUBSET TrovesOf(duplicates) /\ F \in SUBSET TrovesOf(duplicates)
    /\ M \cap F = {} /\ T0 \cap (M \cup F) = {}
    /\ g = Delete(depGraph, T0 \cup M) /\ d = {}
    /\ Fail(F, s, g, d)
    /\ RowsFollow(duplicates, T0 \cup M \cup F, s)
    /\ hardDep' \subseteq hardDep
    /\ \A h \in hardDep : h[1] \in T0 \/ h[2] \in T0 \/ h \in hardDep'
    /\ Makes(s)

LEMMA BuiltSettles ==
    ASSUME NEW T0 \in SUBSET Trove, NEW s \in [Trove -> State],
           Types, Rows,
           \A x \in duplicates : s[x[2]] = "duplicate",
           \A t \in T0 : s[t] \in Made \cup {"leftOut"},
           \A t \in Trove \ T0 : s[t] \in Made => state[t] \in Made,
           \A t, u \in T0 : t # u => Output[t] \cap Output[u] = {},
           Built(T0, s)
    PROVE  \E M, F, g, d : Builds(T0, M, F, s, g, d)
<1>0. PICK D, g0, d0 :
         D = {d \in duplicates : d[1] \in T0} /\ g0 = Delete(depGraph, T0) /\ d0 = {}
  OBVIOUS
<1> DEFINE fresh == UNION {BinariesIn(s, t) : t \in {u \in T0 : BinariesIn(s, u) \cap builtBinaries = {}}}
<1>1. /\ hardDep' = {d \in hardDep : {d[1], d[2]} \cap T0 = {}}
      /\ builtBinaries' = builtBinaries \cup fresh
      /\ Duplicated(D, s, g0, d0)
  BY <1>0 DEF Built, Duplicated, Fail
<1>2. D \in SUBSET Row /\ D \cup duplicates = duplicates
  BY <1>0 DEF Types, TypeOK, Row
<1>3. PICK M, F : Sorts(D, M, F, s, g0, d0)
  <2>1. \A x, y \in D : x[2] = y[2] => x = y
    BY <1>0 DEF Rows
  <2>2. \A x \in D, y \in duplicates : x[2] = y[2] => y \in D
    BY <1>0 DEF Rows
  <2>3. \A x \in D \cup duplicates : s[x[2]] = "duplicate"
    BY <1>0
  <2>4. D \in SUBSET Row /\ s \in [Trove -> State]
    BY <1>2
  <2>5. Types /\ Rows
    OBVIOUS
  <2>6. Duplicated(D, s, g0, d0)
    BY <1>1
  <2> QED BY <2>1, <2>2, <2>3, <2>4, <2>5, <2>6, DuplicatedSettles
<1>4. M \in SUBSET TrovesOf(duplicates) /\ F \in SUBSET TrovesOf(duplicates)
  BY <1>2, <1>3 DEF Sorts, TrovesOf
<1>5. T0 \cap (M \cup F) = {}
  BY <1>4 DEF TrovesOf, Made
<1>6. Delete(g0, M) = Delete(depGraph, T0 \cup M)
  BY <1>0, DeleteAll
<1>7. RowsFollow(duplicates, T0 \cup M \cup F, s)
  <2>1. \A d \in duplicates' : d[2] \notin T0
    BY <1>2, <1>3 DEF Sorts, RowsFollow, Made, Row
  <2> QED BY <1>2, <1>3, <2>1 DEF Sorts, RowsFollow
<1>8. hardDep' \subseteq hardDep /\ \A h \in hardDep : h[1] \in T0 \/ h[2] \in T0 \/ h \in hardDep'
  BY <1>1
<1>9. Makes(s)
  <2>1. \A t \in Trove : Output[t] \subseteq Binary
    BY DepHandlerAssumption
  <2>2. builtBinaries \subseteq builtBinaries' /\ builtBinaries' \subseteq Binary
    BY <1>1, <2>1 DEF BinariesIn, Types, TypeOK
  <2>3. disallowed \subseteq disallowed' /\ disallowed' \subseteq Trove
    <3>1. M \subseteq Trove
      BY <1>2, <1>3 DEF Sorts, TrovesOf, Row
    <3> QED BY <1>3, <3>1 DEF Sorts, BuiltAgain, Types, TypeOK
  <2>4. ASSUME NEW t \in Trove, s[t] \in Made, state[t] \notin Made
        PROVE  (Output[t] \cap builtBinaries = {} /\ Output[t] \subseteq builtBinaries') \/ t \in disallowed'
    <3>1. t \in T0 /\ BinariesIn(s, t) = Output[t]
      BY <2>4 DEF BinariesIn
    <3>2. CASE Output[t] \cap builtBinaries = {}
      BY <1>1, <3>1, <3>2
    <3>3. CASE Output[t] \cap builtBinaries # {}
      BY <1>3, <2>4, <3>3 DEF Sorts, BuiltAgain
    <3> QED BY <3>2, <3>3
  <2>5. \A t, u \in Trove :
          t # u /\ s[t] \in Made /\ state[t] \notin Made /\ s[u] \in Made /\ state[u] \notin Made
          => Output[t] \cap Output[u] = {}
    OBVIOUS
  <2> QED BY <2>2, <2>3, <2>4, <2>5 DEF Makes
<1>10. Builds(T0, M, F, s, Delete(g0, M), d0)
  BY <1>0, <1>3, <1>4, <1>5, <1>6, <1>7, <1>8, <1>9 DEF Builds, Sorts
<1> QED BY <1>10

-----------------------------------------------------------------------------
(* The kinds of steps.                                                     *)

Resolving(t) == state[t] = "resolving"

\* A trove that may be reused or resolved, as one of C.
Candidate(t, C) ==
    /\ C \in LeafCycles(depGraph) /\ t \in C /\ C \cap DOMAIN resolving = {}
    /\ state[t] \in Unresolved /\ t \notin delayed

\* Who may fail by itself: whose command was out, who conflicts with another build,
\* and the delayed troves, when no resolution is under way.
MayFail(t) ==
    \/ state[t] \in {"resolving", "waiting", "building"}
    \/ t \in Special /\ state[t] = "init"
    \/ t \in TrovesOf(duplicates)
    \/ t \in delayed /\ ~\E u \in Trove : Resolving(u)

\* Who may leave the graph, in the state x.
Leaves(t, x) ==
    \/ t \notin Special /\ Resolving(t) /\ x \in {"reused", "leftOut"}
                        /\ (x = "leftOut" => ~fastResolution')
    \/ x = "reused" /\ \E C : Candidate(t, C)
    \/ state[t] = "building" /\ x = "built"
    \/ state[t] = "building" /\ t \notin Special /\ x = "duplicate"
    \/ t \in TrovesOf(duplicates) /\ x = "duplicate"
    \/ t \in PrepOnly /\ state[t] = "waiting" /\ x = "prepared"

\* Who may stay in it, in the state x, when the troves S settle: it is sent to be
\* resolved, or is a duplicate whose match is yet to be built.
Starts(t, x, S) ==
    /\ x = "resolving" /\ DOMAIN resolving' = DOMAIN resolving \cup {t}
    /\ \E C : /\ Candidate(t, C) /\ C \cap S = {}
              /\ resolving'[t] = IF C = {t} THEN {} ELSE C

Awaits(t, x) ==
    state[t] = "building" /\ t \notin Special /\ x = "duplicate" /\ t \in TrovesOf(duplicates')

\* The troves under resolution but those of S stay what they are to _resolving.
KeepsResolving(S) ==
    /\ DOMAIN resolving' \subseteq Trove /\ resolving' \in [DOMAIN resolving' -> SUBSET Trove]
    /\ \A t \in Trove \ S : Resolving(t) =>
          t \in DOMAIN resolving' /\ resolving'[t] = resolving[t]

\* The rows of the duplicates go on, and there may be one for a build that is done.
RowsKept(D, S, s) ==
    /\ D \in SUBSET Row /\ duplicates \subseteq D
    /\ \A t \in TrovesOf(D) : t \in TrovesOf(duplicates) \/ (state[t] = "building" /\ t \notin Special)
    /\ RowsFollow(D, S, s)

\* Troves settle: the troves T leave the graph g, F fail and drag others along.
Settles(T, F, D, s, g) ==
    /\ T \in SUBSET Trove /\ F \in SUBSET Trove /\ T \cap F = {}
    /\ s \in [Trove -> State] /\ g \in Graph
    /\ \E d \in SUBSET delayed : Fail(F, s, Delete(g, T), d)
    /\ depGraph.node \subseteq g.node /\ depGraph.edge \subseteq g.edge
    /\ \A e \in g.edge : e \in depGraph.edge \/ (e[1] \in F /\ e[1] \in g.node /\ e[2] \in g.node)
    /\ fastResolution' => g = depGraph
    /\ \A t \in F : MayFail(t)
    /\ \A t \in T : Leaves(t, s[t])
    /\ \A t \in Trove \ (T \cup F) : s[t] = state[t] \/ Starts(t, s[t], T \cup F) \/ Awaits(t, s[t])
    /\ RowsKept(D, T \cup F, s)
    /\ KeepsResolving(T \cup F)
    /\ \A h \in hardDep : h[1] \in T \/ h[2] \in T \/ h \in hardDep'
    /\ Makes(s)

\* The trove t must wait: after a resolution, or when it could have been reused.
Waits(t, E) ==
    /\ depGraph' = AddEdges(depGraph, E)
    /\ E \in SUBSET (Trove \X Trove \X Label)
    /\ \A e \in E : /\ e[1] = t /\ e[2] \in Trove \ Special /\ e[2] # t
                    /\ e[3][1] = "dependency"
                    /\ Settled(e[2]) => <<t, e[2]>> \in hardDep'
    /\ \/ /\ Resolving(t) /\ state' = [state EXCEPT ![t] = "init"]
          /\ KeepsResolving({t}) /\ ~fastResolution' /\ delayed' \subseteq delayed \cup {t}
       \/ /\ state[t] \in Unresolved /\ t \in depGraph.node /\ ~\E u \in Trove : Resolving(u)
          /\ \A e \in E : ~Finished(e[2])
          /\ UNCHANGED <<state, resolving, delayed>>
    /\ hardDep \subseteq hardDep'
    /\ UNCHANGED <<buildable, duplicates, builtBinaries, disallowed>>

\* The trove t is to be built, and its cycle is broken.
Breaks(t) ==
    /\ Resolving(t) /\ state' = [state EXCEPT ![t] = "buildable"]
    /\ buildable' = buildable \cup {t} /\ KeepsResolving({t}) /\ ~fastResolution'
    /\ depGraph' = IF resolving[t] # {} THEN DeleteEdges(depGraph, t) ELSE depGraph
    /\ UNCHANGED <<hardDep, delayed, duplicates, builtBinaries, disallowed>>

\* The trove t is sent to be built, or its build starts.
Moves(t) ==
    /\ \/ /\ t \in buildable /\ buildable' = buildable \ {t}
          /\ state' = [state EXCEPT ![t] = "waiting"]
       \/ /\ state[t] = "waiting" /\ state' = [state EXCEPT ![t] = "building"]
          /\ UNCHANGED buildable
       \/ /\ t \in Special /\ state[t] = "init" /\ state' = [state EXCEPT ![t] = "building"]
          /\ UNCHANGED buildable
    /\ UNCHANGED <<depGraph, resolving, delayed, hardDep, duplicates, builtBinaries, disallowed>>

\* Nothing happens to the troves.
Rests ==
    UNCHANGED <<state, depGraph, resolving, delayed, buildable,
                hardDep, duplicates, builtBinaries, disallowed>>

Step ==
    \/ \E T, F, D, s, g : Settles(T, F, D, s, g)
    \/ \E t \in Trove : \E E : Waits(t, E)
    \/ \E t \in Trove : Breaks(t) \/ Moves(t)
    \/ Rests

-----------------------------------------------------------------------------
(* The operations come down to these kinds of steps.                       *)

LEMMA GraphKept ==
    ASSUME Types
    PROVE  /\ \A e \in depGraph.edge : /\ e[1] \in depGraph.node /\ e[2] \in depGraph.node
                                       /\ e[1] \in Trove /\ e[2] \in Trove /\ e[3] \in Label
                                       /\ e[1] \notin Special /\ e[2] \notin Special
           /\ depGraph.node \in SUBSET (Trove \ Special)
<1>1. depGraph.edge \subseteq depGraph.node \X depGraph.node \X Label
  BY DEF Types, TypeOK
<1>2. depGraph.node \in SUBSET (Trove \ Special)
  BY DEF Types, Graph
<1>3. \A e \in depGraph.edge : e \in depGraph.node \X depGraph.node \X Label
  BY <1>1
<1> QED BY <1>2, <1>3

\* A candidate and its cycle wait for nobody outside, and none of it is resolved.
LEMMA CandidateCycle ==
    ASSUME DepInv, NEW t, NEW C, Candidate(t, C)
    PROVE  /\ t \in Trove \ Special
           /\ C \subseteq depGraph.node /\ Closed(depGraph, C)
           /\ \A u \in C : Reaches(depGraph, u, t) /\ state[u] \in Unresolved
           /\ C = {t} => \A e \in depGraph.edge : e[1] # t
<1>1. C \in LeafCycles(depGraph) /\ t \in C /\ state[t] \in Unresolved
  BY DEF Candidate
<1>2. C \in SUBSET depGraph.node /\ Closed(depGraph, C) /\ \A u, v \in C : Reaches(depGraph, u, v)
  BY <1>1, LeafClosed
<1>3. ASSUME NEW u \in C, u # t PROVE state[u] \in Unresolved
  <2>1. PICK e \in depGraph.edge : e[1] = u
    BY <1>1, <1>2, <1>3, ReachesByAnEdge
  <2>2. Live(u)
    BY <2>1 DEF DepInv, Edges
  <2>3. u \in Trove /\ u \notin DOMAIN resolving
    BY <1>2, GraphKept DEF Candidate, DepInv
  <2> QED BY <2>2, <2>3 DEF Live, DepInv, Types
<1>4. C = {t} => \A e \in depGraph.edge : e[1] # t
  BY <1>2 DEF Closed, DepInv, Edges
<1>5. t \in Trove \ Special
  BY <1>1, <1>2, GraphKept DEF DepInv
<1> QED BY <1>1, <1>2, <1>3, <1>4, <1>5

\* It is in no cycle that another trove is resolved to break.
LEMMA CandidateApart ==
    ASSUME DepInv, NEW t, NEW C, Candidate(t, C), NEW v \in Trove, Resolving(v)
    PROVE  C \cap resolving[v] = {}
<1> SUFFICES ASSUME NEW x \in C, x \in resolving[v] PROVE FALSE
  OBVIOUS
<1>1. CycleKept(v)
  BY DEF DepInv, Cycles, Resolving
<1>2. Reaches(depGraph, x, v)
  BY <1>1 DEF CycleKept
<1>3. C \in SUBSET depGraph.node /\ Closed(depGraph, C)
  BY CandidateCycle
<1>4. v \in C
  BY <1>2, <1>3, ClosedHas
<1> QED BY <1>4 DEF Candidate, Resolving, DepInv, Types

\* Troves that are built or reused settle, and another may start to be resolved.
LEMMA BuildsSettles ==
    ASSUME DepInv, NEW T0 \in SUBSET Trove, NEW M, NEW F, NEW s \in [Trove -> State], NEW g, NEW d,
           Builds(T0, M, F, s, g, d),
           \A t \in T0 : s[t] \in Made \cup {"leftOut"} /\ Leaves(t, s[t]),
           \A t \in Trove \ T0 : s[t] = state[t] \/ Starts(t, s[t], T0),
           KeepsResolving(T0)
    PROVE  \E T, D, g1 : Settles(T, F, D, s, g1)
<1>0. PICK T, D, g1 : T = T0 \cup M /\ D = duplicates /\ g1 = depGraph
  OBVIOUS
<1>1. Types /\ Rows
  BY DEF DepInv
<1>2. duplicates \in SUBSET Row
  BY <1>1 DEF Types, TypeOK, Row
<1>3. /\ M \in SUBSET Trove /\ F \in SUBSET Trove
      /\ \A t \in M \cup F : t \in TrovesOf(duplicates) /\ state[t] = "duplicate"
  BY <1>1, <1>2 DEF Builds, TrovesOf, Row, Rows
<1>4. T \in SUBSET Trove /\ T \cap F = {}
  BY <1>0, <1>3 DEF Builds
<1>5. \E d1 \in SUBSET delayed : Fail(F, s, Delete(g1, T), d1)
  <2>1. d \in SUBSET delayed /\ g = Delete(g1, T) /\ Fail(F, s, g, d)
    BY <1>0 DEF Builds
  <2> QED BY <2>1
<1>6. g1 \in Graph
  BY <1>0, <1>1 DEF Types
<1>7. \A t \in F : MayFail(t)
  BY <1>3 DEF MayFail
<1>8. \A t \in TrovesOf(duplicates) : t \in Trove \ T0 /\ s[t] = "duplicate"
  <2>1. \A x \in duplicates : x[2] \in Trove /\ state[x[2]] = "duplicate"
    BY <1>1, <1>2 DEF Row, Rows
  <2>2. ASSUME NEW t \in TrovesOf(duplicates) PROVE t \in Trove \ T0 /\ s[t] = "duplicate"
    <3>1. t \in Trove /\ state[t] = "duplicate"
      BY <2>1 DEF TrovesOf
    <3>2. CASE t \in T0
      BY <3>1, <3>2 DEF Made, Leaves, Resolving, Unresolved, Candidate
    <3>3. CASE t \notin T0
      BY <3>1, <3>3, CandidateCycle DEF Starts, Candidate, Unresolved
    <3> QED BY <3>2, <3>3
  <2> QED BY <2>2
<1>9. \A t \in T : Leaves(t, s[t])
  BY <1>0, <1>3, <1>8 DEF Leaves
<1>10. ASSUME NEW t \in Trove \ (T \cup F) PROVE s[t] = state[t] \/ Starts(t, s[t], T \cup F)
  <2>1. CASE s[t] = state[t]
    BY <2>1
  <2>2. CASE s[t] # state[t]
    <3>1. /\ s[t] = "resolving" /\ DOMAIN resolving' = DOMAIN resolving \cup {t}
          /\ \E C : /\ Candidate(t, C) /\ C \cap T0 = {}
                    /\ resolving'[t] = IF C = {t} THEN {} ELSE C
      BY <1>0, <2>2 DEF Starts
    <3>2. PICK C : /\ Candidate(t, C) /\ C \cap T0 = {}
                   /\ resolving'[t] = IF C = {t} THEN {} ELSE C
      BY <3>1
    <3>3. \A u \in C : state[u] # "duplicate"
      BY <3>2, CandidateCycle DEF Unresolved
    <3>4. C \cap (T \cup F) = {}
      BY <1>0, <1>3, <3>2, <3>3
    <3> QED BY <3>1, <3>2, <3>4 DEF Starts
  <2> QED BY <2>1, <2>2
<1>11. RowsKept(D, T \cup F, s)
  <2>1. RowsFollow(D, T \cup F, s)
    BY <1>0 DEF Builds, RowsFollow
  <2>2. D \in SUBSET Row /\ duplicates \subseteq D /\ \A t \in TrovesOf(D) : t \in TrovesOf(duplicates)
    BY <1>0, <1>2
  <2> QED BY <2>1, <2>2 DEF RowsKept
<1>12. KeepsResolving(T \cup F)
  BY <1>0 DEF KeepsResolving
<1>13. \A h \in hardDep : h[1] \in T \/ h[2] \in T \/ h \in hardDep'
  BY <1>0 DEF Builds
<1>14. Makes(s)
  BY DEF Builds
<1>15. Settles(T, F, D, s, g1)
  BY <1>0, <1>3, <1>4, <1>5, <1>6, <1>7, <1>9, <1>10, <1>11, <1>12, <1>13, <1>14 DEF Settles
<1> QED BY <1>15

\* Troves fail, or one starts to be resolved, and nobody is built.
LEMMA FailSettles ==
    ASSUME DepInv, NEW F \in SUBSET Trove, NEW s \in [Trove -> State], NEW g \in Graph,
           NEW d \in SUBSET delayed, Fail(F, s, g, d),
           depGraph.node \subseteq g.node, depGraph.edge \subseteq g.edge,
           \A e \in g.edge : e \in depGraph.edge \/ (e[1] \in F /\ e[1] \in g.node /\ e[2] \in g.node),
           fastResolution' => g = depGraph,
           \A t \in F : MayFail(t) /\ state[t] # "duplicate",
           \A t \in Trove : s[t] = state[t] \/ Starts(t, s[t], F),
           KeepsResolving(F),
           hardDep \subseteq hardDep', UNCHANGED <<duplicates, builtBinaries, disallowed>>
    PROVE  Step
<1>0. PICK T, D : T = {} /\ D = duplicates
  OBVIOUS
<1>1. Types /\ Rows
  BY DEF DepInv
<1>2. D \in SUBSET Row
  BY <1>0, <1>1 DEF Types, TypeOK, Row
<1>3. \A x \in D : x[2] \in Trove /\ state[x[2]] = "duplicate" /\ s[x[2]] = "duplicate"
  BY <1>0, <1>1, <1>2 DEF Row, Rows, Starts, Candidate, Unresolved
<1>4. RowsKept(D, T \cup F, s)
  <2>1. \A x \in D : x[2] \notin T \cup F /\ x[2] \in TrovesOf(D)
    BY <1>0, <1>3 DEF TrovesOf
  <2>2. \A t \in TrovesOf(D) : t \in TrovesOf(duplicates)
    BY <1>0
  <2>3. RowsFollow(D, T \cup F, s)
    BY <1>0, <1>1, <1>2, <1>3, <2>1 DEF RowsFollow, Rows
  <2> QED BY <1>0, <1>2, <2>2, <2>3 DEF RowsKept
<1>5. \E d1 \in SUBSET delayed : Fail(F, s, Delete(g, T), d1)
  <2>1. Delete(g, T) = g
    BY <1>0, DeleteNone
  <2> QED BY <2>1
<1>6. Makes(s)
  <2>1. \A t \in Trove : s[t] \in Made => state[t] \in Made
    BY DEF Starts, Made
  <2>2. builtBinaries \subseteq Binary /\ disallowed \subseteq Trove
    BY <1>1 DEF Types, TypeOK
  <2> QED BY <2>1, <2>2 DEF Makes
<1>7. \A t \in Trove \ (T \cup F) : s[t] = state[t] \/ Starts(t, s[t], T \cup F)
  <2>1. T \cup F = F /\ T \cup F \subseteq Trove
    BY <1>0
  <2> QED BY <2>1
<1>8. KeepsResolving(T \cup F)
  BY <1>0 DEF KeepsResolving
<1>9. Settles(T, F, D, s, g)
  BY <1>0, <1>4, <1>5, <1>6, <1>7, <1>8 DEF Settles
<1> QED BY <1>9 DEF Step

\* Answering the jobs R with the old binaries, besides what the state s starts.
LEMMA ReuseStep ==
    ASSUME DepInv, NEW R, NEW s \in [Trove -> State],
           \A r \in R : r[1] \in Trove /\ Candidate(r[1], r[2]) /\ state[r[1]] = "prebuilt",
           \A t \in Trove : s[t] = state[t] \/
               (/\ s[t] = "resolving" /\ DOMAIN resolving' = DOMAIN resolving \cup {t}
                /\ \E C : /\ Candidate(t, C) /\ \A r \in R : r[2] # C
                          /\ resolving'[t] = IF C = {t} THEN {} ELSE C),
           KeepsResolving({}), R # {}, Reuse(R, s)
    PROVE  Step
<1>0. PICK T0, s1 : /\ T0 = {r[1] : r \in R}
                    /\ s1 = [u \in Trove |-> IF \E r \in R : r[1] = u THEN "reused" ELSE s[u]]
  OBVIOUS
<1>1. T0 \in SUBSET Trove /\ s1 \in [Trove -> State]
  BY <1>0 DEF State, Final, Made
<1>2. \A t \in Trove : s1[t] = IF t \in T0 THEN "reused" ELSE s[t]
  BY <1>0
<1>3. Built(T0, s1)
  <2>1. Built({r[1] : r \in R}, [u \in Trove |-> IF \E r \in R : r[1] = u THEN "reused" ELSE s[u]])
    BY DEF Reuse
  <2> QED BY <1>0, <2>1, Zenon
<1>4. Types /\ Rows /\ KeepsResolving(T0)
  BY DEF DepInv, KeepsResolving
<1>5. \A t \in T0 : state[t] = "prebuilt" /\ \E r \in R : r[1] = t
  BY <1>0
<1>6. \A t \in Trove : s[t] = state[t] \/ (s[t] = "resolving" /\ state[t] \in Unresolved)
  BY DEF Candidate
<1>7. \A x \in duplicates : s1[x[2]] = "duplicate"
  <2>1. \A x \in duplicates : x[2] \in Trove /\ state[x[2]] = "duplicate"
    BY <1>4 DEF Types, TypeOK, Rows
  <2> QED BY <1>2, <1>5, <1>6, <2>1 DEF Unresolved
<1>8. \A t \in Trove \ T0 : s1[t] \in Made => state[t] \in Made
  BY <1>2, <1>6 DEF Made
<1>9. \A t, u \in T0 : t # u => Output[t] \cap Output[u] = {}
  <2>1. \A t \in T0 : t \in DOMAIN job.old
    BY <1>1, <1>4, <1>5 DEF Types
  <2>2. IsJob(job)
    BY <1>4, DepHandlerAssumption DEF Types, TypeOK
  <2> QED BY <2>1, <2>2 DEF IsJob
<1>10. \A t \in T0 : s1[t] \in Made \cup {"leftOut"}
  BY <1>1, <1>2 DEF Made
<1>11. PICK M, F, g, d : Builds(T0, M, F, s1, g, d)
  BY <1>1, <1>3, <1>4, <1>7, <1>8, <1>9, <1>10, BuiltSettles
<1>12. \A t \in T0 : Leaves(t, s1[t])
  BY <1>1, <1>2, <1>5 DEF Leaves
<1>13. ASSUME NEW t \in Trove \ T0 PROVE s1[t] = state[t] \/ Starts(t, s1[t], T0)
  <2>1. CASE s[t] = state[t]
    BY <1>2, <2>1
  <2>2. CASE s[t] # state[t]
    <3>1. PICK C : /\ Candidate(t, C) /\ \A r \in R : r[2] # C
                   /\ resolving'[t] = IF C = {t} THEN {} ELSE C
      BY <2>2
    <3>2. ASSUME NEW u \in T0, u \in C PROVE FALSE
      <4>1. PICK r \in R : r[1] = u
        BY <1>5
      <4>2. r[2] \in LeafCycles(depGraph) /\ C \in LeafCycles(depGraph) /\ u \in r[2] /\ r[2] # C
        BY <3>1, <4>1 DEF Candidate
      <4> QED BY <3>2, <4>2, LeavesApart
    <3>3. s1[t] = "resolving" /\ DOMAIN resolving' = DOMAIN resolving \cup {t} /\ C \cap T0 = {}
      BY <1>2, <2>2, <3>2
    <3> QED BY <3>1, <3>3 DEF Starts
  <2> QED BY <2>1, <2>2
<1>14. PICK T, D, g1 : Settles(T, F, D, s1, g1)
  BY <1>1, <1>4, <1>10, <1>11, <1>12, <1>13, BuildsSettles
<1> QED BY <1>14 DEF Step

-----------------------------------------------------------------------------
(* What a turn of the loop does.                                           *)

LEMMA ResolveJobsFree ==
    ASSUME DepInv, NEW r \in ResolveJobs
    PROVE  r[1] \in Trove /\ Candidate(r[1], r[2])
<1>1. /\ r[1] \in Trove /\ r[2] \in LeafCycles(depGraph) /\ r[1] \in Resolvable(r[2])
      /\ r[2] # {r[1]} => r[2] \cap DOMAIN resolving = {}
  BY DEF ResolveJobs, MayChoose
<1> QED BY <1>1 DEF Resolvable, Candidate

LEMMA StartStep ==
    ASSUME DepInv, NEW t \in Trove, NEW C, NEW R, Candidate(t, C),
           \A r \in R : r[1] \in Trove /\ Candidate(r[1], r[2]) /\ state[r[1]] = "prebuilt" /\ r[2] # C,
           StartResolve(t, C, R)
    PROVE  Step
<1>0. PICK s : s = [state EXCEPT ![t] = "resolving"]
  OBVIOUS
<1>1. Types
  BY DEF DepInv
<1>2. s \in [Trove -> State] /\ \A u \in Trove : s[u] = IF u = t THEN "resolving" ELSE state[u]
  BY <1>0, <1>1 DEF Types, TypeOK, State
<1>3. /\ DOMAIN resolving' = DOMAIN resolving \cup {t}
      /\ \A u \in DOMAIN resolving : u # t => resolving'[u] = resolving[u]
      /\ resolving'[t] = IF C = {t} THEN {} ELSE C
      /\ resolving' = [u \in DOMAIN resolving' |-> resolving'[u]]
  BY DEF StartResolve
<1>4. C \in SUBSET Trove /\ ~Resolving(t)
  BY CandidateCycle, GraphKept DEF Candidate, DepInv, Unresolved, Resolving
<1>5. KeepsResolving({})
  <2>1. DOMAIN resolving' \subseteq Trove /\ resolving \in [DOMAIN resolving -> SUBSET Trove]
    BY <1>1, <1>3 DEF Types, TypeOK
  <2>2. \A u \in DOMAIN resolving' : resolving'[u] \in SUBSET Trove
    BY <1>3, <1>4, <2>1
  <2>3. resolving' \in [DOMAIN resolving' -> SUBSET Trove]
    BY <1>3, <2>2
  <2>4. \A u \in Trove : Resolving(u) => u # t /\ u \in DOMAIN resolving
    BY <1>1, <1>4 DEF Resolving, Types
  <2> QED BY <1>3, <2>1, <2>3, <2>4 DEF KeepsResolving
<1>6. Reuse(R, s)
  BY <1>0 DEF StartResolve
<1>7. ASSUME NEW u \in Trove, s[u] # state[u]
      PROVE  /\ u = t /\ s[u] = "resolving" /\ DOMAIN resolving' = DOMAIN resolving \cup {u}
             /\ \E K : /\ Candidate(u, K) /\ \A r \in R : r[2] # K
                       /\ resolving'[u] = IF K = {u} THEN {} ELSE K
  <2>1. u = t /\ s[u] = "resolving"
    BY <1>2, <1>7
  <2> QED BY <1>3, <2>1
<1>8. CASE R = {}
  <2>1. state' = s /\ UNCHANGED <<depGraph, buildable, delayed, tables>>
    BY <1>6, <1>8 DEF Reuse
  <2>2. PICK F, g, d : F = {} /\ g = depGraph /\ d = delayed
    OBVIOUS
  <2>3. g \in Graph /\ Dragged(g, F) = {} /\ Delete(g, {}) = g
    BY <1>1, <2>2, NothingDragged, DeleteNone DEF Types
  <2>4. state' = StateAfter(s, g, F)
    BY <1>2, <2>1, <2>2, <2>3 DEF StateAfter
  <2>5. Fail(F, s, g, d)
    BY <2>1, <2>2, <2>3, <2>4 DEF Fail
  <2>6. \A u \in Trove : s[u] = state[u] \/ Starts(u, s[u], F)
    BY <1>7, <2>2 DEF Starts
  <2>7. KeepsResolving(F) /\ F \in SUBSET Trove /\ d \in SUBSET delayed
    BY <1>5, <2>2
  <2>8. /\ depGraph.node \subseteq g.node /\ depGraph.edge \subseteq g.edge
        /\ \A e \in g.edge : e \in depGraph.edge
        /\ fastResolution' => g = depGraph
        /\ \A u \in F : MayFail(u) /\ state[u] # "duplicate"
    BY <2>2
  <2>9. hardDep \subseteq hardDep' /\ UNCHANGED <<duplicates, builtBinaries, disallowed>>
    BY <2>1 DEF tables
  <2> QED BY <1>2, <2>3, <2>5, <2>6, <2>7, <2>8, <2>9, FailSettles
<1>9. CASE R # {}
  <2>1. \A r \in R : r[1] \in Trove /\ Candidate(r[1], r[2]) /\ state[r[1]] = "prebuilt"
    OBVIOUS
  <2> QED BY <1>2, <1>5, <1>6, <1>7, <1>9, <2>1, ReuseStep
<1> QED BY <1>8, <1>9

\* What t is found to wait for: troves of the job that are not finished.
LEMMA NewDepLinksOpen ==
    ASSUME NEW t \in Trove, NEW P \in SUBSET Package, NEW W
    PROVE  /\ NewDepLinks(t, P, W) \in SUBSET (Trove \X Trove \X Label)
           /\ \A e \in NewDepLinks(t, P, W) :
                 /\ e[1] = t /\ e[2] \in Trove \ Special /\ e[2] # t /\ e[3][1] = "dependency"
                 /\ ~Finished(e[2]) /\ ~Settled(e[2])
<1> SUFFICES ASSUME NEW e \in NewDepLinks(t, P, W)
             PROVE  /\ e \in Trove \X Trove \X Label
                    /\ e[1] = t /\ e[2] \in Trove \ Special /\ e[2] # t /\ e[3][1] = "dependency"
                    /\ ~Finished(e[2]) /\ ~Settled(e[2])
  OBVIOUS
<1>1. PICK p \in P : e \in Links(t, W \cap Awaitable(t, p), Dependency({p}))
  BY DEF NewDepLinks
<1>2. PICK q \in Awaitable(t, p) : e = <<t, q, Dependency({p})>>
  BY <1>1 DEF Links
<1>3. q \in Trove \ Special /\ q # t /\ ~Finished(q)
  BY <1>2, ProvidersBuilt DEF Awaitable
<1>4. Dependency({p}) \in Label /\ Dependency({p})[1] = "dependency"
  BY DEF Dependency, Label
<1> QED BY <1>2, <1>3, <1>4 DEF Settled

LEMMA PrebuiltOld ==
    ASSUME DepInv, NEW t \in Trove, state[t] = "prebuilt"
    PROVE  /\ t \in DOMAIN job.old /\ job.old[t].installed \in SUBSET Package
           /\ job.old[t].source => job.reqs[t] \subseteq job.old[t].installed
<1>1. t \in DOMAIN job.old /\ IsJob(job)
  BY DepHandlerAssumption DEF DepInv, Types, TypeOK
<1> QED BY <1>1 DEF IsJob, OldBuild, FromContext, FromBinaries

LEMMA FastFree ==
    ASSUME DepInv, ~NothingTried, Fast, NEW C \in FastLeaves, NEW t \in C
    PROVE  Candidate(t, C) /\ t \in Trove /\ t \in depGraph.node /\ DOMAIN resolving = {}
<1>1. DOMAIN resolving = {} /\ fastResolution /\ delayed = {}
  BY DEF NothingTried, Fast, DepInv, FastOnly
<1>2. C \in LeafCycles(depGraph)
  BY DEF FastLeaves
<1>3. t \in depGraph.node /\ t \in Trove
  BY <1>2, LeafClosed, GraphKept DEF DepInv
<1>4. Live(t) /\ state[t] # "resolving"
  BY <1>1, <1>3 DEF DepInv, FastOnly, Types
<1> QED BY <1>1, <1>2, <1>3, <1>4 DEF Candidate, Live

LEMMA ReuseOnly ==
    ASSUME DepInv, NEW R, Reuse(R, state), UNCHANGED resolving,
           \A r \in R : r[1] \in Trove /\ Candidate(r[1], r[2]) /\ state[r[1]] = "prebuilt"
    PROVE  Step
<1>1. PICK s : s = state
  OBVIOUS
<1>2. Types /\ s \in [Trove -> State] /\ Reuse(R, s)
  BY <1>1 DEF DepInv, Types, TypeOK
<1>3. KeepsResolving({})
  BY <1>2 DEF KeepsResolving, Types, TypeOK, Resolving
<1>4. CASE R = {}
  BY <1>1, <1>2, <1>4 DEF Reuse, Step, Rests, tables
<1>5. CASE R # {}
  BY <1>1, <1>2, <1>3, <1>5, ReuseStep
<1> QED BY <1>4, <1>5

LEMMA ResolveFastStep ==
    ASSUME DepInv, ~NothingTried, Fast, NEW C \in FastLeaves, NEW t \in C, ResolveFast(t, C)
    PROVE  Step
<1>1. Candidate(t, C) /\ t \in Trove /\ t \in depGraph.node /\ DOMAIN resolving = {}
  BY FastFree
<1>2. PICK R : R = {<<t, C>>}
  OBVIOUS
<1>3. \A r \in R : r[1] = t /\ r[2] = C
  BY <1>2
<1>4. CASE Spared(t) /\ Reuse({<<t, C>>}, state) /\ UNCHANGED resolving
  <2>1. Reuse(R, state) /\ state[t] = "prebuilt"
    BY <1>2, <1>4 DEF Spared
  <2> QED BY <1>1, <1>3, <1>4, <2>1, ReuseOnly
<1>5. ASSUME Quick(t), NEW W \in NewDeps(t, job.old[t].installed), UNCHANGED resolving,
             IF W = {} THEN Reuse({<<t, C>>}, state)
             ELSE /\ depGraph' = AddEdges(depGraph, NewDepLinks(t, job.old[t].installed, W))
                  /\ UNCHANGED <<state, buildable, delayed, tables>>
      PROVE  Step
  <2>1. state[t] = "prebuilt"
    BY <1>5 DEF Quick
  <2>2. CASE W = {}
    <3>1. Reuse(R, state)
      BY <1>2, <1>5, <2>2
    <3> QED BY <1>1, <1>3, <1>5, <2>1, <3>1, ReuseOnly
  <2>3. CASE W # {}
    <3>1. PICK E : E = NewDepLinks(t, job.old[t].installed, W)
      OBVIOUS
    <3>2. job.old[t].installed \in SUBSET Package
      BY <1>1, <2>1, PrebuiltOld
    <3>3. /\ E \in SUBSET (Trove \X Trove \X Label)
          /\ \A e \in E : /\ e[1] = t /\ e[2] \in Trove \ Special /\ e[2] # t /\ e[3][1] = "dependency"
                          /\ ~Finished(e[2]) /\ ~Settled(e[2])
      BY <1>1, <3>1, <3>2, NewDepLinksOpen
    <3>4. ~\E u \in Trove : Resolving(u)
      BY <1>1 DEF Resolving, DepInv, Types
    <3>5. Waits(t, E)
      BY <1>1, <1>5, <2>1, <2>3, <3>1, <3>3, <3>4 DEF Waits, tables, Unresolved
    <3> QED BY <1>1, <3>5 DEF Step
  <2> QED BY <2>2, <2>3
<1>6. CASE StartResolve(t, C, {})
  BY <1>1, <1>6, StartStep
<1> QED BY <1>4, <1>5, <1>6 DEF ResolveFast

LEMMA DelayedFail ==
    ASSUME DepInv, DOMAIN resolving = {}, UNCHANGED <<resolving, tables>>,
           Fail(delayed, state, depGraph, delayed)
    PROVE  Step
<1>1. PICK F, s, g, d : F = delayed /\ s = state /\ g = depGraph /\ d = delayed
  OBVIOUS
<1>2. Types /\ Fail(F, s, g, d)
  BY <1>1 DEF DepInv
<1>3. F \in SUBSET Trove /\ s \in [Trove -> State] /\ g \in Graph /\ d \in SUBSET delayed
  BY <1>1, <1>2 DEF Types, TypeOK
<1>4. \A t \in F : MayFail(t) /\ state[t] # "duplicate"
  BY <1>1, <1>2 DEF MayFail, Resolving, Types, Failure
<1>5. KeepsResolving(F)
  BY <1>2 DEF KeepsResolving, Types, TypeOK, Resolving
<1>6. hardDep \subseteq hardDep' /\ UNCHANGED <<duplicates, builtBinaries, disallowed>>
  BY DEF tables
<1> QED BY <1>1, <1>2, <1>3, <1>4, <1>5, <1>6, FailSettles

LEMMA ResolveNextStep ==
    ASSUME DepInv, ResolveNext
    PROVE  Step
<1>1. PICK R \in SUBSET {r \in ResolveJobs : Spared(r[1])} :
         \/ \E r \in ResolveJobs : r[2] \notin {x[2] : x \in R} /\ StartResolve(r[1], r[2], R)
         \/ /\ IF R = {} /\ buildable = {} /\ DOMAIN resolving = {}
               THEN Fail(delayed, state, depGraph, delayed) /\ UNCHANGED tables
               ELSE Reuse(R, state)
            /\ UNCHANGED resolving
  BY DEF ResolveNext
<1>2. \A r \in R : r[1] \in Trove /\ Candidate(r[1], r[2]) /\ state[r[1]] = "prebuilt"
  BY <1>1, ResolveJobsFree DEF Spared
<1>3. ASSUME NEW r \in ResolveJobs, r[2] \notin {x[2] : x \in R}, StartResolve(r[1], r[2], R)
      PROVE  Step
  <2>1. \A x \in R : x[2] # r[2]
    BY <1>3
  <2>2. r[1] \in Trove /\ Candidate(r[1], r[2])
    BY <1>3, ResolveJobsFree
  <2> QED BY <1>2, <1>3, <2>1, <2>2, StartStep
<1>4. CASE DOMAIN resolving = {} /\ Fail(delayed, state, depGraph, delayed) /\ UNCHANGED <<resolving, tables>>
  BY <1>4, DelayedFail
<1>5. CASE Reuse(R, state) /\ UNCHANGED resolving
  BY <1>2, <1>5, ReuseOnly
<1> QED BY <1>1, <1>3, <1>4, <1>5

LEMMA ResolveIfReadyStep ==
    ASSUME DepInv, ResolveIfReady
    PROVE  Step
<1>1. CASE /\ NothingTried
           /\ UNCHANGED <<state, depGraph, buildable, delayed, tables, resolving, fastResolution>>
  BY <1>1 DEF Step, Rests, tables
<1>2. CASE /\ ~NothingTried /\ Fast
           /\ \E C \in FastLeaves : BuiltBefore(C) /\ \E t \in C : ResolveFast(t, C)
  BY <1>2, ResolveFastStep
<1>3. CASE ResolveNext
  BY <1>3, ResolveNextStep
<1> QED BY <1>1, <1>2, <1>3 DEF ResolveIfReady

LEMMA TurnStep ==
    ASSUME DepInv, Turn
    PROVE  Step
<1>1. CASE TurnAfterEvent
  BY <1>1, ResolveIfReadyStep DEF TurnAfterEvent
<1>2. ASSUME NEW t \in Trove, TurnBuild(t) PROVE Step
  <2>1. Moves(t)
    BY <1>2 DEF TurnBuild, Moves, tables
  <2> QED BY <2>1 DEF Step
<1>3. ASSUME NEW t \in Trove, TurnSpecial(t) PROVE Step
  BY <1>3 DEF TurnSpecial, Step, Rests, tables
<1>4. CASE TurnResolve
  BY <1>4, ResolveIfReadyStep DEF TurnResolve
<1> QED BY <1>1, <1>2, <1>3, <1>4 DEF Turn

-----------------------------------------------------------------------------
(* What an answer does.                                                    *)

LEMMA NoLongerKeeps ==
    ASSUME DepInv, NEW t \in Trove, resolving' = NoLonger(t)
    PROVE  KeepsResolving({t})
<1>1. /\ DOMAIN resolving' = DOMAIN resolving \ {t}
      /\ \A u \in DOMAIN resolving' : resolving'[u] = resolving[u]
      /\ resolving' = [u \in DOMAIN resolving' |-> resolving'[u]]
  BY DEF NoLonger
<1>2. DOMAIN resolving \subseteq Trove /\ resolving \in [DOMAIN resolving -> SUBSET Trove]
  BY DEF DepInv, Types, TypeOK
<1>3. resolving' \in [DOMAIN resolving' -> SUBSET Trove]
  BY <1>1, <1>2
<1> QED BY <1>1, <1>2, <1>3 DEF KeepsResolving, DepInv, Types, Resolving

LEMMA ResolvingPlain ==
    ASSUME DepInv, NEW t \in Trove, Resolving(t)
    PROVE  /\ t \notin Special /\ t \in DOMAIN resolving
           /\ state[t] \notin Made \cup {"duplicate"} /\ MayFail(t)
  BY DEF DepInv, Types, Resolving, Made, MayFail

\* The trove t fails alone, perhaps with new dependencies E to wait for.
LEMMA FailsAlone ==
    ASSUME DepInv, NEW t \in Trove, NEW g \in Graph,
           depGraph.node \subseteq g.node, depGraph.edge \subseteq g.edge,
           \A e \in g.edge : e \in depGraph.edge \/ (e[1] = t /\ e[1] \in g.node /\ e[2] \in g.node),
           fastResolution' => g = depGraph,
           MayFail(t), state[t] # "duplicate",
           Fail({t}, state, g, delayed),
           KeepsResolving({t}), hardDep \subseteq hardDep',
           UNCHANGED <<duplicates, builtBinaries, disallowed>>
    PROVE  Step
<1>1. PICK F, s, d : F = {t} /\ s = state /\ d = delayed
  OBVIOUS
<1>2. Types /\ Fail(F, s, g, d)
  BY <1>1 DEF DepInv
<1>3. F \in SUBSET Trove /\ s \in [Trove -> State] /\ d \in SUBSET delayed
  BY <1>1, <1>2 DEF Types, TypeOK
<1>4. \A u \in F : MayFail(u) /\ state[u] # "duplicate"
  BY <1>1
<1>5. KeepsResolving(F)
  BY <1>1
<1>6. \A e \in g.edge : e \in depGraph.edge \/ (e[1] \in F /\ e[1] \in g.node /\ e[2] \in g.node)
  BY <1>1
<1> QED BY <1>1, <1>2, <1>3, <1>4, <1>5, <1>6, FailSettles

\* The trove t is built or reused, in the state x.
LEMMA BuiltAlone ==
    ASSUME DepInv, NEW t \in Trove, NEW x \in Made \cup {"leftOut"},
           state[t] \notin Made \cup {"duplicate"}, Leaves(t, x),
           Built({t}, [state EXCEPT ![t] = x]), KeepsResolving({t})
    PROVE  Step
<1>1. PICK T0, s : T0 = {t} /\ s = [state EXCEPT ![t] = x]
  OBVIOUS
<1>2. Types /\ Rows /\ Built(T0, s) /\ KeepsResolving(T0) /\ T0 \in SUBSET Trove
  BY <1>1 DEF DepInv
<1>3. s \in [Trove -> State] /\ \A u \in Trove : s[u] = IF u = t THEN x ELSE state[u]
  BY <1>1, <1>2 DEF Types, TypeOK, State, Final
<1>4. \A y \in duplicates : s[y[2]] = "duplicate"
  <2>1. \A y \in duplicates : y[2] \in Trove /\ state[y[2]] = "duplicate"
    BY <1>2 DEF Types, TypeOK, Rows
  <2> QED BY <1>3, <2>1
<1>5. \A u \in T0 : s[u] \in Made \cup {"leftOut"} /\ Leaves(u, s[u])
  BY <1>1, <1>3
<1>6. \A u \in Trove \ T0 : s[u] = state[u]
  BY <1>1, <1>3
<1>7. PICK M, F, g, d : Builds(T0, M, F, s, g, d)
  <2>1. \A u, v \in T0 : u = v
    BY <1>1
  <2>2. \A u, v \in T0 : u # v => Output[u] \cap Output[v] = {}
    BY <2>1
  <2>3. \A u \in T0 : s[u] \in Made \cup {"leftOut"}
    BY <1>5
  <2>4. \A u \in Trove \ T0 : s[u] \in Made => state[u] \in Made
    BY <1>6
  <2> QED BY <1>2, <1>3, <1>4, <2>2, <2>3, <2>4, BuiltSettles
<1>8. PICK T, D, g1 : Settles(T, F, D, s, g1)
  BY <1>2, <1>3, <1>5, <1>6, <1>7, BuildsSettles
<1> QED BY <1>8 DEF Step

LEMMA ResolvedStep ==
    ASSUME DepInv, NEW t \in Trove, Resolved(t)
    PROVE  Step
<1>1. Resolving(t) /\ KeepsResolving({t})
  BY NoLongerKeeps DEF Resolved, Resolving
<1>2. t \notin Special /\ state[t] \notin Made \cup {"duplicate"}
  BY <1>1, ResolvingPlain
<1>3. PICK P \in SUBSET Package : \E W \in NewDeps(t, P), U \in Used(t, P) :
         \/ ResolvedButDelayed(t, P, W)
         \/ ResolvedUnbuilt(t, P, U)
         \/ ResolvedBuildable(t, U)
  BY DEF Resolved
<1>4. ASSUME NEW W, ResolvedButDelayed(t, P, W) PROVE Step
  <2>1. PICK E : E = NewDepLinks(t, P, W)
    OBVIOUS
  <2>2. /\ E \in SUBSET (Trove \X Trove \X Label)
        /\ \A e \in E : /\ e[1] = t /\ e[2] \in Trove \ Special /\ e[2] # t /\ e[3][1] = "dependency"
                        /\ ~Settled(e[2])
    BY <2>1, NewDepLinksOpen
  <2>3. Waits(t, E)
    BY <1>1, <1>4, <2>1, <2>2 DEF ResolvedButDelayed, Waits, tables
  <2> QED BY <2>3 DEF Step
<1>5. ASSUME NEW U, ResolvedUnbuilt(t, P, U) PROVE Step
  <2>1. \/ Built({t}, [state EXCEPT ![t] = "reused"])
        \/ Built({t}, [state EXCEPT ![t] = "leftOut"]) /\ fastResolution' = FALSE
    BY <1>5 DEF ResolvedUnbuilt
  <2>2. CASE Built({t}, [state EXCEPT ![t] = "reused"])
    <3>1. Leaves(t, "reused")
      BY <1>1, <1>2 DEF Leaves
    <3> QED BY <1>1, <1>2, <2>2, <3>1, BuiltAlone DEF Made
  <2>3. CASE Built({t}, [state EXCEPT ![t] = "leftOut"]) /\ fastResolution' = FALSE
    <3>1. Leaves(t, "leftOut")
      BY <1>1, <1>2, <2>3 DEF Leaves
    <3> QED BY <1>1, <1>2, <2>3, <3>1, BuiltAlone
  <2> QED BY <2>1, <2>2, <2>3
<1>6. ASSUME NEW U, ResolvedBuildable(t, U) PROVE Step
  <2>1. Breaks(t)
    BY <1>1, <1>6 DEF ResolvedBuildable, Breaks, InCycle
  <2> QED BY <2>1 DEF Step
<1> QED BY <1>3, <1>4, <1>5, <1>6

LEMMA MissingBuildReqsStep ==
    ASSUME DepInv, NEW t \in Trove, NEW R, MissingBuildReqs(t, R)
    PROVE  Step
<1>1. Resolving(t) /\ KeepsResolving({t}) /\ Types
  BY NoLongerKeeps DEF MissingBuildReqs, Resolving, DepInv
<1>2. state[t] \notin Made \cup {"duplicate"} /\ MayFail(t)
  BY <1>1, ResolvingPlain
<1>3. CASE /\ hardDep \subseteq hardDep'
           /\ state' = [state EXCEPT ![t] = "init"]
           /\ UNCHANGED <<depGraph, buildable, delayed>>
  <2>1. PICK E : E = {}
    OBVIOUS
  <2>2. depGraph' = AddEdges(depGraph, E)
    BY <1>1, <1>3, <2>1, AddNone DEF Types
  <2>3. Waits(t, E)
    BY <1>1, <1>3, <2>1, <2>2 DEF MissingBuildReqs, Waits
  <2> QED BY <2>3 DEF Step
<1>4. CASE Fail({t}, state, depGraph, delayed) /\ UNCHANGED hardDep
  <2>1. PICK g : g = depGraph
    OBVIOUS
  <2>2. g \in Graph /\ Fail({t}, state, g, delayed)
    BY <1>1, <1>4, <2>1 DEF Types
  <2> QED BY <1>1, <1>2, <1>4, <2>1, <2>2, FailsAlone DEF MissingBuildReqs
<1> QED BY <1>3, <1>4 DEF MissingBuildReqs

LEMMA MissingDepStep ==
    ASSUME DepInv, NEW t \in Trove, NEW D \in MissingDeps, MissingDep(t, D)
    PROVE  Step
<1>1. Resolving(t) /\ KeepsResolving({t}) /\ Types
  BY NoLongerKeeps DEF MissingDep, Resolving, DepInv
<1>2. t \notin Special /\ state[t] \notin Made \cup {"duplicate"} /\ MayFail(t)
  BY <1>1, ResolvingPlain
<1>3. D \in SUBSET Package
  BY DepHandlerAssumption
<1>4. PICK P \in SUBSET D :
         LET linked == AddEdges(depGraph, Links(t, DepProviders(t, P), Dependency(D)))
         IN  /\ hardDep' = hardDep \cup {<<t, q>> : q \in DepProviders(t, P)}
             /\ \/ Fail({t}, state, linked, delayed)
                \/ /\ state' = [state EXCEPT ![t] = "init"]
                   /\ depGraph' = linked
                   /\ delayed' = delayed \cup {t}
                   /\ UNCHANGED buildable
  BY DEF MissingDep
<1>5. PICK E, g : E = Links(t, DepProviders(t, P), Dependency(D)) /\ g = AddEdges(depGraph, E)
  OBVIOUS
<1>6. DepProviders(t, P) \subseteq Trove \ Special /\ t \notin DepProviders(t, P)
  BY <1>3, ProvidersBuilt DEF DepProviders
<1>7. Dependency(D) \in Label /\ Dependency(D)[1] = "dependency"
  BY <1>3 DEF Dependency, Label
<1>8. \A e \in E : \E q \in DepProviders(t, P) : e = <<t, q, Dependency(D)>>
  BY <1>5 DEF Links
<1>9. /\ E \in SUBSET (Trove \X Trove \X Label)
      /\ \A e \in E : /\ e[1] = t /\ e[2] \in Trove \ Special /\ e[2] # t /\ e[3][1] = "dependency"
                      /\ <<t, e[2]>> \in hardDep'
  BY <1>4, <1>6, <1>7, <1>8
<1>10. /\ g \in Graph /\ depGraph.node \subseteq g.node /\ g.edge = depGraph.edge \cup E
       /\ \A e \in E : e[1] \in g.node /\ e[2] \in g.node
  <2>1. depGraph \in Graph /\ t \in Trove \ Special
    BY <1>1, <1>2 DEF Types
  <2>2. \A e \in E : e[1] = t /\ e[2] \in Trove \ Special
    BY <1>9
  <2>3. E \in SUBSET (Trove \X Trove \X Label)
    BY <1>9
  <2> QED BY <1>5, <2>1, <2>2, <2>3, Added
<1>11. /\ ~fastResolution' /\ hardDep \subseteq hardDep'
       /\ UNCHANGED <<duplicates, builtBinaries, disallowed>>
  BY <1>4 DEF MissingDep
<1>12. CASE Fail({t}, state, g, delayed)
  BY <1>1, <1>2, <1>9, <1>10, <1>11, <1>12, FailsAlone
<1>13. CASE /\ state' = [state EXCEPT ![t] = "init"] /\ depGraph' = g
            /\ delayed' = delayed \cup {t} /\ UNCHANGED buildable
  <2>1. Waits(t, E)
    BY <1>1, <1>5, <1>9, <1>11, <1>13 DEF Waits
  <2> QED BY <2>1 DEF Step
<1> QED BY <1>4, <1>5, <1>12, <1>13

\* A command that failed, of a trove whose state x says that it was out.
LEMMA CommandFailedStep ==
    ASSUME DepInv, NEW t \in Trove, MayFail(t), state[t] # "duplicate",
           Fail({t}, state, depGraph, delayed), UNCHANGED <<tables, resolving>>
    PROVE  Step
<1>1. PICK g : g = depGraph
  OBVIOUS
<1>2. Types /\ g \in Graph /\ Fail({t}, state, g, delayed)
  BY <1>1 DEF DepInv, Types
<1>3. KeepsResolving({t})
  BY <1>2 DEF KeepsResolving, Types, TypeOK, Resolving
<1> QED BY <1>1, <1>2, <1>3, FailsAlone DEF tables

LEMMA BuildStartedStep ==
    ASSUME DepInv, NEW t \in Trove, BuildStarted(t)
    PROVE  Step
<1>1. Moves(t)
  BY DEF BuildStarted, Moves, tables
<1> QED BY <1>1 DEF Step

LEMMA BuildSucceededStep ==
    ASSUME DepInv, NEW t \in Trove, BuildSucceeded(t)
    PROVE  Step
<1>1. state[t] = "building" /\ Built({t}, [state EXCEPT ![t] = "built"]) /\ UNCHANGED resolving
  BY DEF BuildSucceeded
<1>2. KeepsResolving({t})
  BY <1>1 DEF KeepsResolving, DepInv, Types, TypeOK, Resolving
<1>3. Leaves(t, "built")
  BY <1>1 DEF Leaves
<1> QED BY <1>1, <1>2, <1>3, BuiltAlone DEF Made

LEMMA BuildDuplicateStep ==
    ASSUME DepInv, NEW t \in Trove, BuildDuplicate(t)
    PROVE  Step
<1>0. PICK D0, s, g, d : /\ D0 = {<<t, t, Output[t]>>} /\ s = [state EXCEPT ![t] = "duplicate"]
                         /\ g = depGraph /\ d = delayed
  OBVIOUS
<1>1. /\ Types /\ Rows /\ Duplicated(D0, s, g, d)
      /\ state[t] = "building" /\ t \notin Special
      /\ UNCHANGED <<hardDep, resolving, builtBinaries>>
  BY <1>0 DEF BuildDuplicate, DepInv
<1>2. s \in [Trove -> State] /\ \A u \in Trove : s[u] = IF u = t THEN "duplicate" ELSE state[u]
  BY <1>0, <1>1 DEF Types, TypeOK, State, Final
<1>3. D0 \in SUBSET Row /\ \A x \in D0 : x[2] = t
  BY <1>0, DepHandlerAssumption DEF Row
<1>4. \A x \in duplicates : x \in Row /\ x[2] \in Trove /\ state[x[2]] = "duplicate"
  BY <1>1 DEF Types, TypeOK, Rows, Row
<1>5. PICK T, F : Sorts(D0, T, F, s, g, d)
  <2>1. \A x \in D0 \cup duplicates : s[x[2]] = "duplicate"
    BY <1>2, <1>3, <1>4
  <2>2. \A x, y \in D0 : x[2] = y[2] => x = y
    BY <1>0
  <2>3. \A x \in D0, y \in duplicates : x[2] = y[2] => y \in D0
    BY <1>1, <1>3, <1>4
  <2> QED BY <1>1, <1>2, <1>3, <2>1, <2>2, <2>3, DuplicatedSettles
<1>6. PICK D : D = D0 \cup duplicates
  OBVIOUS
<1>7. TrovesOf(D0) = {t} /\ TrovesOf(D) = {t} \cup TrovesOf(duplicates)
  BY <1>0, <1>6 DEF TrovesOf
<1>8. /\ T \subseteq {t} /\ F \subseteq {t} /\ T \cap F = {}
      /\ Fail(F, s, Delete(g, T), d) /\ RowsFollow(D, T \cup F, s)
      /\ disallowed' = disallowed \cup T \cup BuiltAgain(s)
  BY <1>5, <1>6, <1>7 DEF Sorts
<1>9. \A u \in F : MayFail(u)
  BY <1>1, <1>8 DEF MayFail
<1>10. \A u \in T : Leaves(u, s[u])
  BY <1>1, <1>2, <1>8 DEF Leaves
<1>11. ASSUME NEW u \in Trove \ (T \cup F) PROVE s[u] = state[u] \/ Awaits(u, s[u])
  <2>1. CASE u # t
    BY <1>2, <2>1
  <2>2. CASE u = t
    <3>1. \E x \in D : x[2] = t
      <4>1. PICK x \in D : x = <<t, t, Output[t]>>
        BY <1>0, <1>6
      <4> QED BY <4>1
    <3>2. t \in TrovesOf(duplicates')
      BY <1>8, <2>2, <3>1 DEF RowsFollow
    <3> QED BY <1>1, <1>2, <2>2, <3>2 DEF Awaits
  <2> QED BY <2>1, <2>2
<1>12. RowsKept(D, T \cup F, s)
  <2>1. D \in SUBSET Row /\ duplicates \subseteq D
    BY <1>3, <1>4, <1>6
  <2>2. \A u \in TrovesOf(D) : u \in TrovesOf(duplicates) \/ (state[u] = "building" /\ u \notin Special)
    BY <1>1, <1>7
  <2> QED BY <1>8, <2>1, <2>2 DEF RowsKept
<1>13. KeepsResolving(T \cup F)
  BY <1>1 DEF KeepsResolving, Types, TypeOK, Resolving
<1>14. Makes(s)
  <2>1. \A u \in Trove : s[u] \in Made => state[u] \in Made
    BY <1>2 DEF Made
  <2>2. disallowed \subseteq disallowed' /\ disallowed' \subseteq Trove
    BY <1>1, <1>8 DEF BuiltAgain, Types, TypeOK
  <2> QED BY <1>1, <2>1, <2>2 DEF Makes, Types, TypeOK
<1>15. \E d1 \in SUBSET delayed : Fail(F, s, Delete(g, T), d1)
  <2>1. d \in SUBSET delayed
    BY <1>0
  <2> QED BY <1>8, <2>1
<1>16. /\ g \in Graph /\ depGraph.node \subseteq g.node /\ depGraph.edge \subseteq g.edge
       /\ \A e \in g.edge : e \in depGraph.edge
       /\ T \in SUBSET Trove /\ F \in SUBSET Trove
  BY <1>0, <1>1, <1>8 DEF Types
<1>17. Settles(T, F, D, s, g)
  BY <1>0, <1>1, <1>2, <1>8, <1>9, <1>10, <1>11, <1>12, <1>13, <1>14, <1>15, <1>16 DEF Settles
<1> QED BY <1>17 DEF Step

LEMMA PreparedStep ==
    ASSUME DepInv, NEW t \in Trove, Prepared(t)
    PROVE  Step
<1>0. PICK T, F, D, s, g, d : /\ T = {t} /\ F = {} /\ D = duplicates
                              /\ s = [state EXCEPT ![t] = "prepared"] /\ g = depGraph /\ d = delayed
  OBVIOUS
<1>1. Types /\ Rows /\ t \in PrepOnly /\ state[t] = "waiting" /\ UNCHANGED resolving
  BY DEF Prepared, DepInv
<1>2. s \in [Trove -> State] /\ \A u \in Trove : s[u] = IF u = t THEN "prepared" ELSE state[u]
  BY <1>0, <1>1 DEF Types, TypeOK, State, Final
<1>3. Fail(F, s, Delete(g, T), d) /\ d \in SUBSET delayed
  <2>1. Dragged(Delete(g, T), F) = {}
    BY <1>0, NothingDragged
  <2>2. g \in Graph
    BY <1>0, <1>1 DEF Types
  <2>3. Delete(g, T) \in Graph
    BY <2>2, Deleted
  <2>4. Delete(Delete(g, T), {}) = Delete(g, T)
    BY <2>3, DeleteNone
  <2>5. StateAfter(s, Delete(g, T), F) = s
    BY <1>0, <1>2, <2>1 DEF StateAfter
  <2>6. state' = s /\ depGraph' = Delete(g, T) /\ UNCHANGED <<buildable, delayed>>
    BY <1>0 DEF Prepared
  <2> QED BY <1>0, <2>1, <2>4, <2>5, <2>6 DEF Fail
<1>4. \A x \in D : x \in Row /\ x[2] \in Trove /\ state[x[2]] = "duplicate" /\ x[2] # t
  BY <1>0, <1>1 DEF Types, TypeOK, Rows, Row
<1>5. RowsKept(D, T \cup F, s)
  <2>1. \A x \in D : x[2] \notin T \cup F /\ x[2] \in TrovesOf(D) /\ s[x[2]] = "duplicate"
    BY <1>0, <1>2, <1>4 DEF TrovesOf
  <2>2. UNCHANGED duplicates
    BY DEF Prepared
  <2>3. RowsFollow(D, T \cup F, s)
    BY <1>0, <1>1, <1>4, <2>1, <2>2 DEF RowsFollow, Rows
  <2> QED BY <1>0, <1>4, <2>3 DEF RowsKept
<1>6. Leaves(t, s[t])
  BY <1>1, <1>2 DEF Leaves
<1>7. KeepsResolving(T \cup F)
  BY <1>1 DEF KeepsResolving, Types, TypeOK, Resolving
<1>8. Makes(s)
  <2>1. \A u \in Trove : s[u] \in Made => state[u] \in Made
    BY <1>2 DEF Made
  <2> QED BY <1>1, <2>1 DEF Makes, Types, TypeOK, Prepared
<1>9. \A h \in hardDep : h[1] \in T \/ h[2] \in T \/ h \in hardDep'
  BY <1>0 DEF Prepared
<1>10. g \in Graph
  BY <1>0, <1>1 DEF Types
<1>11. Settles(T, F, D, s, g)
  BY <1>0, <1>2, <1>3, <1>5, <1>6, <1>7, <1>8, <1>9, <1>10 DEF Settles
<1> QED BY <1>11 DEF Step

LEMMA AnswerStep ==
    ASSUME DepInv, NEW t \in Trove, Answer(t)
    PROVE  Step
<1>1. CASE ResolveFailed(t)
  <2>1. Resolving(t) /\ Fail({t}, state, depGraph, delayed) /\ UNCHANGED <<tables, resolving>>
    BY <1>1 DEF ResolveFailed, Resolving
  <2> QED BY <2>1, ResolvingPlain, CommandFailedStep
<1>2. CASE BuildFailed(t)
  <2>1. /\ \/ state[t] \in {"waiting", "building"}
           \/ t \in Special /\ state[t] = "init"
        /\ Fail({t}, state, depGraph, delayed) /\ UNCHANGED <<tables, resolving>>
    BY <1>2 DEF BuildFailed
  <2> QED BY <2>1, CommandFailedStep DEF MayFail
<1>3. CASE UnpackingRaises(t)
  BY <1>3 DEF UnpackingRaises, Step, Rests, tables
<1> QED
  BY <1>1, <1>2, <1>3, ResolvedStep, MissingBuildReqsStep, MissingDepStep, BuildStartedStep,
     BuildSucceededStep, BuildDuplicateStep, PreparedStep DEF Answer, AnswerHandled

LEMMA NextStep == ASSUME DepInv, Next PROVE Step
  BY TurnStep, AnswerStep DEF Next

\* What no kind of step says: of the other variables.
Others ==
    /\ job' = job
    /\ fastResolution' \in {fastResolution, FALSE}
    /\ inactiveSpecial' \subseteq Special
    /\ {hadEvent', crashed'} \subseteq BOOLEAN
    /\ hardDep' \subseteq Trove \X Trove
    /\ cycleChecked' \subseteq Trove \ Special

Narrows == hardDep' \subseteq hardDep /\ cycleChecked' \subseteq cycleChecked

LEMMA ReuseNarrows == ASSUME NEW R, NEW s, Reuse(R, s) PROVE Narrows
<1>1. CASE R = {}
  BY <1>1 DEF Reuse, Narrows, tables
<1>2. CASE R # {}
  BY <1>2 DEF Reuse, Built, Narrows
<1> QED BY <1>1, <1>2

LEMMA ResolveIfReadyNarrows ==
    ASSUME ResolveIfReady PROVE Narrows /\ fastResolution' \in {fastResolution, FALSE}
<1>1. CASE UNCHANGED tables
  BY <1>1 DEF ResolveIfReady, Narrows, tables
<1>2. ASSUME NEW C, NEW t, ResolveFast(t, C) PROVE Narrows
  <2>1. CASE UNCHANGED tables
    BY <2>1 DEF Narrows, tables
  <2>2. CASE ~UNCHANGED tables
    BY <1>2, <2>2, ReuseNarrows DEF ResolveFast, StartResolve
  <2> QED BY <2>1, <2>2
<1>3. ASSUME ResolveNext PROVE Narrows
  <2>1. CASE UNCHANGED tables
    BY <2>1 DEF Narrows, tables
  <2>2. CASE ~UNCHANGED tables
    BY <1>3, <2>2, ReuseNarrows DEF ResolveNext, StartResolve
  <2> QED BY <2>1, <2>2
<1> QED BY <1>1, <1>2, <1>3 DEF ResolveIfReady

\* The books of hard dependencies and of trials.
Widens ==
    /\ hardDep' \subseteq Trove \X Trove /\ cycleChecked' \subseteq Trove \ Special
    /\ fastResolution' \in {fastResolution, FALSE} /\ inactiveSpecial' \subseteq Special
    /\ hadEvent' \in BOOLEAN

LEMMA NarrowsWidens ==
    ASSUME DepInv, Narrows, fastResolution' \in {fastResolution, FALSE},
           inactiveSpecial' \subseteq inactiveSpecial, hadEvent' \in BOOLEAN
    PROVE  Widens
  BY DEF DepInv, Types, TypeOK, Narrows, Widens

LEMMA TurnWidens ==
    ASSUME DepInv, Turn
    PROVE  Widens
<1>0. hadEvent \in BOOLEAN
  BY DEF DepInv, Types, TypeOK
<1>1. CASE TurnAfterEvent
  BY <1>1, ResolveIfReadyNarrows, NarrowsWidens DEF TurnAfterEvent
<1>2. ASSUME NEW t \in Trove, TurnBuild(t) \/ TurnSpecial(t) PROVE Widens
  <2>1. /\ UNCHANGED <<hardDep, cycleChecked, fastResolution, hadEvent>>
        /\ inactiveSpecial' \subseteq inactiveSpecial
    BY <1>2 DEF TurnBuild, TurnSpecial, tables
  <2> QED BY <1>0, <2>1, NarrowsWidens DEF Narrows
<1>3. CASE TurnResolve
  BY <1>0, <1>3, ResolveIfReadyNarrows, NarrowsWidens DEF TurnResolve
<1> QED BY <1>1, <1>2, <1>3 DEF Turn

LEMMA AnswerWidens ==
    ASSUME DepInv, NEW t \in Trove, AnswerHandled(t)
    PROVE  Widens
<1>0. /\ hadEvent \in BOOLEAN /\ hardDep \subseteq Trove \X Trove
      /\ cycleChecked \subseteq Trove \ Special /\ inactiveSpecial \subseteq Special
  BY DEF DepInv, Types, TypeOK
<1>1. Resolving(t) => CheckedAfter(t) \subseteq Trove \ Special
  BY <1>0, ResolvingPlain DEF CheckedAfter
<1>2. CASE Resolved(t)
  <2>1. hadEvent' = TRUE /\ UNCHANGED inactiveSpecial
    BY <1>2 DEF Resolved
  <2>2. PICK P, W, U : \/ ResolvedButDelayed(t, P, W)
                       \/ ResolvedUnbuilt(t, P, U)
                       \/ ResolvedBuildable(t, U)
    BY <1>2 DEF Resolved
  <2>3. Narrows /\ fastResolution' \in {fastResolution, FALSE}
    <3>1. CASE ResolvedButDelayed(t, P, W)
      BY <3>1 DEF ResolvedButDelayed, Narrows, tables
    <3>2. CASE ResolvedUnbuilt(t, P, U)
      <4>1. hardDep' \subseteq hardDep
        BY <3>2 DEF ResolvedUnbuilt, Built
      <4>2. cycleChecked' \subseteq cycleChecked /\ fastResolution' \in {fastResolution, FALSE}
        BY <3>2 DEF ResolvedUnbuilt
      <4> QED BY <4>1, <4>2 DEF Narrows
    <3>3. CASE ResolvedBuildable(t, U)
      BY <3>3 DEF ResolvedBuildable, Narrows
    <3> QED BY <2>2, <3>1, <3>2, <3>3
  <2> QED BY <2>1, <2>3, NarrowsWidens
<1>3. ASSUME NEW R, MissingBuildReqs(t, R) PROVE Widens
  <2>1. Resolving(t)
    BY <1>3 DEF MissingBuildReqs, Resolving
  <2>2. hardDep' \subseteq Trove \X Trove
    <3> DEFINE E == {f \in depGraph.edge : f[1] = t /\ \E p \in R : f[3] = Requirement(p)}
    <3>1. \A e \in E : e[2] \in Trove
      BY GraphKept DEF DepInv
    <3>2. hardDep' = hardDep \/ hardDep' = hardDep \cup {<<t, e[2]>> : e \in E}
      BY <1>3 DEF MissingBuildReqs
    <3> QED BY <1>0, <3>1, <3>2
  <2> QED BY <1>0, <1>1, <1>3, <2>1, <2>2 DEF MissingBuildReqs, Widens
<1>4. ASSUME NEW D \in MissingDeps, MissingDep(t, D) PROVE Widens
  <2>1. Resolving(t) /\ D \in SUBSET Package
    BY <1>4, DepHandlerAssumption DEF MissingDep, Resolving
  <2>2. PICK P \in SUBSET D : /\ hardDep' = hardDep \cup {<<t, q>> : q \in DepProviders(t, P)}
                              /\ cycleChecked' \subseteq CheckedAfter(t)
    BY <1>4 DEF MissingDep
  <2>3. DepProviders(t, P) \subseteq Trove
    BY <2>1, ProvidersBuilt DEF DepProviders
  <2>4. hardDep' \subseteq Trove \X Trove
    BY <1>0, <2>2, <2>3
  <2>5. UNCHANGED inactiveSpecial /\ hadEvent' = TRUE /\ fastResolution' = FALSE
    BY <1>4 DEF MissingDep
  <2> QED BY <1>0, <1>1, <2>1, <2>2, <2>4, <2>5 DEF Widens
<1>5. CASE ResolveFailed(t)
  BY <1>0, <1>5, NarrowsWidens DEF ResolveFailed, Narrows, tables
<1>6. CASE BuildStarted(t)
  BY <1>0, <1>6, NarrowsWidens DEF BuildStarted, Narrows, tables
<1>7. CASE BuildSucceeded(t)
  BY <1>0, <1>7, NarrowsWidens DEF BuildSucceeded, Built, Narrows
<1>8. CASE BuildDuplicate(t)
  BY <1>0, <1>8, NarrowsWidens DEF BuildDuplicate, Narrows
<1>9. CASE Prepared(t)
  BY <1>0, <1>9, NarrowsWidens DEF Prepared, Narrows
<1>10. CASE BuildFailed(t)
  BY <1>0, <1>10, NarrowsWidens DEF BuildFailed, Narrows, tables
<1> QED BY <1>2, <1>3, <1>4, <1>5, <1>6, <1>7, <1>8, <1>9, <1>10 DEF AnswerHandled

LEMMA OthersStep ==
    ASSUME DepInv, Next
    PROVE  Others
<1>0. crashed \in BOOLEAN /\ IsJob(job) /\ Types
  BY DepHandlerAssumption DEF DepInv, Types, TypeOK
<1>1. CASE Turn
  BY <1>0, <1>1, TurnWidens DEF Turn, Widens, Others
<1>2. ASSUME NEW t \in Trove, Answer(t), AnswerHandled(t), UNCHANGED crashed PROVE Others
  BY <1>0, <1>2, AnswerWidens DEF Answer, Widens, Others
<1>3. ASSUME NEW t \in Trove, Answer(t), UnpackingRaises(t) PROVE Others
  BY <1>0, <1>3 DEF Answer, UnpackingRaises, Others, Types, TypeOK, tables
<1> QED BY <1>1, <1>2, <1>3 DEF Next, Answer

-----------------------------------------------------------------------------
(* What a step in which troves settle does to each trove.                  *)

\* The troves T leave, and X are the troves F that fail with those they drag along.
Effect(T, F, X, D, g) ==
    /\ T \in SUBSET Trove /\ X \in SUBSET Trove /\ F \subseteq X /\ T \cap X = {}
    /\ state' \in [Trove -> State]
    /\ \A t \in F : state'[t] = "failed" /\ MayFail(t)
    /\ \A t \in X \ F : /\ state'[t] = "unbuildable" /\ state[t] \in Unresolved
                        /\ t \in depGraph.node
    /\ \A t \in T : Leaves(t, state'[t])
    /\ \A t \in Trove \ (T \cup X) :
          state'[t] = state[t] \/ Starts(t, state'[t], T \cup X) \/ Awaits(t, state'[t])
    /\ depGraph' \in Graph /\ depGraph'.node = g.node \ (T \cup X)
    /\ \A e \in depGraph'.edge : e \in depGraph.edge
    /\ \A e \in depGraph.edge : e[1] \in T \cup X \/ e[2] \in T \cup X \/ e \in depGraph'.edge
    /\ \A e \in depGraph'.edge : e[1] \notin T \cup X /\ e[2] \notin T \cup X
    /\ depGraph.node \subseteq g.node
    /\ FailureClosed(Delete(g, T), X)
    /\ \A e \in depGraph.edge : e[1] \in T \/ e[2] \in T \/ e \in Delete(g, T).edge
    /\ \A e \in Delete(g, T).edge : e \in depGraph.edge \/ e[1] \in F
    /\ fastResolution' => g = depGraph
    /\ buildable' = buildable \ X
    /\ delayed' \subseteq delayed \ F
    /\ RowsKept(D, T \cup X, state')
    /\ KeepsResolving(T \cup F)
    /\ \A t \in Trove \ (T \cup X) : Resolving(t) => resolving[t] \cap (T \cup X) = {}
    /\ \A h \in hardDep : h[1] \in T \/ h[2] \in T \/ h \in hardDep'
    /\ Makes(state')

\* A set that nothing leaves and of which nobody settles is not dragged along.
LEMMA Untouched ==
    ASSUME DepInv, NEW T, NEW F, NEW D, NEW s, NEW g, Settles(T, F, D, s, g),
           NEW C, Closed(depGraph, C), C \cap (T \cup F) = {}
    PROVE  C \cap Dragged(Delete(g, T), F) = {}
<1>1. /\ g \in Graph /\ T \in SUBSET Trove /\ F \in SUBSET Trove
      /\ \A e \in g.edge : e \in depGraph.edge \/ (e[1] \in F /\ e[1] \in g.node /\ e[2] \in g.node)
      /\ depGraph.node \subseteq g.node
  BY DEF Settles
<1>2. \A e \in Delete(g, T).edge : e \in g.edge /\ e[1] \notin T /\ e[2] \notin T
  BY <1>1, Deleted
<1>3. \A e \in Delete(g, T).edge : e[1] \in Delete(g, T).node
  BY <1>1, <1>2, Deleted, GraphKept DEF DepInv
<1>4. Closed(Delete(g, T), C)
  BY <1>1, <1>2 DEF Closed
<1>5. C \cap F = {}
  OBVIOUS
<1> QED BY <1>3, <1>4, <1>5, DraggedAvoids

\* The cycle of a trove under resolution is such a set.
LEMMA CycleUntouched ==
    ASSUME DepInv, NEW T, NEW F, NEW D, NEW s, NEW g, Settles(T, F, D, s, g),
           NEW v \in Trove \ (T \cup F), Resolving(v)
    PROVE  /\ resolving[v] \cap (T \cup F) = {}
           /\ v \notin Dragged(Delete(g, T), F)
           /\ resolving[v] \cap Dragged(Delete(g, T), F) = {}
<1>1. CycleKept(v)
  BY DEF DepInv, Cycles, Resolving
<1>2. resolving[v] \cap (T \cup F) = {}
  <2> SUFFICES ASSUME NEW t \in resolving[v], t \in T \cup F PROVE FALSE
    OBVIOUS
  <2>1. state[t] \in Unresolved /\ t \in depGraph.node
    BY <1>1 DEF CycleKept
  <2>2. t \in Trove \ Special
    BY <2>1, GraphKept DEF DepInv
  <2>3. t \notin TrovesOf(duplicates)
    BY <2>1 DEF DepInv, Rows, TrovesOf, Unresolved
  <2>4. CASE t \in F
    <3>1. MayFail(t)
      BY <2>4 DEF Settles
    <3> QED BY <2>1, <2>2, <2>3, <3>1 DEF MayFail, Unresolved
  <2>5. CASE t \in T
    <3>1. Leaves(t, s[t])
      BY <2>5 DEF Settles
    <3>2. PICK C : Candidate(t, C)
      BY <2>1, <2>3, <3>1 DEF Leaves, Unresolved, Resolving
    <3>3. C \cap resolving[v] = {}
      BY <3>2, CandidateApart
    <3> QED BY <3>2, <3>3 DEF Candidate
  <2> QED BY <2>4, <2>5
<1>3. CASE resolving[v] # {}
  <2>1. v \in resolving[v] /\ Closed(depGraph, resolving[v])
    BY <1>1, <1>3 DEF CycleKept
  <2>2. resolving[v] \cap Dragged(Delete(g, T), F) = {}
    BY <1>2, <2>1, Untouched
  <2> QED BY <1>2, <2>1, <2>2
<1>4. CASE resolving[v] = {}
  <2>1. PICK C : C = {v}
    OBVIOUS
  <2>2. Closed(depGraph, C)
    BY <1>1, <1>4, <2>1 DEF CycleKept, Closed
  <2>3. C \cap (T \cup F) = {}
    BY <2>1
  <2>4. C \cap Dragged(Delete(g, T), F) = {}
    BY <2>2, <2>3, Untouched
  <2> QED BY <1>4, <2>1, <2>4
<1> QED BY <1>3, <1>4

\* Only troves that nobody has sent off are dragged along.
LEMMA DraggedUnresolved ==
    ASSUME DepInv, NEW T, NEW F, NEW D, NEW s, NEW g, Settles(T, F, D, s, g),
           NEW u \in Dragged(Delete(g, T), F), u \notin F
    PROVE  u \in depGraph.node /\ u \notin T /\ state[u] \in Unresolved /\ s[u] = state[u]
<1>1. /\ g \in Graph /\ T \in SUBSET Trove /\ F \in SUBSET Trove
      /\ \A e \in g.edge : e \in depGraph.edge \/ (e[1] \in F /\ e[1] \in g.node /\ e[2] \in g.node)
      /\ depGraph.node \subseteq g.node
      /\ \A t \in Trove \ (T \cup F) : s[t] = state[t] \/ Starts(t, s[t], T \cup F) \/ Awaits(t, s[t])
  BY DEF Settles
<1>2. \A e \in Delete(g, T).edge : e \in g.edge /\ e[1] \notin T /\ e[2] \notin T
  BY <1>1, Deleted
<1>3. \A e \in Delete(g, T).edge : e[1] \in Delete(g, T).node
  BY <1>1, <1>2, Deleted, GraphKept DEF DepInv
<1>4. PICK e \in Delete(g, T).edge : e[1] = u
  BY <1>3, DraggedByAnEdge
<1>5. e \in depGraph.edge /\ u \notin T
  BY <1>1, <1>2, <1>4
<1>6. u \in depGraph.node /\ u \in Trove /\ Live(u)
  BY <1>4, <1>5, GraphKept DEF DepInv, Edges
<1>7. state[u] \in Unresolved
  <2>1. ~Resolving(u)
    BY <1>5, <1>6, CycleUntouched
  <2> QED BY <1>6, <2>1 DEF Live, Resolving
<1>8. ~Awaits(u, s[u])
  BY <1>7 DEF Awaits, Unresolved
<1>9. ~Starts(u, s[u], T \cup F)
  <2> SUFFICES ASSUME NEW C, Candidate(u, C), C \cap (T \cup F) = {} PROVE FALSE
    BY DEF Starts
  <2>1. Closed(depGraph, C) /\ u \in C
    BY CandidateCycle DEF Candidate
  <2> QED BY <2>1, Untouched
<1> QED BY <1>1, <1>5, <1>6, <1>7, <1>8, <1>9

LEMMA StartsUntouched ==
    ASSUME DepInv, NEW T, NEW F, NEW D, NEW s, NEW g, Settles(T, F, D, s, g),
           NEW t, NEW x, Starts(t, x, T \cup F)
    PROVE  Starts(t, x, T \cup Dragged(Delete(g, T), F))
<1>1. PICK C : /\ Candidate(t, C) /\ C \cap (T \cup F) = {}
               /\ resolving'[t] = IF C = {t} THEN {} ELSE C
  BY DEF Starts
<1>2. Closed(depGraph, C)
  BY <1>1, CandidateCycle
<1>3. C \cap Dragged(Delete(g, T), F) = {}
  BY <1>1, <1>2, Untouched
<1>4. C \cap (T \cup Dragged(Delete(g, T), F)) = {}
  BY <1>1, <1>3
<1> QED BY <1>1, <1>4 DEF Starts

LEMMA SettlesEffect ==
    ASSUME DepInv, NEW T, NEW F, NEW D, NEW s, NEW g, Settles(T, F, D, s, g)
    PROVE  \E X : Effect(T, F, X, D, g)
<1>1. PICK X : X = Dragged(Delete(g, T), F)
  OBVIOUS
<1>2. /\ g \in Graph /\ T \in SUBSET Trove /\ F \in SUBSET Trove /\ T \cap F = {}
      /\ s \in [Trove -> State]
      /\ \A e \in g.edge : e \in depGraph.edge \/ (e[1] \in F /\ e[1] \in g.node /\ e[2] \in g.node)
      /\ depGraph.node \subseteq g.node /\ depGraph.edge \subseteq g.edge
  BY DEF Settles
<1>3. PICK d \in SUBSET delayed : Fail(F, s, Delete(g, T), d)
  BY DEF Settles
<1>4. PICK h : h = Delete(g, T)
  OBVIOUS
<1>5. /\ h \in Graph /\ h.node = g.node \ T
      /\ \A e : e \in h.edge <=> e \in g.edge /\ e[1] \notin T /\ e[2] \notin T
      /\ Delete(h, X) \in Graph /\ Delete(h, X).node = h.node \ X
      /\ \A e : e \in Delete(h, X).edge <=> e \in h.edge /\ e[1] \notin X /\ e[2] \notin X
  BY <1>2, <1>4, Deleted
<1>6. /\ state' = StateAfter(s, h, F) /\ depGraph' = Delete(h, X)
      /\ buildable' = buildable \ X /\ delayed' = d \ F
  BY <1>1, <1>3, <1>4 DEF Fail
<1>7. \A u \in X \ F : u \in depGraph.node /\ u \notin T /\ state[u] \in Unresolved /\ s[u] = state[u]
  BY <1>1, DraggedUnresolved
<1>8. F \subseteq X /\ X = Dragged(h, F)
  BY <1>1, <1>4, DraggedWithin
<1>9. X \in SUBSET Trove /\ T \cap X = {}
  BY <1>2, <1>7, GraphKept DEF DepInv
<1>10. \A t \in Trove : state'[t] = IF t \in F THEN "failed" ELSE IF t \in X THEN "unbuildable" ELSE s[t]
  BY <1>6, <1>8 DEF StateAfter
<1>11. state' \in [Trove -> State]
  <2>1. \A t \in Trove : state'[t] \in State
    BY <1>2, <1>10 DEF State, Final, Failure
  <2>2. state' = [t \in Trove |-> state'[t]]
    BY <1>6 DEF StateAfter
  <2> QED BY <2>1, <2>2
<1>12. \A t \in F : state'[t] = "failed" /\ MayFail(t)
  BY <1>2, <1>10 DEF Settles
<1>13. \A t \in X \ F : state'[t] = "unbuildable"
  BY <1>9, <1>10
<1>14. \A t \in Trove \ X : state'[t] = s[t]
  BY <1>8, <1>10
<1>15. \A t \in T : Leaves(t, state'[t])
  BY <1>2, <1>9, <1>14 DEF Settles
<1>16. ASSUME NEW t \in Trove \ (T \cup X)
       PROVE  state'[t] = state[t] \/ Starts(t, state'[t], T \cup X) \/ Awaits(t, state'[t])
  <2>1. s[t] = state[t] \/ Starts(t, s[t], T \cup F) \/ Awaits(t, s[t])
    BY <1>8 DEF Settles
  <2>2. state'[t] = s[t]
    BY <1>14
  <2>3. Starts(t, s[t], T \cup F) => Starts(t, s[t], T \cup X)
    BY <1>1, StartsUntouched
  <2> QED BY <2>1, <2>2, <2>3
<1>17. /\ depGraph' \in Graph /\ depGraph'.node = g.node \ (T \cup X)
       /\ \A e \in depGraph'.edge : e \in depGraph.edge
       /\ \A e \in depGraph.edge : e[1] \in T \cup X \/ e[2] \in T \cup X \/ e \in depGraph'.edge
       /\ \A e \in depGraph'.edge : e[1] \notin T \cup X /\ e[2] \notin T \cup X
       /\ depGraph.node \subseteq g.node
       /\ \A e \in depGraph.edge : e[1] \in T \/ e[2] \in T \/ e \in h.edge
       /\ \A e \in h.edge : e \in depGraph.edge \/ e[1] \in F
  BY <1>2, <1>5, <1>6, <1>8
<1>18. FailureClosed(h, X)
  <2>1. \A e \in h.edge : e[1] \in h.node
    BY <1>2, <1>5, GraphKept DEF DepInv
  <2> QED BY <1>8, <2>1, DraggedClosed
<1>19. delayed' \subseteq delayed \ F
  BY <1>6
<1>20. RowsKept(D, T \cup X, state')
  <2>1. RowsKept(D, T \cup F, s)
    BY DEF Settles
  <2>2. \A x \in duplicates' : x[2] \in Trove
    BY <2>1 DEF RowsKept, RowsFollow, Row
  <2>3. \A u \in X \ F : s[u] # "duplicate"
    BY <1>7 DEF Unresolved
  <2>4. \A x \in duplicates' : x[2] \notin T \cup X /\ s[x[2]] = "duplicate"
    BY <2>1, <2>3 DEF RowsKept, RowsFollow
  <2>5. \A x \in duplicates' : state'[x[2]] = "duplicate"
    BY <1>14, <2>2, <2>4
  <2>6. RowsFollow(D, T \cup X, state')
    BY <1>8, <2>1, <2>4, <2>5 DEF RowsKept, RowsFollow
  <2> QED BY <2>1, <2>6 DEF RowsKept
<1>21. Makes(state')
  <2>1. \A t \in Trove : state'[t] \in Made => s[t] \in Made
    BY <1>10 DEF Made
  <2>2. Makes(s)
    BY DEF Settles
  <2> QED BY <2>1, <2>2 DEF Makes
<1>22. /\ fastResolution' => g = depGraph
       /\ KeepsResolving(T \cup F)
       /\ \A x \in hardDep : x[1] \in T \/ x[2] \in T \/ x \in hardDep'
  BY DEF Settles
<1>23. \A t \in Trove \ (T \cup X) : Resolving(t) => resolving[t] \cap (T \cup X) = {}
  BY <1>1, <1>8, CycleUntouched
<1>24. Effect(T, F, X, D, g)
  BY <1>2, <1>4, <1>6, <1>7, <1>8, <1>9, <1>11, <1>12, <1>13, <1>15, <1>16, <1>17, <1>18, <1>19,
     <1>20, <1>21, <1>22, <1>23 DEF Effect
<1> QED BY <1>24

\* Where a trove can go that settles, or that does not.
LEMMA LeavesFrom ==
    ASSUME DepInv, NEW t \in Trove, NEW x, Leaves(t, x)
    PROVE  /\ x \in Final \ Failure
           /\ state[t] \in Unresolved \cup {"resolving", "waiting", "building", "duplicate"}
           /\ t \notin delayed
           /\ t \in Special => state[t] = "building" /\ x = "built"
<1>1. /\ \A u \in delayed : state[u] \in {"init"} \cup Failure
      /\ \A u \in Special : state[u] \in {"init", "building", "built", "failed"}
      /\ PrepOnly \cap Special = {}
  BY DepHandlerAssumption DEF DepInv, Types
<1>2. t \in TrovesOf(duplicates) => state[t] = "duplicate"
  BY DEF DepInv, Rows, TrovesOf
<1>3. ASSUME NEW C, Candidate(t, C)
      PROVE  t \notin Special /\ state[t] \in Unresolved /\ t \notin delayed
  BY <1>3, CandidateCycle DEF Candidate
<1> QED BY <1>1, <1>2, <1>3 DEF Leaves, Resolving, Unresolved, Failure, Final, Made

LEMMA StartsFrom ==
    ASSUME DepInv, NEW t \in Trove, NEW x, NEW S, Starts(t, x, S)
    PROVE  /\ x = "resolving" /\ state[t] \in Unresolved /\ t \notin Special /\ t \in depGraph.node
           /\ t \notin delayed /\ t \in DOMAIN resolving'
  BY CandidateCycle DEF Starts, Candidate

LEMMA FailsFrom ==
    ASSUME DepInv, NEW t \in Trove, MayFail(t)
    PROVE  state[t] \in {"init", "resolving", "waiting", "building", "duplicate"} \cup Failure
  BY DEF MayFail, DepInv, Types, Rows, TrovesOf

\* Whoever settles is settled, and the others stay as settled as they were.
LEMMA EffectSettled ==
    ASSUME DepInv, NEW T, NEW F, NEW X, NEW D, NEW g, Effect(T, F, X, D, g), NEW t \in Trove
    PROVE  /\ t \in T \cup X => Settled(t)'
           /\ t \notin T \cup X => (Settled(t)' <=> Settled(t))
<1>1. /\ \A d \in duplicates' : d[2] \notin T \cup X /\ d[2] \in TrovesOf(D)
      /\ \A d \in D : d[2] \in T \cup X \/ d[2] \in TrovesOf(duplicates')
      /\ duplicates \subseteq D
      /\ \A u \in TrovesOf(D) : u \in TrovesOf(duplicates) \/ (state[u] = "building" /\ u \notin Special)
  BY DEF Effect, RowsKept, RowsFollow
<1>2. CASE t \in T \cup X
  <2>1. state'[t] \in Final
    BY <1>2, LeavesFrom DEF Effect, Final, Failure
  <2>2. \A d \in duplicates' : d[2] # t
    BY <1>1, <1>2
  <2> QED BY <1>2, <2>1, <2>2 DEF Settled, Finished
<1>3. CASE t \notin T \cup X
  <2>1. state'[t] = state[t] \/ Starts(t, state'[t], T \cup X) \/ Awaits(t, state'[t])
    BY <1>3 DEF Effect
  <2>2. CASE state'[t] = state[t]
    <3>1. Finished(t)' <=> Finished(t)
      BY <2>2 DEF Finished
    <3>2. ASSUME Finished(t), NEW d \in duplicates, d[2] = t PROVE \E e \in duplicates' : e[2] = t
      BY <1>1, <1>3, <3>2 DEF TrovesOf
    <3>3. ASSUME Finished(t), NEW d \in duplicates', d[2] = t PROVE \E e \in duplicates : e[2] = t
      BY <1>1, <3>3 DEF TrovesOf, Finished, Final, Failure, Made
    <3> QED BY <1>3, <3>1, <3>2, <3>3 DEF Settled
  <2>3. CASE Starts(t, state'[t], T \cup X)
    BY <1>3, <2>3, StartsFrom DEF Settled, Finished, Final, Failure, Made, Unresolved
  <2>4. CASE Awaits(t, state'[t])
    BY <1>3, <2>4 DEF Awaits, Settled, Finished, Final, Failure, Made, TrovesOf
  <2> QED BY <2>1, <2>2, <2>3, <2>4
<1> QED BY <1>2, <1>3

\* A trove that has edges of its own afterwards had them before.
LEMMA EffectLive ==
    ASSUME DepInv, NEW T, NEW F, NEW X, NEW D, NEW g, Effect(T, F, X, D, g), NEW t \in Trove
    PROVE  /\ Live(t)' => Live(t) /\ t \notin T \cup X
           /\ Live(t) /\ t \notin T \cup X => Live(t)'
           /\ state'[t] \in Failure <=> state[t] \in Failure \/ t \in X
           /\ state'[t] \in Unresolved => state[t] = state'[t]
<1>1. CASE t \in T
  BY <1>1, LeavesFrom DEF Effect, Live, Final, Failure, Unresolved, Made
<1>2. CASE t \in X
  BY <1>2 DEF Effect, Live, Failure, Unresolved
<1>3. CASE t \notin T \cup X
  <2>1. state'[t] = state[t] \/ Starts(t, state'[t], T \cup X) \/ Awaits(t, state'[t])
    BY <1>3 DEF Effect
  <2>2. CASE state'[t] = state[t]
    BY <1>3, <2>2 DEF Live
  <2>3. CASE Starts(t, state'[t], T \cup X)
    BY <1>3, <2>3, StartsFrom DEF Live, Failure, Unresolved
  <2>4. CASE Awaits(t, state'[t])
    BY <1>3, <2>4 DEF Live, Awaits, Failure, Unresolved
  <2> QED BY <2>1, <2>2, <2>3, <2>4
<1> QED BY <1>1, <1>2, <1>3

-----------------------------------------------------------------------------
(* Such a step preserves the invariant.                                    *)

LEMMA EffectTypes ==
    ASSUME DepInv, Others, NEW T, NEW F, NEW X, NEW D, NEW g, Effect(T, F, X, D, g)
    PROVE  Types'
<1>0. Types
  BY DEF DepInv
<1>1. TypeOK'
  <2>1. depGraph' \in Graph
    BY DEF Effect
  <2>2. depGraph'.edge \subseteq depGraph'.node \X depGraph'.node \X Label
    <3> SUFFICES ASSUME NEW e \in depGraph'.edge
                 PROVE  e \in depGraph'.node \X depGraph'.node \X Label
      OBVIOUS
    <3>1. e \in depGraph.edge /\ e[1] \notin T \cup X /\ e[2] \notin T \cup X
      BY DEF Effect
    <3>2. e[1] \in depGraph'.node /\ e[2] \in depGraph'.node
      BY <1>0, <3>1, GraphKept DEF Effect
    <3>3. e \in Trove \X Trove \X Label
      BY <2>1 DEF Graph
    <3> QED BY <3>2, <3>3
  <2>3. depGraph'.node \subseteq Trove
    BY <2>1 DEF Graph
  <2>4. buildable' \subseteq Trove /\ delayed' \subseteq Trove \ Special
    BY <1>0 DEF Effect, Types, TypeOK
  <2>5. /\ DOMAIN resolving' \subseteq Trove /\ resolving' \in [DOMAIN resolving' -> SUBSET Trove]
        /\ duplicates' \subseteq Row
        /\ builtBinaries' \subseteq Binary /\ disallowed' \subseteq Trove
        /\ state' \in [Trove -> State]
    BY DEF Effect, KeepsResolving, RowsKept, RowsFollow, Makes
  <2>6. job' \in Jobs
    BY <1>0 DEF Others, Types, TypeOK
  <2>7. {fastResolution', hadEvent', crashed'} \subseteq BOOLEAN
    <3>1. fastResolution \in BOOLEAN
      BY <1>0 DEF Types, TypeOK
    <3> QED BY <3>1 DEF Others
  <2>8. /\ hardDep' \subseteq Trove \X Trove /\ cycleChecked' \subseteq Trove \ Special
        /\ inactiveSpecial' \subseteq Special
    BY DEF Others
  <2> QED BY <2>2, <2>3, <2>4, <2>5, <2>6, <2>7, <2>8 DEF TypeOK, Row
<1>2. ASSUME NEW t \in Trove
      PROVE  /\ t \in Special => state'[t] \in {"init", "building", "built", "failed"}
             /\ t \in buildable' <=> state'[t] = "buildable"
             /\ state'[t] = "resolving" => t \in DOMAIN resolving'
             /\ state'[t] = "prebuilt" => t \in DOMAIN job.old
             /\ t \in delayed' => state'[t] \in {"init"} \cup Failure
  <2>0. /\ t \in buildable <=> state[t] = "buildable"
        /\ t \in delayed => state[t] \in {"init"} \cup Failure
        /\ t \in Special => state[t] \in {"init", "building", "built", "failed"}
        /\ buildable' = buildable \ X /\ delayed' \subseteq delayed \ F
    BY <1>0 DEF Types, Effect
  <2>1. CASE t \in T
    <3>1. /\ state'[t] \in Final \ Failure /\ state[t] # "buildable" /\ t \notin delayed
          /\ t \in Special => state'[t] = "built"
      BY <2>1, LeavesFrom DEF Effect, Unresolved
    <3> QED BY <2>0, <3>1 DEF Final, Failure, Made
  <2>2. CASE t \in F
    <3>1. state'[t] = "failed" /\ t \in X
      BY <2>2 DEF Effect
    <3> QED BY <2>0, <2>2, <3>1 DEF Failure
  <2>3. CASE t \in X \ F
    <3>1. state'[t] = "unbuildable" /\ t \notin Special
      BY <1>0, <2>3, GraphKept DEF Effect
    <3> QED BY <2>0, <2>3, <3>1 DEF Failure
  <2>4. CASE t \notin T \cup X /\ state'[t] = state[t]
    <3>1. Resolving(t) => t \in DOMAIN resolving'
      BY <2>4 DEF Effect, KeepsResolving
    <3> QED BY <1>0, <2>0, <2>4, <3>1 DEF Types, Resolving
  <2>5. CASE Starts(t, state'[t], T \cup X)
    <3>1. /\ state'[t] = "resolving" /\ state[t] \in Unresolved /\ t \notin Special
          /\ t \notin delayed /\ t \in DOMAIN resolving'
      BY <2>5, StartsFrom
    <3> QED BY <2>0, <3>1 DEF Unresolved
  <2>6. CASE Awaits(t, state'[t])
    BY <2>0, <2>6 DEF Awaits, Failure
  <2> QED BY <2>1, <2>2, <2>3, <2>4, <2>5, <2>6 DEF Effect
<1>3. buildable' \subseteq Trove
  BY <1>1 DEF TypeOK
<1>4. buildable' = {t \in Trove : state'[t] = "buildable"}
  BY <1>2, <1>3
<1>5. Special \subseteq Trove /\ delayed' \subseteq Trove /\ job' = job /\ depGraph' \in Graph
  BY <1>1, DepHandlerAssumption DEF Others, Effect, TypeOK
<1> QED BY <1>1, <1>2, <1>4, <1>5 DEF Types

LEMMA EffectInGraph ==
    ASSUME DepInv, NEW T, NEW F, NEW X, NEW D, NEW g, Effect(T, F, X, D, g)
    PROVE  InGraph'
<1> SUFFICES ASSUME NEW t \in Trove \ Special, ~Settled(t)' PROVE t \in depGraph'.node
  BY DEF InGraph
<1>1. t \notin T \cup X /\ ~Settled(t)
  BY EffectSettled
<1> QED BY <1>1 DEF DepInv, InGraph, Effect

LEMMA EffectRows ==
    ASSUME NEW T, NEW F, NEW X, NEW D, NEW g, Effect(T, F, X, D, g)
    PROVE  Rows'
  BY DEF Effect, RowsKept, RowsFollow, Rows

LEMMA EffectFast ==
    ASSUME DepInv, Others, NEW T, NEW F, NEW X, NEW D, NEW g, Effect(T, F, X, D, g)
    PROVE  FastOnly'
<1> SUFFICES ASSUME fastResolution'
             PROVE  /\ delayed' = {}
                    /\ \A t \in Trove \ Special :
                          state'[t] \in Unresolved \cup {"resolving", "reused"} \cup Failure
                    /\ \A t \in depGraph'.node : Live(t)'
  BY DEF FastOnly
<1>1. /\ fastResolution /\ g = depGraph /\ delayed = {}
      /\ \A t \in Trove \ Special : state[t] \in Unresolved \cup {"resolving", "reused"} \cup Failure
      /\ \A t \in depGraph.node : Live(t)
  <2>1. fastResolution
    BY DEF Others
  <2> QED BY <2>1 DEF Effect, DepInv, FastOnly
<1>2. ASSUME NEW t \in Trove \ Special
      PROVE  state'[t] \in Unresolved \cup {"resolving", "reused"} \cup Failure
  <2>1. CASE t \in T
    <3>1. Leaves(t, state'[t])
      BY <2>1 DEF Effect
    <3>2. t \in PrepOnly => state[t] # "waiting"
      BY <1>1 DEF Unresolved, Failure
    <3>3. state[t] # "building" /\ t \notin TrovesOf(duplicates)
      BY <1>1 DEF Unresolved, Failure, DepInv, Rows, TrovesOf
    <3> QED BY <3>1, <3>2, <3>3 DEF Leaves
  <2>2. CASE t \in X
    BY <2>2 DEF Effect, Failure
  <2>3. CASE t \notin T \cup X
    <3>1. state'[t] = state[t] \/ Starts(t, state'[t], T \cup X) \/ Awaits(t, state'[t])
      BY <2>3 DEF Effect
    <3>2. ~Awaits(t, state'[t])
      BY <1>1 DEF Awaits, Unresolved, Failure
    <3> QED BY <1>1, <3>1, <3>2 DEF Starts
  <2> QED BY <2>1, <2>2, <2>3
<1>3. ASSUME NEW t \in depGraph'.node PROVE Live(t)'
  <2>1. t \in depGraph.node /\ t \notin T \cup X
    BY <1>1 DEF Effect
  <2>2. t \in Trove
    BY <2>1, GraphKept DEF DepInv
  <2> QED BY <1>1, <2>1, <2>2, EffectLive
<1>4. delayed' = {}
  BY <1>1 DEF Effect
<1> QED BY <1>2, <1>3, <1>4

LEMMA EffectBinaries ==
    ASSUME DepInv, NEW T, NEW F, NEW X, NEW D, NEW g, Effect(T, F, X, D, g)
    PROVE  Binaries' /\ BuiltOnce'
<1>1. /\ \A t \in Trove \ disallowed : state[t] \in Made => Output[t] \subseteq builtBinaries
      /\ \A t, u \in Trove :
            t # u /\ state[t] \in Made /\ state[u] \in Made /\ Output[t] \cap Output[u] # {}
            => t \in disallowed \/ u \in disallowed
  BY DEF DepInv, Binaries, BuiltOnce
<1>2. /\ builtBinaries \subseteq builtBinaries' /\ disallowed \subseteq disallowed'
      /\ \A t \in Trove : state'[t] \in Made /\ state[t] \notin Made =>
            (Output[t] \cap builtBinaries = {} /\ Output[t] \subseteq builtBinaries') \/ t \in disallowed'
      /\ \A t, u \in Trove :
            /\ t # u
            /\ state'[t] \in Made /\ state[t] \notin Made
            /\ state'[u] \in Made /\ state[u] \notin Made
            => Output[t] \cap Output[u] = {}
  BY DEF Effect, Makes
<1>3. Binaries'
  <2>1. \A t \in Trove \ disallowed' : state'[t] \in Made => Output[t] \subseteq builtBinaries'
    BY <1>1, <1>2
  <2> QED BY <2>1 DEF Binaries
<1>4. ASSUME NEW t \in Trove, NEW u \in Trove, t # u, state'[t] \in Made, state'[u] \in Made,
             Output[t] \cap Output[u] # {}
      PROVE  t \in disallowed' \/ u \in disallowed'
  <2>1. CASE state[t] \in Made /\ state[u] \in Made
    BY <1>1, <1>2, <1>4, <2>1
  <2>2. CASE state[t] \notin Made /\ state[u] \notin Made
    BY <1>2, <1>4, <2>2
  <2>3. CASE state[t] \notin Made /\ state[u] \in Made
    BY <1>1, <1>2, <1>4, <2>3
  <2>4. CASE state[t] \in Made /\ state[u] \notin Made
    BY <1>1, <1>2, <1>4, <2>4
  <2> QED BY <2>1, <2>2, <2>3, <2>4
<1>5. BuiltOnce'
  BY <1>4 DEF BuiltOnce
<1> QED BY <1>3, <1>5

LEMMA EffectEdges ==
    ASSUME DepInv, NEW T, NEW F, NEW X, NEW D, NEW g, Effect(T, F, X, D, g)
    PROVE  Edges' /\ Requirements'
<1>1. ASSUME NEW e \in depGraph'.edge
      PROVE  /\ e \in depGraph.edge /\ e[1] \in Trove /\ e[2] \in Trove
             /\ e[1] \notin T \cup X /\ e[2] \notin T \cup X
  <2>1. e \in depGraph.edge
    BY DEF Effect
  <2> QED BY <2>1, GraphKept DEF Effect, DepInv
<1>2. ASSUME NEW e \in depGraph'.edge
      PROVE  e[1] # e[2] /\ Live(e[1])' /\ (Settled(e[2])' => <<e[1], e[2]>> \in hardDep')
  <2>1. /\ e[1] # e[2] /\ Live(e[1]) /\ (Settled(e[2]) => <<e[1], e[2]>> \in hardDep)
    BY <1>1 DEF DepInv, Edges
  <2>2. PICK t, u : t = e[1] /\ u = e[2]
    OBVIOUS
  <2>3. Live(t)' /\ (Settled(u)' <=> Settled(u))
    BY <1>1, <2>1, <2>2, EffectLive, EffectSettled
  <2>4. <<t, u>> \in hardDep => <<t, u>> \in hardDep'
    BY <1>1, <2>2 DEF Effect
  <2> QED BY <2>1, <2>2, <2>3, <2>4
<1>3. ASSUME NEW e \in depGraph'.edge, NEW p \in Package, e[3] = Requirement(p)
      PROVE  e[2] \in Accepted(e[1], p) /\ state'[e[2]] \notin Failure
  <2>1. e[2] \in Accepted(e[1], p) /\ state[e[2]] \notin Failure
    BY <1>1, <1>3 DEF DepInv, Requirements
  <2> QED BY <1>1, <2>1, EffectLive
<1>4. Edges'
  BY <1>2 DEF Edges
<1> QED BY <1>3, <1>4 DEF Requirements

LEMMA EffectEdgesKept ==
    ASSUME DepInv, Others, NEW T, NEW F, NEW X, NEW D, NEW g, Effect(T, F, X, D, g)
    PROVE  EdgesKept'
<1>1. job' = job /\ IsJob(job)
  BY DepHandlerAssumption DEF Others, DepInv, Types, TypeOK
<1> SUFFICES ASSUME NEW t \in Trove \ (PrepOnly \cup Special), Live(t)', NEW p \in job.reqs[t],
                    NEW q \in Accepted(t, p)
             PROVE  <<t, q, Requirement(p)>> \in depGraph'.edge \/ Settled(q)'
  BY <1>1 DEF EdgesKept, buildReqs
<1>2. Live(t) /\ t \notin T \cup X
  BY EffectLive
<1>3. q \in Trove /\ p \in Package
  BY <1>1, ProvidersBuilt DEF IsJob
<1>4. <<t, q, Requirement(p)>> \in depGraph.edge \/ Settled(q)
  BY <1>2 DEF DepInv, EdgesKept, buildReqs
<1>5. CASE q \in T \cup X \/ Settled(q)
  BY <1>3, <1>5, EffectSettled
<1>6. CASE q \notin T \cup X /\ <<t, q, Requirement(p)>> \in depGraph.edge
  <2>1. PICK e \in depGraph.edge : e = <<t, q, Requirement(p)>>
    BY <1>6
  <2>2. e[1] = t /\ e[2] = q
    BY <2>1
  <2>3. e \in depGraph'.edge
    BY <1>2, <1>6, <2>2 DEF Effect
  <2> QED BY <2>1, <2>3
<1> QED BY <1>4, <1>5, <1>6

\* Whoever fails was not settled before, or had failed.
LEMMA EffectFails ==
    ASSUME DepInv, NEW T, NEW F, NEW X, NEW D, NEW g, Effect(T, F, X, D, g),
           NEW q \in X, state[q] \notin Failure
    PROVE  ~Settled(q)
<1>1. CASE q \in F
  <2>1. MayFail(q)
    BY <1>1 DEF Effect
  <2>2. CASE q \in TrovesOf(duplicates)
    BY <2>2 DEF Settled, TrovesOf
  <2>3. CASE q \in delayed
    BY <2>3 DEF DepInv, Types, Settled, Finished, Final, Failure, Made
  <2> QED BY <2>1, <2>2, <2>3 DEF MayFail, Settled, Finished, Final, Failure, Made
<1>2. CASE q \notin F
  BY <1>2 DEF Effect, Unresolved, Settled, Finished, Final, Failure, Made
<1> QED BY <1>1, <1>2

LEMMA EffectPropagates ==
    ASSUME DepInv, Others, NEW T, NEW F, NEW X, NEW D, NEW g, Effect(T, F, X, D, g)
    PROVE  FailurePropagates'
<1>1. job' = job /\ IsJob(job)
  BY DepHandlerAssumption DEF Others, DepInv, Types, TypeOK
<1> SUFFICES ASSUME NEW t \in Trove \ (PrepOnly \cup Special), Live(t)', NEW p \in job.reqs[t],
                    Accepted(t, p) # {}, \A q \in Accepted(t, p) : state'[q] \in Failure
             PROVE  FALSE
  BY <1>1 DEF FailurePropagates, buildReqs, Live
<1>2. Live(t) /\ t \notin T \cup X
  BY EffectLive
<1>3. p \in Package /\ Accepted(t, p) \subseteq Trove
  BY <1>1, ProvidersBuilt DEF IsJob
<1>4. \A q \in Accepted(t, p) : state[q] \notin Failure => q \in X
  BY <1>3, EffectLive
<1>5. PICK q \in Accepted(t, p) : state[q] \notin Failure
  BY <1>2 DEF DepInv, FailurePropagates, buildReqs, Live
<1>6. q \in X /\ ~Settled(q)
  BY <1>4, <1>5, EffectFails
<1>7. PICK e \in depGraph.edge : e = <<t, q, Requirement(p)>>
  BY <1>2, <1>6 DEF DepInv, EdgesKept, buildReqs
<1>8. e[1] = t /\ e[2] = q /\ e[3] = Requirement(p)
  BY <1>7
<1>9. e \in Delete(g, T).edge
  BY <1>2, <1>6, <1>8 DEF Effect
<1>10. ASSUME NEW f \in Delete(g, T).edge, f[1] = t, f[3] = Requirement(p) PROVE f[2] \in X
  <2>1. f \in depGraph.edge
    BY <1>2, <1>10 DEF Effect
  <2>2. f[2] \in Accepted(t, p) /\ state[f[2]] \notin Failure
    BY <1>3, <1>10, <2>1 DEF DepInv, Requirements
  <2> QED BY <1>4, <2>2
<1>11. FailureClosed(Delete(g, T), X)
  BY DEF Effect
<1>12. t \in X
  BY <1>8, <1>9, <1>10, <1>11 DEF FailureClosed
<1> QED BY <1>2, <1>12

\* The cycle of a trove under resolution stays as it is, and that of a trove that
\* starts to be resolved has no other trove under resolution.
LEMMA EffectCycle ==
    ASSUME DepInv, NEW T, NEW F, NEW X, NEW D, NEW g, Effect(T, F, X, D, g),
           NEW t \in Trove \ (T \cup X), NEW C, t \in C, C \subseteq depGraph.node,
           C \cap (T \cup X) = {}, Closed(depGraph, C),
           \A u \in C : Reaches(depGraph, u, t),
           \A u \in C \ {t} : state[u] \in Unresolved,
           \A u \in C \ {t} : \A E : ~(Candidate(u, E) /\ DOMAIN resolving' = DOMAIN resolving \cup {u})
    PROVE  /\ C \subseteq depGraph'.node
           /\ Closed(depGraph', C)
           /\ \A u \in C : Reaches(depGraph', u, t)
           /\ \A u \in C \ {t} : state'[u] \in Unresolved
<1>1. C \subseteq depGraph'.node
  BY DEF Effect
<1>2. Closed(depGraph', C)
  BY DEF Effect, Closed
<1>3. \A e \in depGraph.edge : e[1] \in C => e \in depGraph'.edge
  BY DEF Effect, Closed
<1>4. ASSUME NEW u \in C PROVE Reaches(depGraph', u, t)
  <2>1. PICK g1, h1 : g1 = depGraph /\ h1 = depGraph'
    OBVIOUS
  <2>2. Reaches(h1, u, t)
    BY <1>3, <2>1, ReachesStill
  <2> QED BY <2>1, <2>2
<1>5. ASSUME NEW u \in C \ {t} PROVE state'[u] \in Unresolved
  <2>1. u \in Trove \ (T \cup X)
    BY GraphKept DEF DepInv
  <2>2. state'[u] = state[u] \/ Starts(u, state'[u], T \cup X) \/ Awaits(u, state'[u])
    BY <2>1 DEF Effect
  <2>3. ~Starts(u, state'[u], T \cup X)
    BY DEF Starts
  <2>4. ~Awaits(u, state'[u])
    BY DEF Awaits, Unresolved
  <2> QED BY <2>2, <2>3, <2>4
<1> QED BY <1>1, <1>2, <1>4, <1>5

LEMMA EffectCycles ==
    ASSUME DepInv, NEW T, NEW F, NEW X, NEW D, NEW g, Effect(T, F, X, D, g)
    PROVE  Cycles'
<1> SUFFICES ASSUME NEW t \in Trove, state'[t] = "resolving" PROVE CycleKept(t)'
  BY DEF Cycles
<1>1. t \notin T \cup X
  BY LeavesFrom DEF Effect, Final, Failure, Made
<1>2. CASE Resolving(t)
  <2>1. resolving'[t] = resolving[t] /\ resolving[t] \cap (T \cup X) = {} /\ CycleKept(t)
    BY <1>1, <1>2 DEF Effect, KeepsResolving, DepInv, Cycles, Resolving
  <2>2. CASE resolving[t] = {}
    <3>1. \A e \in depGraph'.edge : e[1] # t
      BY <2>1, <2>2 DEF CycleKept, Effect
    <3> QED BY <2>1, <2>2, <3>1 DEF CycleKept
  <2>3. CASE resolving[t] # {}
    <3>1. PICK C : C = resolving[t]
      OBVIOUS
    <3>2. /\ t \in C /\ C \subseteq depGraph.node /\ Closed(depGraph, C)
          /\ \A u \in C : Reaches(depGraph, u, t)
          /\ \A u \in C \ {t} : state[u] \in Unresolved
      BY <2>1, <2>3, <3>1 DEF CycleKept
    <3>3. \A u, E : Candidate(u, E) => E \cap C = {}
      BY <1>2, <3>1, CandidateApart
    <3>4. \A u \in C \ {t} : \A E : ~(Candidate(u, E) /\ DOMAIN resolving' = DOMAIN resolving \cup {u})
      BY <3>3 DEF Candidate
    <3>5. C \cap (T \cup X) = {}
      BY <2>1, <3>1
    <3>6. /\ C \subseteq depGraph'.node /\ Closed(depGraph', C)
          /\ \A u \in C : Reaches(depGraph', u, t)
          /\ \A u \in C \ {t} : state'[u] \in Unresolved
      BY <1>1, <3>2, <3>4, <3>5, EffectCycle
    <3> QED BY <2>1, <2>3, <3>1, <3>2, <3>6 DEF CycleKept
  <2> QED BY <2>2, <2>3
<1>3. CASE ~Resolving(t)
  <2>1. Starts(t, state'[t], T \cup X)
    BY <1>1, <1>3 DEF Effect, Awaits, Resolving
  <2>2. PICK C : /\ Candidate(t, C) /\ C \cap (T \cup X) = {}
                 /\ resolving'[t] = IF C = {t} THEN {} ELSE C
    BY <2>1 DEF Starts
  <2>3. /\ t \in C /\ C \subseteq depGraph.node /\ Closed(depGraph, C) /\ t \notin DOMAIN resolving
        /\ \A u \in C : Reaches(depGraph, u, t) /\ state[u] \in Unresolved
        /\ C = {t} => \A e \in depGraph.edge : e[1] # t
    BY <2>2, CandidateCycle DEF Candidate
  <2>4. DOMAIN resolving' = DOMAIN resolving \cup {t}
    BY <2>1 DEF Starts
  <2>5. CASE C = {t}
    <3>1. \A e \in depGraph'.edge : e[1] # t
      BY <2>3, <2>5 DEF Effect
    <3> QED BY <2>2, <2>5, <3>1 DEF CycleKept
  <2>6. CASE C # {t}
    <3>1. \A u \in C \ {t} : \A E : ~(Candidate(u, E) /\ DOMAIN resolving' = DOMAIN resolving \cup {u})
      BY <2>4 DEF Candidate
    <3>2. /\ C \subseteq depGraph'.node /\ Closed(depGraph', C)
          /\ \A u \in C : Reaches(depGraph', u, t)
          /\ \A u \in C \ {t} : state'[u] \in Unresolved
      BY <1>1, <2>2, <2>3, <3>1, EffectCycle
    <3> QED BY <2>2, <2>3, <2>6, <3>2 DEF CycleKept
  <2> QED BY <2>5, <2>6
<1> QED BY <1>2, <1>3

LEMMA SettlesInv ==
    ASSUME DepInv, Others, NEW T, NEW F, NEW D, NEW s, NEW g, Settles(T, F, D, s, g)
    PROVE  DepInv'
<1>1. PICK X : Effect(T, F, X, D, g)
  BY SettlesEffect
<1> QED
  BY <1>1, EffectTypes, EffectInGraph, EffectRows, EffectFast, EffectBinaries, EffectEdges,
     EffectEdgesKept, EffectPropagates, EffectCycles DEF DepInv

-----------------------------------------------------------------------------
(* The steps in which one trove goes on, and nobody settles.               *)

Goes(t) ==
    /\ state' \in [Trove -> State] /\ \A u \in Trove \ {t} : state'[u] = state[u]
    /\ ~Finished(t) /\ state'[t] \in Unresolved \cup {"buildable", "waiting", "building"}
    /\ state'[t] \in Unresolved => Live(t) /\ t \notin Special
    /\ state[t] \in Unresolved => t \in Special \/ ~\E u \in Trove : Resolving(u)
    /\ state'[t] = "prebuilt" => state[t] = "prebuilt"
    /\ t \in Special => state'[t] = "building"
    /\ buildable' = {u \in Trove : state'[u] = "buildable"}
    /\ \A u \in delayed' : (u \in delayed /\ u # t) \/ (u = t /\ state'[t] = "init")
    /\ KeepsResolving({t})
    /\ UNCHANGED <<duplicates, builtBinaries, disallowed>>
    /\ hardDep \subseteq hardDep'
    /\ depGraph' \in Graph /\ depGraph.node \subseteq depGraph'.node
    /\ \A e \in depGraph'.edge : e[1] \in depGraph'.node /\ e[2] \in depGraph'.node
    /\ \A e \in depGraph'.edge : e \in depGraph.edge \/
          /\ e[1] = t /\ e[2] \in Trove /\ e[2] # t /\ e[3][1] = "dependency"
          /\ Settled(e[2]) => <<t, e[2]>> \in hardDep'
    /\ \A e \in depGraph'.edge : e[1] = t => state'[t] \in Unresolved
    /\ \A e \in depGraph.edge : e \in depGraph'.edge \/ (e[1] = t /\ state'[t] \notin Unresolved)
    /\ fastResolution' =>
          /\ delayed' = delayed
          /\ t \notin Special => state'[t] \in Unresolved
          /\ \A u \in depGraph'.node : u \in depGraph.node \/ (u \in Trove \ Special /\ ~Finished(u))

LEMMA WaitsGoes ==
    ASSUME DepInv, NEW t \in Trove, NEW E, Waits(t, E)
    PROVE  Goes(t)
<1>1. Types /\ depGraph \in Graph /\ (Resolving(t) \/ state[t] \in Unresolved)
  BY DEF DepInv, Types, Waits
<1>2. t \notin Special
  BY <1>1, ResolvingPlain, GraphKept DEF Waits
<1>3. /\ E \in SUBSET (Trove \X Trove \X Label) /\ \A e \in E : e[1] = t /\ e[2] \in Trove \ Special
      /\ \A e \in E : e[2] # t /\ e[3][1] = "dependency" /\ (Settled(e[2]) => <<t, e[2]>> \in hardDep')
      /\ depGraph' = AddEdges(depGraph, E)
  BY DEF Waits
<1>4. /\ depGraph' \in Graph
      /\ depGraph.node \subseteq depGraph'.node
      /\ depGraph'.node \subseteq depGraph.node \cup {t} \cup {e[2] : e \in E}
      /\ depGraph'.edge = depGraph.edge \cup E
      /\ \A e \in E : e[1] \in depGraph'.node /\ e[2] \in depGraph'.node
  BY <1>1, <1>2, <1>3, Added
<1>5. \A e \in depGraph'.edge : e[1] \in depGraph'.node /\ e[2] \in depGraph'.node
  BY <1>1, <1>4, GraphKept
<1>6. /\ state' \in [Trove -> State] /\ \A u \in Trove \ {t} : state'[u] = state[u]
      /\ state'[t] \in Unresolved /\ (state'[t] = "prebuilt" => state[t] = "prebuilt")
      /\ \A u \in Trove : state'[u] = "buildable" <=> state[u] = "buildable"
  BY <1>1 DEF Waits, Types, TypeOK, State, Unresolved, Resolving
<1>7. ~Finished(t) /\ Live(t)
  BY <1>1 DEF Finished, Live, Resolving, Unresolved, Final, Failure, Made
<1>8. buildable' = {u \in Trove : state'[u] = "buildable"}
  BY <1>1, <1>6 DEF Waits, Types
<1>9. \A u \in delayed' : (u \in delayed /\ u # t) \/ (u = t /\ state'[t] = "init")
  BY <1>1, <1>6 DEF Waits, Types, TypeOK, Unresolved, Failure
<1>10. KeepsResolving({t})
  BY <1>1 DEF Waits, KeepsResolving, Types, TypeOK, Resolving
<1>11. ASSUME fastResolution'
       PROVE  /\ delayed' = delayed
              /\ \A u \in depGraph'.node : u \in depGraph.node \/ (u \in Trove \ Special /\ ~Finished(u))
  <2>1. delayed' = delayed /\ \A e \in E : ~Finished(e[2])
    BY <1>11 DEF Waits
  <2> QED BY <1>2, <1>3, <1>4, <1>7, <2>1
<1>12. hardDep \subseteq hardDep' /\ UNCHANGED <<duplicates, builtBinaries, disallowed>>
  BY DEF Waits
<1>13. state[t] \in Unresolved => ~\E u \in Trove : Resolving(u)
  BY DEF Waits, Resolving, Unresolved
<1> QED
  BY <1>2, <1>3, <1>4, <1>5, <1>6, <1>7, <1>8, <1>9, <1>10, <1>11, <1>12, <1>13 DEF Goes

LEMMA BreaksGoes ==
    ASSUME DepInv, NEW t \in Trove, Breaks(t)
    PROVE  Goes(t)
<1>1. Types /\ depGraph \in Graph /\ Resolving(t) /\ t \notin Special /\ CycleKept(t)
  BY ResolvingPlain DEF DepInv, Types, Breaks, Cycles, Resolving
<1>2. /\ depGraph'.node = depGraph.node
      /\ \A e : e \in depGraph'.edge <=> e \in depGraph.edge /\ e[1] # t
      /\ depGraph' \in Graph
  <2>1. CASE resolving[t] = {}
    BY <1>1, <2>1 DEF Breaks, CycleKept
  <2>2. CASE resolving[t] # {}
    <3>1. depGraph' = DeleteEdges(depGraph, t)
      BY <2>2 DEF Breaks
    <3> QED BY <1>1, <3>1 DEF DeleteEdges, Graph
  <2> QED BY <2>1, <2>2
<1>3. /\ state' \in [Trove -> State] /\ \A u \in Trove \ {t} : state'[u] = state[u]
      /\ state'[t] = "buildable"
  BY <1>1 DEF Breaks, Types, TypeOK, State
<1>4. buildable' = {u \in Trove : state'[u] = "buildable"}
  BY <1>1, <1>3 DEF Breaks, Types
<1>5. t \notin delayed /\ ~Finished(t)
  BY <1>1 DEF Types, Resolving, Failure, Finished, Final, Made
<1> QED BY <1>1, <1>2, <1>3, <1>4, <1>5, GraphKept DEF Goes, Breaks, Unresolved, Resolving

LEMMA MovesGoes ==
    ASSUME DepInv, Others, NEW t \in Trove, Moves(t)
    PROVE  Goes(t)
<1>1. Types /\ depGraph \in Graph
  BY DEF DepInv, Types
<1>2. /\ state[t] \in {"buildable", "waiting"} \/ (t \in Special /\ state[t] = "init")
      /\ state' \in [Trove -> State] /\ \A u \in Trove \ {t} : state'[u] = state[u]
      /\ state'[t] \in {"waiting", "building"} /\ (t \in Special => state'[t] = "building")
      /\ buildable' = {u \in Trove : state'[u] = "buildable"}
  BY <1>1 DEF Moves, Types, TypeOK, State
<1>3. ~Finished(t) /\ t \notin delayed /\ ~Resolving(t)
  BY <1>1, <1>2 DEF Types, TypeOK, Resolving, Failure, Finished, Final, Made
<1>4. ~\E e \in depGraph.edge : e[1] = t
  BY <1>1, <1>2, GraphKept DEF DepInv, Edges, Live, Unresolved
<1>5. KeepsResolving({t})
  BY <1>1 DEF Moves, KeepsResolving, Types, TypeOK, Resolving
<1>6. ~(fastResolution' /\ t \notin Special)
  BY <1>2 DEF Others, DepInv, FastOnly, Unresolved, Failure
<1>7. UNCHANGED <<depGraph, delayed, hardDep, duplicates, builtBinaries, disallowed>>
  BY DEF Moves
<1> QED BY <1>1, <1>2, <1>3, <1>4, <1>5, <1>6, <1>7, GraphKept DEF Goes, Unresolved

LEMMA GoesSettled ==
    ASSUME DepInv, NEW t \in Trove, Goes(t), NEW u \in Trove
    PROVE  /\ Settled(u)' <=> Settled(u)
           /\ Live(u)' => Live(u)
           /\ Live(u) => Live(u)' \/ (u = t /\ state'[t] \notin Unresolved)
           /\ state'[u] \in Failure <=> state[u] \in Failure
<1>1. UNCHANGED duplicates /\ \A v \in Trove \ {t} : state'[v] = state[v]
  BY DEF Goes
<1>2. CASE u = t
  BY <1>2 DEF Goes, Settled, Finished, Live, Unresolved, Final, Failure, Made
<1>3. CASE u # t
  BY <1>1, <1>3 DEF Settled, Finished, Live
<1> QED BY <1>2, <1>3

LEMMA GoesTypes ==
    ASSUME DepInv, Others, NEW t \in Trove, Goes(t)
    PROVE  Types'
<1>0. Types /\ UNCHANGED <<duplicates, builtBinaries, disallowed, job>>
  BY DEF DepInv, Goes, Others
<1>1. TypeOK'
  <2>1. depGraph' \in Graph
    BY DEF Goes
  <2>2. depGraph'.edge \subseteq depGraph'.node \X depGraph'.node \X Label
    <3> SUFFICES ASSUME NEW e \in depGraph'.edge
                 PROVE  e \in depGraph'.node \X depGraph'.node \X Label
      OBVIOUS
    <3>1. e[1] \in depGraph'.node /\ e[2] \in depGraph'.node
      BY DEF Goes
    <3>2. e \in Trove \X Trove \X Label
      BY <2>1 DEF Graph
    <3> QED BY <3>1, <3>2
  <2>3. depGraph'.node \subseteq Trove
    BY <2>1 DEF Graph
  <2>4. buildable' \subseteq Trove
    BY DEF Goes
  <2>5. delayed' \subseteq Trove \ Special
    BY <1>0 DEF Goes, Types, TypeOK
  <2>6. /\ DOMAIN resolving' \subseteq Trove /\ resolving' \in [DOMAIN resolving' -> SUBSET Trove]
        /\ state' \in [Trove -> State]
    BY DEF Goes, KeepsResolving
  <2>7. {fastResolution', hadEvent', crashed'} \subseteq BOOLEAN
    <3>1. fastResolution \in BOOLEAN
      BY <1>0 DEF Types, TypeOK
    <3> QED BY <3>1 DEF Others
  <2>8. /\ hardDep' \subseteq Trove \X Trove /\ cycleChecked' \subseteq Trove \ Special
        /\ inactiveSpecial' \subseteq Special
    BY DEF Others
  <2>9. /\ job' \in Jobs /\ duplicates' \subseteq Trove \X Trove \X SUBSET Binary
        /\ builtBinaries' \subseteq Binary /\ disallowed' \subseteq Trove
    BY <1>0 DEF Types, TypeOK
  <2> QED BY <2>2, <2>3, <2>4, <2>5, <2>6, <2>7, <2>8, <2>9 DEF TypeOK
<1>2. \A u \in Special : state'[u] \in {"init", "building", "built", "failed"}
  BY <1>0, DepHandlerAssumption DEF Types, Goes
<1>3. \A u \in Trove : state'[u] = "resolving" => u \in DOMAIN resolving'
  BY DEF Goes, KeepsResolving, Resolving, Unresolved
<1>4. \A u \in Trove : state'[u] = "prebuilt" => u \in DOMAIN job'.old
  BY <1>0 DEF Types, Goes
<1>5. ASSUME NEW u \in delayed' PROVE state'[u] \in {"init"} \cup Failure
  <2>1. u \in Trove
    BY <1>1, <1>5 DEF TypeOK
  <2> QED BY <1>0, <1>5, <2>1 DEF Types, Goes
<1>6. buildable' = {u \in Trove : state'[u] = "buildable"} /\ depGraph' \in Graph
  BY DEF Goes
<1> QED BY <1>1, <1>2, <1>3, <1>4, <1>5, <1>6 DEF Types

LEMMA GoesTables ==
    ASSUME DepInv, Others, NEW t \in Trove, Goes(t)
    PROVE  InGraph' /\ Rows' /\ FastOnly' /\ Binaries' /\ BuiltOnce'
<1>1. /\ UNCHANGED <<duplicates, builtBinaries, disallowed>>
      /\ \A u \in Trove \ {t} : state'[u] = state[u]
      /\ state[t] \notin Final /\ state'[t] \notin Final
      /\ depGraph.node \subseteq depGraph'.node
  BY DEF Goes, Finished, Unresolved, Final, Failure, Made
<1>2. InGraph'
  BY <1>1, GoesSettled DEF InGraph, DepInv
<1>3. Rows'
  <2>1. \A d \in duplicates : d[2] \in Trove /\ state[d[2]] = "duplicate"
    BY DEF DepInv, Rows, Types, TypeOK
  <2>2. \A d \in duplicates : state'[d[2]] = "duplicate"
    BY <1>1, <2>1 DEF Final
  <2> QED BY <1>1, <2>2 DEF Rows, DepInv
<1>4. FastOnly'
  <2> SUFFICES ASSUME fastResolution'
               PROVE  /\ delayed' = {}
                      /\ \A u \in Trove \ Special :
                            state'[u] \in Unresolved \cup {"resolving", "reused"} \cup Failure
                      /\ \A u \in depGraph'.node : Live(u)'
    BY DEF FastOnly
  <2>1. /\ delayed = {}
        /\ \A u \in Trove \ Special : state[u] \in Unresolved \cup {"resolving", "reused"} \cup Failure
        /\ \A u \in depGraph.node : Live(u)
    <3>1. fastResolution
      BY DEF Others
    <3> QED BY <3>1 DEF DepInv, FastOnly
  <2>2. /\ delayed' = delayed
        /\ t \notin Special => state'[t] \in Unresolved
        /\ \A u \in depGraph'.node : u \in depGraph.node \/ (u \in Trove \ Special /\ ~Finished(u))
    BY DEF Goes
  <2>3. ASSUME NEW u \in depGraph'.node PROVE Live(u)'
    <3>1. u \in Trove \ Special
      BY <2>2, GraphKept DEF DepInv
    <3>2. Live(u)
      BY <2>1, <2>2, <3>1 DEF Live, Finished, Final, Made
    <3> QED BY <2>2, <3>1, <3>2, GoesSettled
  <2> QED BY <1>1, <2>1, <2>2, <2>3
<1>5. \A u \in Trove : state'[u] \in Made <=> state[u] \in Made
  BY <1>1 DEF Final
<1>6. Binaries' /\ BuiltOnce'
  BY <1>1, <1>5 DEF DepInv, Binaries, BuiltOnce
<1> QED BY <1>2, <1>3, <1>4, <1>6

LEMMA GoesEdges ==
    ASSUME DepInv, Others, NEW t \in Trove, Goes(t)
    PROVE  Edges' /\ Requirements' /\ EdgesKept' /\ FailurePropagates'
<1>1. job' = job /\ IsJob(job)
  BY DepHandlerAssumption DEF Others, DepInv, Types, TypeOK
<1>2. ASSUME NEW e \in depGraph'.edge
      PROVE  e[1] # e[2] /\ Live(e[1])' /\ (Settled(e[2])' => <<e[1], e[2]>> \in hardDep')
  <2>1. PICK x, y : x = e[1] /\ y = e[2]
    OBVIOUS
  <2>2. hardDep \subseteq hardDep'
    BY DEF Goes
  <2>3. CASE e \in depGraph.edge
    <3>1. x \in Trove /\ y \in Trove /\ x # y /\ Live(x) /\ (Settled(y) => <<x, y>> \in hardDep)
      BY <2>1, <2>3, GraphKept DEF DepInv, Edges
    <3>2. x = t => state'[t] \in Unresolved
      BY <2>1 DEF Goes
    <3>3. Live(x)'
      BY <3>1, <3>2, GoesSettled
    <3>4. Settled(y)' => <<x, y>> \in hardDep'
      BY <2>2, <3>1, GoesSettled
    <3> QED BY <2>1, <3>1, <3>3, <3>4
  <2>4. CASE e \notin depGraph.edge
    <3>1. /\ x = t /\ y \in Trove /\ y # t /\ (Settled(y) => <<t, y>> \in hardDep')
          /\ state'[t] \in Unresolved
      BY <2>1, <2>4 DEF Goes
    <3>2. Live(x)'
      BY <3>1 DEF Live
    <3> QED BY <2>1, <3>1, <3>2, GoesSettled
  <2> QED BY <2>3, <2>4
<1>3. Edges'
  BY <1>2 DEF Edges
<1>4. ASSUME NEW e \in depGraph'.edge, NEW p \in Package, e[3] = Requirement(p)
      PROVE  e[2] \in Accepted(e[1], p) /\ state'[e[2]] \notin Failure
  <2>1. e \in depGraph.edge
    <3>1. e[3][1] = "requirement"
      BY <1>4 DEF Requirement
    <3> QED BY <3>1 DEF Goes
  <2>2. e[2] \in Accepted(e[1], p) /\ state[e[2]] \notin Failure /\ e[2] \in Trove
    BY <1>4, <2>1, GraphKept DEF DepInv, Requirements
  <2> QED BY <2>2, GoesSettled
<1>5. Requirements'
  BY <1>4 DEF Requirements
<1>6. ASSUME NEW u \in Trove \ (PrepOnly \cup Special), Live(u)', NEW p \in job.reqs[u],
             NEW q \in Accepted(u, p)
      PROVE  <<u, q, Requirement(p)>> \in depGraph'.edge \/ Settled(q)'
  <2>1. q \in Trove
    BY <1>1, ProvidersBuilt DEF IsJob
  <2>2. Live(u)
    BY <1>6, GoesSettled
  <2>3. <<u, q, Requirement(p)>> \in depGraph.edge \/ Settled(q)
    BY <2>2 DEF DepInv, EdgesKept, buildReqs
  <2>4. CASE Settled(q)
    BY <2>1, <2>4, GoesSettled
  <2>5. ASSUME NEW e \in depGraph.edge, e = <<u, q, Requirement(p)>> PROVE e \in depGraph'.edge
    <3>1. e[1] = u
      BY <2>5
    <3>2. u = t => state'[t] \in Unresolved
      BY <1>6 DEF Goes, Live
    <3> QED BY <3>1, <3>2 DEF Goes
  <2> QED BY <2>3, <2>4, <2>5
<1>7. EdgesKept'
  BY <1>1, <1>6 DEF EdgesKept, buildReqs
<1>8. ASSUME NEW u \in Trove \ (PrepOnly \cup Special), Live(u)', NEW p \in job.reqs[u],
             Accepted(u, p) # {}
      PROVE  \E q \in Accepted(u, p) : state'[q] \notin Failure
  <2>1. Live(u) /\ Accepted(u, p) \subseteq Trove
    BY <1>1, <1>8, GoesSettled, ProvidersBuilt DEF IsJob
  <2>2. PICK q \in Accepted(u, p) : state[q] \notin Failure
    BY <1>8, <2>1 DEF DepInv, FailurePropagates, buildReqs, Live
  <2> QED BY <2>1, <2>2, GoesSettled
<1>9. FailurePropagates'
  BY <1>1, <1>8 DEF FailurePropagates, buildReqs, Live
<1> QED BY <1>3, <1>5, <1>7, <1>9

LEMMA GoesCycles ==
    ASSUME DepInv, NEW t \in Trove, Goes(t)
    PROVE  Cycles'
<1> SUFFICES ASSUME NEW v \in Trove, state'[v] = "resolving" PROVE CycleKept(v)'
  BY DEF Cycles
<1>1. v # t /\ Resolving(v) /\ resolving'[v] = resolving[v] /\ CycleKept(v)
  BY DEF Goes, KeepsResolving, Resolving, Unresolved, DepInv, Cycles
<1>2. \A e \in depGraph'.edge : e[1] # t => e \in depGraph.edge
  BY DEF Goes
<1>3. CASE resolving[v] = {}
  <2>1. \A e \in depGraph'.edge : e[1] # v
    BY <1>1, <1>2, <1>3 DEF CycleKept
  <2> QED BY <1>1, <1>3, <2>1 DEF CycleKept
<1>4. CASE resolving[v] # {}
  <2>1. PICK C : C = resolving[v]
    OBVIOUS
  <2>2. /\ v \in C /\ C \subseteq depGraph.node /\ Closed(depGraph, C)
        /\ \A u \in C : Reaches(depGraph, u, v)
        /\ \A u \in C \ {v} : state[u] \in Unresolved
    BY <1>1, <1>4, <2>1 DEF CycleKept
  <2>3. t \notin C
    <3>1. t \in C => state[t] \in Unresolved /\ t \notin Special
      BY <1>1, <2>2, GraphKept DEF DepInv
    <3> QED BY <1>1, <3>1 DEF Goes
  <2>4. C \subseteq depGraph'.node /\ Closed(depGraph', C)
    BY <1>2, <2>2, <2>3 DEF Goes, Closed
  <2>5. \A e \in depGraph.edge : e[1] \in C => e \in depGraph'.edge
    BY <2>3 DEF Goes
  <2>6. ASSUME NEW u \in C PROVE Reaches(depGraph', u, v)
    <3>1. PICK g, h : g = depGraph /\ h = depGraph'
      OBVIOUS
    <3>2. Reaches(h, u, v)
      BY <2>2, <2>5, <3>1, ReachesStill
    <3> QED BY <3>1, <3>2
  <2>7. \A u \in C \ {v} : state'[u] \in Unresolved
    BY <2>2, <2>3, GraphKept DEF Goes, DepInv
  <2> QED BY <1>1, <1>4, <2>1, <2>2, <2>4, <2>6, <2>7 DEF CycleKept
<1> QED BY <1>3, <1>4

LEMMA GoesInv ==
    ASSUME DepInv, Others, NEW t \in Trove, Goes(t)
    PROVE  DepInv'
  BY GoesTypes, GoesTables, GoesEdges, GoesCycles DEF DepInv

-----------------------------------------------------------------------------
(* The invariant holds.                                                    *)

LEMMA RestsInv ==
    ASSUME DepInv, Rests, Others
    PROVE  DepInv'
<1>1. UNCHANGED <<state, depGraph, resolving, delayed, buildable,
                  hardDep, duplicates, builtBinaries, disallowed, job>>
  BY DEF Rests, Others
<1>2. Types'
  <2>1. {fastResolution', hadEvent', crashed'} \subseteq BOOLEAN
    BY DEF DepInv, Types, TypeOK, Others
  <2> QED BY <1>1, <2>1 DEF DepInv, Types, TypeOK, Others
<1>3. \A t \in Trove : Settled(t)' <=> Settled(t)
  BY <1>1 DEF Settled, Finished
<1>4. \A t \in Trove : Live(t)' <=> Live(t)
  BY <1>1 DEF Live
<1>5. InGraph' /\ Rows' /\ Binaries' /\ BuiltOnce'
  BY <1>1, <1>3 DEF DepInv, InGraph, Rows, Binaries, BuiltOnce
<1>6. FastOnly'
  <2>1. fastResolution' => fastResolution
    BY DEF Others
  <2>2. \A t \in depGraph.node : t \in Trove
    BY GraphKept DEF DepInv
  <2> QED BY <1>1, <1>4, <2>1, <2>2 DEF DepInv, FastOnly
<1>7. Edges' /\ Requirements'
  <2>1. \A e \in depGraph.edge : e[1] \in Trove /\ e[2] \in Trove
    BY GraphKept DEF DepInv
  <2>2. \A e \in depGraph'.edge : Live(e[1])' /\ (Settled(e[2])' => <<e[1], e[2]>> \in hardDep')
    BY <1>1, <1>3, <1>4, <2>1 DEF DepInv, Edges
  <2> QED BY <1>1, <2>2 DEF DepInv, Edges, Requirements
<1>8. EdgesKept' /\ FailurePropagates'
  <2>1. IsJob(job)
    BY DepHandlerAssumption DEF DepInv, Types, TypeOK
  <2>2. \A t \in Trove : \A p \in job.reqs[t] : Accepted(t, p) \subseteq Trove
    BY <2>1, ProvidersBuilt DEF IsJob
  <2> QED BY <1>1, <1>3, <1>4, <2>2 DEF DepInv, EdgesKept, FailurePropagates, buildReqs, Live
<1>9. Cycles'
  <2>1. \A t \in Trove : CycleKept(t)' <=> CycleKept(t)
    BY <1>1 DEF CycleKept
  <2> QED BY <1>1, <2>1 DEF DepInv, Cycles
<1> QED BY <1>2, <1>5, <1>6, <1>7, <1>8, <1>9 DEF DepInv

LEMMA NextInv ==
    ASSUME DepInv, Next
    PROVE  DepInv'
<1>1. Step /\ Others
  BY NextStep, OthersStep
<1> QED BY <1>1, SettlesInv, WaitsGoes, BreaksGoes, MovesGoes, GoesInv, RestsInv DEF Step

LEMMA StutterInv ==
    ASSUME DepInv, UNCHANGED vars
    PROVE  DepInv'
<1>1. Others
  BY DEF DepInv, Types, TypeOK, vars, tables, Others
<1>2. Rests
  BY DEF vars, tables, Rests
<1> QED BY <1>1, <1>2, RestsInv

LEMMA InitInv == ASSUME Init PROVE DepInv
<1>1. IsJob(job) /\ job \in Jobs /\ Special \subseteq Trove
  BY DepHandlerAssumption DEF Init
<1>2. \A t \in Trove : state[t] = IF t \in DOMAIN job.old THEN "prebuilt" ELSE "init"
  BY DEF Init
<1>3. \A t \in Trove : Live(t) /\ ~Finished(t) /\ ~Settled(t) /\ state[t] \notin Made \cup Failure
  BY <1>2 DEF Live, Finished, Settled, Unresolved, Final, Failure, Made
<1>4. PICK A : A = {x \in (Trove \ (Special \cup PrepOnly)) \X Package : x[2] \in job.reqs[x[1]]}
  OBVIOUS
<1>5. PICK E : E = UNION {Links(r[1], Accepted(r[1], r[2]), Requirement(r[2])) : r \in A}
  OBVIOUS
<1>6. depGraph = AddEdges([node |-> Trove \ Special, edge |-> {}], E)
  BY <1>4, <1>5 DEF Init, buildReqs
<1>7. ASSUME NEW e \in E
      PROVE  \E t \in Trove \ (Special \cup PrepOnly), p \in Package :
               \E q \in Accepted(t, p) : e = <<t, q, Requirement(p)>>
  <2>1. PICK r \in A : e \in Links(r[1], Accepted(r[1], r[2]), Requirement(r[2]))
    BY <1>5
  <2>2. r[1] \in Trove \ (Special \cup PrepOnly) /\ r[2] \in Package
    BY <1>4
  <2>3. \E q \in Accepted(r[1], r[2]) : e = <<r[1], q, Requirement(r[2])>>
    BY <2>1 DEF Links
  <2> QED BY <2>2, <2>3
<1>8. ASSUME NEW t \in Trove \ (Special \cup PrepOnly), NEW p \in job.reqs[t], NEW q \in Accepted(t, p)
      PROVE  <<t, q, Requirement(p)>> \in E
  <2>1. PICK r : r = <<t, p>>
    OBVIOUS
  <2>2. r \in A /\ r[1] = t /\ r[2] = p
    BY <1>1, <1>4, <2>1 DEF IsJob
  <2>3. <<t, q, Requirement(p)>> \in Links(r[1], Accepted(r[1], r[2]), Requirement(r[2]))
    BY <2>2 DEF Links
  <2> QED BY <1>5, <2>2, <2>3
<1>9. ASSUME NEW e \in E
      PROVE  /\ e \in (Trove \ Special) \X (Trove \ Special) \X Label /\ e[1] # e[2]
             /\ \A p \in Package : e[3] = Requirement(p) => e[2] \in Accepted(e[1], p)
  <2>1. PICK t \in Trove \ (Special \cup PrepOnly), p \in Package :
               \E q \in Accepted(t, p) : e = <<t, q, Requirement(p)>>
    BY <1>7
  <2>2. PICK q \in Accepted(t, p) : e = <<t, q, Requirement(p)>>
    BY <2>1
  <2>3. q \in Trove \ Special /\ q # t
    BY ProvidersBuilt
  <2>4. Requirement(p) \in Label
    BY DEF Requirement, Label
  <2>5. \A x \in Package : Requirement(x) = Requirement(p) => x = p
    BY DEF Requirement
  <2> QED BY <2>1, <2>2, <2>3, <2>4, <2>5
<1>10. depGraph.node = Trove \ Special /\ depGraph.edge = E /\ depGraph \in Graph
  BY <1>6, <1>9 DEF AddEdges, EndsOf, Graph
<1>11. TypeOK
  <2>1. state \in [Trove -> State]
    BY <1>2 DEF Init, State, Unresolved
  <2>2. depGraph.edge \subseteq depGraph.node \X depGraph.node \X Label
    BY <1>9, <1>10
  <2>3. resolving \in [DOMAIN resolving -> SUBSET Trove] /\ DOMAIN resolving = {}
    BY DEF Init
  <2> QED BY <1>1, <1>10, <2>1, <2>2, <2>3 DEF Init, TypeOK
<1>12. Types
  <2>1. \A t \in Special : state[t] \in {"init", "building", "built", "failed"}
    BY <1>1, <1>2 DEF IsJob
  <2>2. buildable = {t \in Trove : state[t] = "buildable"}
    BY <1>2 DEF Init
  <2> QED BY <1>2, <1>10, <1>11, <2>1, <2>2 DEF Types, Init
<1>13. InGraph /\ Rows /\ Binaries /\ BuiltOnce
  BY <1>3, <1>10 DEF Init, InGraph, Rows, Binaries, BuiltOnce
<1>14. FastOnly
  BY <1>2, <1>3, <1>10 DEF Init, FastOnly, Unresolved
<1>15. Edges /\ Requirements
  BY <1>3, <1>9, <1>10 DEF Edges, Requirements
<1>16. EdgesKept
  BY <1>8, <1>10 DEF EdgesKept, buildReqs
<1>17. FailurePropagates
  <2> SUFFICES ASSUME NEW t \in Trove, NEW p \in job.reqs[t], Accepted(t, p) # {}
               PROVE  \E q \in Accepted(t, p) : state[q] \notin Failure
    BY DEF FailurePropagates, buildReqs
  <2>1. Accepted(t, p) \subseteq Trove
    BY <1>1, ProvidersBuilt DEF IsJob
  <2> QED BY <1>3, <2>1
<1>18. Cycles
  BY <1>2 DEF Cycles
<1> QED BY <1>12, <1>13, <1>14, <1>15, <1>16, <1>17, <1>18 DEF DepInv

LEMMA InvHolds == Spec => []DepInv
<1>1. DepInv /\ [Next]_vars => DepInv'
  BY NextInv, StutterInv
<1> QED BY <1>1, InitInv, PTL DEF Spec

-----------------------------------------------------------------------------
(* What the runs check, of every state.                                    *)

\* In every state the books have their shape, and the graph never has an edge to a
\* trove that was deleted from it.
THEOREM TypeCorrect == Spec => []TypeOK
<1>1. DepInv => TypeOK
  BY DEF DepInv, Types
<1> QED BY <1>1, InvHolds, PTL

\* The trove's own states and the handler's tables, which different event handlers
\* update, agree in every state.
THEOREM BooksAlwaysAgree == Spec => []BooksAgree
<1>1. DepInv => BooksAgree
  BY DEF DepInv, Types, InGraph, BooksAgree
<1> QED BY <1>1, InvHolds, PTL

\* In every state the trove that is resolved to break a cycle is the only one of that
\* cycle under resolution, however the graph has changed since the cycle was found.
THEOREM OneBreakerAtATime == Spec => []OneBreaker
<1>1. ASSUME DepInv PROVE OneBreaker
  <2> SUFFICES ASSUME NEW t \in Trove, NEW u \in Trove, t # u, state[t] = "resolving",
                      state[u] = "resolving", u \in resolving[t]
               PROVE  FALSE
    BY DEF OneBreaker
  <2>1. CycleKept(t)
    BY <1>1 DEF DepInv, Cycles
  <2> QED BY <2>1 DEF CycleKept, Unresolved
<1> QED BY <1>1, InvHolds, PTL

\* In every state, of two builds that made the same binary one is disallowed.
THEOREM NothingBuiltTwice == Spec => []BuiltOnce
<1>1. DepInv => BuiltOnce
  BY DEF DepInv
<1> QED BY <1>1, InvHolds, PTL

\* In every state, a trove of which all the providers of one build requirement have
\* failed has failed as well, unless it was ready before: _troveFailed misses nobody.
THEOREM FailureAlwaysPropagates == Spec => []FailurePropagates
<1>1. DepInv => FailurePropagates
  BY DEF DepInv
<1> QED BY <1>1, InvHolds, PTL

-----------------------------------------------------------------------------
(* What the runs check, of every step.                                     *)

\* In a step that is of no other kind one trove goes on, and nobody else.
LEMMA StepEffect ==
    ASSUME DepInv, Next
    PROVE  \/ \E T, F, X, D, g : Effect(T, F, X, D, g)
           \/ \E t \in Trove : Goes(t)
           \/ UNCHANGED state
<1>1. Step /\ Others
  BY NextStep, OthersStep
<1>2. ASSUME NEW T, NEW F, NEW D, NEW s, NEW g, Settles(T, F, D, s, g)
      PROVE  \E X : Effect(T, F, X, D, g)
  BY <1>2, SettlesEffect
<1> QED BY <1>1, <1>2, WaitsGoes, BreaksGoes, MovesGoes DEF Step, Rests

LEMMA DragsOnlyIdle ==
    ASSUME DepInv, Next, NEW t \in Trove, state'[t] = "unbuildable"
    PROVE  state[t] \in Unresolved \cup {"unbuildable"}
<1>1. ASSUME NEW T, NEW F, NEW X, NEW D, NEW g, Effect(T, F, X, D, g)
      PROVE  state[t] \in Unresolved \cup {"unbuildable"}
  <2>1. t \notin T
    BY <1>1, LeavesFrom DEF Effect, Failure
  <2> QED BY <1>1, <2>1 DEF Effect, Starts, Awaits
<1>2. ASSUME NEW u \in Trove, Goes(u) PROVE state[t] = "unbuildable"
  BY <1>2 DEF Goes, Unresolved
<1> QED BY <1>1, <1>2, StepEffect

\* The failure of another trove never fails a trove whose command is out or that is
\* ready to be built.
THEOREM NobodyDraggedInFlight == Spec => NotDraggedInFlight
<1>1. ASSUME DepInv, [Next]_vars
      PROVE  [\A t \in Trove :
                 state[t] \in {"resolving", "buildable", "waiting", "building"}
                    => state'[t] # "unbuildable"]_vars
  BY <1>1, DragsOnlyIdle DEF Unresolved
<1> QED BY <1>1, InvHolds, PTL DEF Spec, NotDraggedInFlight

LEMMA FinishedStays ==
    ASSUME DepInv, Next, NEW t \in Trove, Finished(t)
    PROVE  \/ state'[t] = state[t]
           \/ {state[t], state'[t]} \subseteq Failure
           \/ state[t] = "duplicate" /\ state'[t] = "failed"
<1>1. ASSUME NEW T, NEW F, NEW X, NEW D, NEW g, Effect(T, F, X, D, g)
      PROVE  \/ state'[t] = state[t]
             \/ {state[t], state'[t]} \subseteq Failure
             \/ state[t] = "duplicate" /\ state'[t] = "failed"
  <2>1. CASE t \in T
    <3>1. Leaves(t, state'[t])
      BY <1>1, <2>1 DEF Effect
    <3>2. state[t] = "duplicate"
      BY <3>1, LeavesFrom DEF Finished, Final, Failure, Made, Unresolved
    <3>3. \A C : ~Candidate(t, C)
      BY <3>2 DEF Candidate, Unresolved
    <3> QED BY <3>1, <3>2, <3>3 DEF Leaves, Resolving
  <2>2. CASE t \in F
    <3>1. state'[t] = "failed" /\ MayFail(t)
      BY <1>1, <2>2 DEF Effect
    <3>2. state[t] \in Failure \cup {"duplicate"}
      BY <3>1, FailsFrom DEF Finished, Final, Failure, Made
    <3> QED BY <3>1, <3>2 DEF Failure
  <2>3. t \notin X \ F
    BY <1>1 DEF Effect, Finished, Final, Failure, Made, Unresolved
  <2>4. CASE t \notin T \cup X
    <3>1. ~Starts(t, state'[t], T \cup X) /\ ~Awaits(t, state'[t])
      BY StartsFrom DEF Awaits, Finished, Final, Failure, Made, Unresolved
    <3> QED BY <1>1, <2>4, <3>1 DEF Effect
  <2> QED BY <2>1, <2>2, <2>3, <2>4
<1>2. ASSUME NEW u \in Trove, Goes(u) PROVE state'[t] = state[t]
  BY <1>2 DEF Goes
<1> QED BY <1>1, <1>2, StepEffect

\* No late answer brings a finished trove back.
THEOREM FinishedForGood == Spec => FinalStays
<1>1. ASSUME DepInv, [Next]_vars
      PROVE  [\A t \in Trove : Finished(t) =>
                 \/ state'[t] = state[t]
                 \/ {state[t], state'[t]} \subseteq Failure
                 \/ state[t] = "duplicate" /\ state'[t] = "failed"]_vars
  BY <1>1, FinishedStays
<1> QED BY <1>1, InvHolds, PTL DEF Spec, FinalStays

\* Whatever a trove under resolution requires has had its turn or is in its cycle.
LEMMA ResolvingReady ==
    ASSUME DepInv, NEW t \in Trove \ PrepOnly, Resolving(t), NEW q \in Required(t)
    PROVE  Settled(q) \/ Reaches(depGraph, q, t)
<1>1. t \notin Special /\ Live(t) /\ CycleKept(t)
  BY ResolvingPlain DEF Resolving, Live, DepInv, Cycles
<1>2. PICK p \in job.reqs[t] : q \in Accepted(t, p)
  BY DEF Required, buildReqs
<1>3. ASSUME NEW e \in depGraph.edge, e = <<t, q, Requirement(p)>> PROVE Reaches(depGraph, q, t)
  <2>1. e[1] = t /\ e[2] = q
    BY <1>3
  <2> QED BY <1>1, <2>1 DEF CycleKept, Closed
<1> QED BY <1>1, <1>2, <1>3 DEF DepInv, EdgesKept, buildReqs

\* When a trove becomes buildable, every trove of the job that it requires has had
\* its turn, or requires it in turn: whatever failed, was delayed or was found a
\* duplicate meanwhile.
THEOREM ProvidersComeFirst == Spec => ProvidersFirst
<1>1. ASSUME DepInv, [Next]_vars
      PROVE  [\A t \in Trove \ PrepOnly : state[t] = "resolving" /\ state'[t] = "buildable" =>
                 \A q \in Required(t) : Settled(q) \/ Reaches(depGraph, q, t)]_vars
  BY <1>1, ResolvingReady DEF Resolving
<1> QED BY <1>1, InvHolds, PTL DEF Spec, ProvidersFirst

-----------------------------------------------------------------------------
(* When nothing is left to try.                                            *)

LEMMA NotStuck ==
    ASSUME DepInv, Stalled, DOMAIN resolving = {},
           ~\E t \in Trove : ~Finished(t) /\ (HasHardDependency(t) \/ t \in cycleChecked),
           ~\E d \in duplicates : d[2] \in depGraph.node
    PROVE  FALSE
<1>1. PICK U : U = {t \in depGraph.node : ~Finished(t)}
  OBVIOUS
<1>2. depGraph.node \in SUBSET (Trove \ Special) /\ Types
  BY GraphKept DEF DepInv
<1>3. ASSUME NEW t \in Trove, ~Finished(t) PROVE t \in U /\ state[t] \in Unresolved
  <2>1. state[t] \in State /\ state[t] \notin Final
    BY <1>2, <1>3 DEF Types, TypeOK, Finished
  <2>2. state[t] \notin {"resolving", "buildable", "waiting", "building"}
    BY <1>2 DEF Stalled, CommandOut, Types
  <2>3. state[t] \in Unresolved
    BY <2>1, <2>2 DEF State
  <2>4. t \notin Special
    <3>1. t \in Special => state[t] = "init"
      BY <1>2, <2>3 DEF Types, Unresolved
    <3> QED BY <3>1 DEF Stalled, CommandOut
  <2>5. t \in depGraph.node
    BY <1>3, <2>4 DEF DepInv, InGraph, Settled
  <2> QED BY <1>1, <1>3, <2>3, <2>5
<1>4. U # {}
  BY <1>3 DEF Stalled, MoreToDo
<1>5. U \in SUBSET depGraph.node /\ IsFiniteSet(U)
  <2>1. U \subseteq Trove
    BY <1>1, <1>2
  <2> QED BY <1>1, <2>1, FS_Subset, DepHandlerAssumption
<1>6. Closed(depGraph, U)
  <2> SUFFICES ASSUME NEW e \in depGraph.edge, e[1] \in U, e[2] \notin U PROVE FALSE
    BY DEF Closed
  <2>1. e[1] \in Trove /\ e[2] \in depGraph.node /\ Finished(e[2]) /\ ~Finished(e[1])
    BY <1>1, <1>2, GraphKept
  <2>2. Settled(e[2])
    BY <2>1 DEF Settled
  <2>3. PICK h \in hardDep : h = <<e[1], e[2]>>
    BY <2>2 DEF DepInv, Edges
  <2>4. HasHardDependency(e[1])
    BY <2>3 DEF HasHardDependency
  <2> QED BY <2>1, <2>4
<1>7. PICK C \in LeafCycles(depGraph) : C \subseteq U
  BY <1>4, <1>5, <1>6, LeafExists
<1>8. PICK x : x \in C
  <2>1. C \in Components(depGraph)
    BY LeafClosed
  <2>2. PICK y \in depGraph.node :
           C = {u \in depGraph.node : Reaches(depGraph, y, u) /\ Reaches(depGraph, u, y)}
    BY <2>1 DEF Components
  <2> QED BY <2>2, ReachesItself
<1>9. \A u \in C : u \in Trove /\ state[u] \in Unresolved /\ u \notin cycleChecked /\ ~HasHardDependency(u)
  BY <1>1, <1>2, <1>3, <1>7
<1>10. ~NothingTried
  <2>1. Cardinality(DOMAIN resolving) = 0
    BY FS_EmptySet
  <2>2. ~ResolveLimit
    BY <2>1, DepHandlerAssumption DEF ResolveLimit
  <2> QED BY <1>4, <1>5, <2>2 DEF NothingTried
<1>11. ResolveJobs = {} /\ delayed = {}
  BY <1>10 DEF Stalled
<1>12. Resolvable(C) = C
  BY <1>9, <1>11 DEF Resolvable
<1>13. PICK t \in C : \A u \in C : state[u] = "prebuilt" => state[t] = "prebuilt"
  BY <1>8
<1>14. MayChoose(t, C)
  BY <1>12, <1>13 DEF MayChoose
<1>15. PICK r : r = <<t, C>>
  OBVIOUS
<1>16. r \in ResolveJobs
  BY <1>7, <1>9, <1>13, <1>14, <1>15 DEF ResolveJobs
<1> QED BY <1>11, <1>16

\* The builder waits for nothing only if a failed resolution is still counted as under
\* way, a hard dependency or a trial to break a cycle is left over on an unfinished
\* trove, or a duplicate whose match never came is still in the graph.
THEOREM StallsOnlyByLeftovers == Spec => []StalledOnlyByLeftovers
<1>1. DepInv => StalledOnlyByLeftovers
  BY NotStuck DEF StalledOnlyByLeftovers
<1> QED BY <1>1, InvHolds, PTL

-----------------------------------------------------------------------------
(* Old binaries.                                                           *)

\* What ReuseIsCurrent says of a trove that is reused.
Counted(t) == IF job.policy = "none" THEN job.old[t].installed ELSE buildReqs[t]

Current(t) ==
    \A p \in Counted(t) :
        /\ ~OnlyFresh(t, p)
        /\ \A q \in Accepted(t, p) : Finished(q) \/ Reaches(depGraph, q, t)

Asked(t) ==
    /\ t \in Trove \ PrepOnly /\ t \in DOMAIN job.old
    /\ job.primary = {} /\ job.policy \in {"none", "external"}

\* Nobody is found whom the resolution of t should wait for: the packages P are all
\* built, or are built by troves that wait for t.
LEMMA NothingToAwait ==
    ASSUME DepInv, NEW t \in Trove, NEW P \in SUBSET Package, NEW W \in NewDeps(t, P), W = {},
           NEW C, t \in C, C \in SUBSET depGraph.node, Closed(depGraph, C),
           \A u \in C : Reaches(depGraph, u, t),
           NEW p \in P, NEW q \in Accepted(t, p)
    PROVE  Finished(q) \/ Reaches(depGraph, q, t)
<1>1. Awaitable(t, p) = {}
  BY DEF NewDeps
<1>2. Finished(q) \/ Related(depGraph, t, q)
  BY <1>1 DEF Awaitable
<1>3. Reaches(depGraph, t, q) => q \in C
  BY ClosedHas
<1> QED BY <1>2, <1>3 DEF Related

\* A trove that is spared a resolution waits for nobody, as one of its cycle.
LEMMA SparedCurrent ==
    ASSUME DepInv, NEW t, NEW C, Asked(t), Candidate(t, C), Spared(t)
    PROVE  Current(t)
<1>1. Fresh = {} /\ job.policy = "external" /\ Counted(t) = job.reqs[t] /\ state[t] = "prebuilt"
  BY DEF Asked, Spared, Counted, buildReqs
<1>2. /\ t \in C /\ Closed(depGraph, C) /\ t \notin Special /\ Live(t)
      /\ \A u \in C : Reaches(depGraph, u, t)
  BY <1>1, CandidateCycle DEF Candidate, Live, Unresolved
<1>3. ASSUME NEW p \in job.reqs[t], NEW q \in Accepted(t, p)
      PROVE  Finished(q) \/ Reaches(depGraph, q, t)
  <2>1. ASSUME NEW e \in depGraph.edge, e = <<t, q, Requirement(p)>> PROVE q \in C
    <3>1. e[1] = t /\ e[2] = q
      BY <2>1
    <3> QED BY <1>2, <3>1 DEF Closed
  <2>2. <<t, q, Requirement(p)>> \in depGraph.edge \/ Settled(q)
    BY <1>2 DEF DepInv, EdgesKept, buildReqs, Asked
  <2> QED BY <1>2, <2>1, <2>2 DEF Settled
<1>4. \A p \in job.reqs[t] : ~OnlyFresh(t, p)
  BY <1>1 DEF OnlyFresh
<1> QED BY <1>1, <1>3, <1>4 DEF Current

\* So does one that is reused at once.
LEMMA QuickCurrent ==
    ASSUME DepInv, NEW t, NEW C, Asked(t), Candidate(t, C), Quick(t),
           {} \in NewDeps(t, job.old[t].installed)
    PROVE  Current(t)
<1>1. state[t] = "prebuilt" /\ job.old[t].source /\ fastResolution /\ t \in Trove
  BY DEF Quick, Asked
<1>2. job.old[t].installed \in SUBSET Package /\ Counted(t) \subseteq job.old[t].installed
  BY <1>1, PrebuiltOld DEF Counted, buildReqs
<1>3. /\ t \in C /\ C \in SUBSET depGraph.node /\ Closed(depGraph, C)
      /\ \A u \in C : Reaches(depGraph, u, t)
  BY CandidateCycle DEF Candidate
<1>4. PICK W, P : W = {} /\ P = job.old[t].installed
  OBVIOUS
<1>5. W \in NewDeps(t, P) /\ P \in SUBSET Package
  BY <1>2, <1>4
<1>6. \A p \in P : \A q \in Accepted(t, p) : Finished(q) \/ Reaches(depGraph, q, t)
  BY <1>1, <1>3, <1>4, <1>5, NothingToAwait
<1>7. ASSUME NEW p \in P PROVE ~OnlyFresh(t, p)
  <2>1. Accepted(t, p) \subseteq Trove \ Special
    BY <1>5, ProvidersBuilt
  <2>2. \A q \in Trove \ Special : state[q] # "built"
    BY <1>1 DEF DepInv, FastOnly, Unresolved, Failure
  <2> QED BY <2>1, <2>2 DEF OnlyFresh, Fresh
<1> QED BY <1>2, <1>4, <1>6, <1>7 DEF Current

\* And one that was resolved and found to be what it was.
LEMMA ResolvedCurrent ==
    ASSUME DepInv, NEW t, Asked(t), Resolving(t), NEW P \in SUBSET Package,
           {} \in NewDeps(t, P), NEW U \in Used(t, P), buildReqs[t] \subseteq P,
           OldWillDo(t, U) \/ MaySame(t, P, U)
    PROVE  Current(t)
<1>1. t \in Trove /\ CycleKept(t) /\ U \cap Fresh = {}
  BY DEF Asked, DepInv, Cycles, Resolving, OldWillDo, MaySame
<1>2. Counted(t) \subseteq P
  BY DEF Asked, Counted, OldWillDo, OnlyJobCounts, MaySame
<1>3. PICK W : W = {}
  OBVIOUS
<1>4. ASSUME NEW p \in P, NEW q \in Accepted(t, p)
      PROVE  Finished(q) \/ Reaches(depGraph, q, t)
  <2>1. CASE resolving[t] # {}
    <3>1. PICK C : C = resolving[t]
      OBVIOUS
    <3>2. /\ t \in C /\ C \in SUBSET depGraph.node /\ Closed(depGraph, C)
          /\ \A u \in C : Reaches(depGraph, u, t)
      BY <1>1, <2>1, <3>1 DEF CycleKept
    <3>3. W \in NewDeps(t, P)
      BY <1>3
    <3> QED BY <1>1, <1>3, <1>4, <3>2, <3>3, NothingToAwait
  <2>2. CASE resolving[t] = {}
    <3>1. Awaitable(t, p) = {}
      BY DEF NewDeps
    <3>2. Finished(q) \/ Related(depGraph, t, q)
      BY <3>1 DEF Awaitable
    <3>3. q # t
      BY <1>4, ProvidersBuilt
    <3>4. ~Reaches(depGraph, t, q)
      BY <1>1, <2>2, <3>3, ReachesByAnEdge DEF CycleKept
    <3> QED BY <3>2, <3>4 DEF Related
  <2> QED BY <2>1, <2>2
<1>5. ASSUME NEW p \in P PROVE ~OnlyFresh(t, p)
  <2>1. U \subseteq MadeHere /\ (Accepted(t, p) \cap MadeHere # {} => Accepted(t, p) \cap U # {})
    BY DEF Used
  <2> QED BY <1>1, <2>1 DEF OnlyFresh
<1> QED BY <1>2, <1>4, <1>5 DEF Current

\* A trove is reused by nothing but a decision to reuse it.
LEMMA FailReuses ==
    ASSUME NEW t \in Trove, NEW F, NEW s, NEW g, NEW d, Fail(F, s, g, d), state'[t] = "reused"
    PROVE  s[t] = "reused"
  BY DEF Fail, StateAfter

LEMMA BuiltReuses ==
    ASSUME NEW t \in Trove, NEW T0, NEW s, Built(T0, s), state'[t] = "reused"
    PROVE  s[t] = "reused"
<1>1. PICK D, g, d : Duplicated(D, s, g, d)
  BY DEF Built
<1>2. \E F, h : Fail(F, s, h, d)
  BY <1>1 DEF Duplicated
<1> QED BY <1>2, FailReuses

LEMMA ReuseReuses ==
    ASSUME NEW t \in Trove, NEW R, NEW s, Reuse(R, s), state'[t] = "reused", s[t] # "reused"
    PROVE  \E r \in R : r[1] = t
<1>1. R # {}
  BY DEF Reuse
<1>2. PICK T0, s1 : /\ s1 = [u \in Trove |-> IF \E r \in R : r[1] = u THEN "reused" ELSE s[u]]
                    /\ Built(T0, s1)
  BY <1>1 DEF Reuse
<1>3. s1[t] = "reused"
  BY <1>2, BuiltReuses
<1> QED BY <1>2, <1>3

Reused(t) == state[t] # "reused" /\ state'[t] = "reused"

LEMMA StartReuses ==
    ASSUME DepInv, NEW t \in Trove, Reused(t), NEW u, NEW C, NEW R, StartResolve(u, C, R)
    PROVE  \E r \in R : r[1] = t
<1>1. PICK s : s = [state EXCEPT ![u] = "resolving"]
  OBVIOUS
<1>2. Reuse(R, s)
  BY <1>1 DEF StartResolve
<1>3. s[t] # "reused"
  BY <1>1 DEF Reused, DepInv, Types, TypeOK
<1> QED BY <1>2, <1>3, ReuseReuses DEF Reused

LEMMA TurnCurrent ==
    ASSUME DepInv, NEW t, Asked(t), Reused(t), Turn
    PROVE  Current(t)
<1>1. t \in Trove /\ state[t] # "reused" /\ state'[t] = "reused" /\ Types
  BY DEF Asked, Reused, DepInv
<1>2. ASSUME NEW C \in FastLeaves, NEW u \in C, ~NothingTried, Fast, ResolveFast(u, C)
      PROVE  Current(t)
  <2>0. Candidate(u, C)
    BY <1>2, FastFree
  <2>1. PICK R : R = {<<u, C>>}
    OBVIOUS
  <2>2. \A r \in R : r[1] = u
    BY <2>1
  <2>3. Reuse({<<u, C>>}, state) => u = t
    BY <1>1, <2>1, <2>2, ReuseReuses
  <2>4. CASE Spared(u) /\ Reuse({<<u, C>>}, state)
    BY <2>0, <2>3, <2>4, SparedCurrent
  <2>5. ASSUME Quick(u), NEW W \in NewDeps(u, job.old[u].installed),
               IF W = {} THEN Reuse({<<u, C>>}, state) ELSE state' = state
        PROVE  Current(t)
    <3>1. W = {} /\ u = t
      BY <1>1, <2>3, <2>5
    <3> QED BY <2>0, <2>5, <3>1, QuickCurrent
  <2>6. CASE StartResolve(u, C, {})
    BY <1>1, <2>6, StartReuses
  <2> QED BY <1>2, <2>4, <2>5, <2>6 DEF ResolveFast
<1>3. ASSUME ResolveNext PROVE Current(t)
  <2>1. PICK R \in SUBSET {r \in ResolveJobs : Spared(r[1])} :
           \/ \E r \in ResolveJobs : StartResolve(r[1], r[2], R)
           \/ Fail(delayed, state, depGraph, delayed)
           \/ Reuse(R, state)
    BY <1>3 DEF ResolveNext
  <2>2. ASSUME NEW r \in R, r[1] = t PROVE Current(t)
    <3>1. Candidate(t, r[2]) /\ Spared(t)
      BY <2>2, ResolveJobsFree
    <3> QED BY <3>1, SparedCurrent
  <2>3. CASE \E r \in ResolveJobs : StartResolve(r[1], r[2], R)
    BY <1>1, <2>2, <2>3, StartReuses
  <2>4. CASE Fail(delayed, state, depGraph, delayed)
    BY <1>1, <2>4, FailReuses
  <2>5. CASE Reuse(R, state)
    BY <1>1, <2>2, <2>5, ReuseReuses
  <2> QED BY <2>1, <2>3, <2>4, <2>5
<1>4. CASE ResolveIfReady
  BY <1>1, <1>2, <1>3, <1>4 DEF ResolveIfReady
<1>5. ASSUME NEW u \in Trove, TurnBuild(u) \/ TurnSpecial(u) PROVE FALSE
  BY <1>1, <1>5 DEF TurnBuild, TurnSpecial, Types, TypeOK
<1> QED BY <1>4, <1>5 DEF Turn, TurnAfterEvent, TurnResolve

LEMMA AnswerCurrent ==
    ASSUME DepInv, NEW t, Asked(t), Reused(t), NEW u \in Trove, Answer(u)
    PROVE  Current(t)
<1>1. /\ t \in Trove /\ state[t] # "reused" /\ state'[t] = "reused" /\ Types
      /\ state \in [Trove -> State]
  BY DEF Asked, Reused, DepInv, Types, TypeOK
<1>2. ASSUME NEW x, x # "reused", NEW T0, Built(T0, [state EXCEPT ![u] = x]) PROVE FALSE
  <2>1. PICK s : s = [state EXCEPT ![u] = x]
    OBVIOUS
  <2>2. s[t] # "reused"
    BY <1>1, <1>2, <2>1
  <2> QED BY <1>1, <1>2, <2>1, <2>2, BuiltReuses
<1>3. CASE Resolved(u)
  <2>1. Resolving(u)
    BY <1>3 DEF Resolved, Resolving
  <2>2. PICK P \in SUBSET Package : \E W \in NewDeps(u, P), U \in Used(u, P) :
           /\ buildReqs[u] \subseteq P
           /\ \/ ResolvedButDelayed(u, P, W)
              \/ W = {} /\ (ResolvedUnbuilt(u, P, U) \/ ResolvedBuildable(u, U))
    BY <1>3 DEF Resolved
  <2>3. PICK W \in NewDeps(u, P), U \in Used(u, P) :
           /\ buildReqs[u] \subseteq P
           /\ \/ ResolvedButDelayed(u, P, W)
              \/ W = {} /\ (ResolvedUnbuilt(u, P, U) \/ ResolvedBuildable(u, U))
    BY <2>2
  <2>4. ~ResolvedButDelayed(u, P, W) /\ ~ResolvedBuildable(u, U)
    BY <1>1 DEF ResolvedButDelayed, ResolvedBuildable
  <2>5. W = {} /\ ResolvedUnbuilt(u, P, U)
    BY <2>3, <2>4
  <2>6. OldWillDo(u, U) \/ MaySame(u, P, U)
    BY <1>2, <2>5 DEF ResolvedUnbuilt
  <2>7. u = t
    <3>1. PICK s : s = [state EXCEPT ![u] = "reused"]
      OBVIOUS
    <3>2. Built({u}, s) \/ LeaveOut(u, U)
      BY <2>5, <3>1 DEF ResolvedUnbuilt
    <3>3. ~LeaveOut(u, U)
      BY DEF LeaveOut, Asked
    <3>4. s[t] = "reused"
      BY <1>1, <3>2, <3>3, BuiltReuses
    <3> QED BY <1>1, <3>1, <3>4
  <2> QED BY <2>1, <2>3, <2>5, <2>6, <2>7, ResolvedCurrent
<1>4. ASSUME NEW R, MissingBuildReqs(u, R) PROVE FALSE
  <2>1. ~Fail({u}, state, depGraph, delayed)
    BY <1>1, FailReuses
  <2> QED BY <1>1, <1>4, <2>1 DEF MissingBuildReqs
<1>5. ASSUME NEW D, MissingDep(u, D) PROVE FALSE
  <2>1. \A g : ~Fail({u}, state, g, delayed)
    BY <1>1, FailReuses
  <2> QED BY <1>1, <1>5, <2>1 DEF MissingDep
<1>6. ~ResolveFailed(u) /\ ~BuildFailed(u)
  BY <1>1, FailReuses DEF ResolveFailed, BuildFailed
<1>7. ~BuildStarted(u) /\ ~Prepared(u) /\ ~UnpackingRaises(u)
  BY <1>1 DEF BuildStarted, Prepared, UnpackingRaises
<1>8. ~BuildSucceeded(u)
  BY <1>2 DEF BuildSucceeded
<1>9. ~BuildDuplicate(u)
  <2> SUFFICES ASSUME BuildDuplicate(u) PROVE FALSE
    OBVIOUS
  <2>1. PICK s : s = [state EXCEPT ![u] = "duplicate"]
    OBVIOUS
  <2>2. PICK D : Duplicated(D, s, depGraph, delayed)
    BY <2>1 DEF BuildDuplicate
  <2>3. \E F, g : Fail(F, s, g, delayed)
    BY <2>2 DEF Duplicated
  <2>4. s[t] # "reused"
    BY <1>1, <2>1
  <2> QED BY <1>1, <2>3, <2>4, FailReuses
<1> QED BY <1>3, <1>4, <1>5, <1>6, <1>7, <1>8, <1>9 DEF Answer, AnswerHandled

\* Old binaries are reused only for what was built with nothing that this job has built
\* anew or is yet to build, but for a cycle broken here.
THEOREM OnlyCurrentIsReused == Spec => ReuseIsCurrent
<1>1. ASSUME DepInv, Next, NEW t \in DOMAIN job.old \ PrepOnly, state[t] # "reused",
             state'[t] = "reused", job.primary = {}, job.policy # "all"
      PROVE  Current(t)
  <2>1. IsJob(job)
    BY <1>1, DepHandlerAssumption DEF DepInv, Types, TypeOK
  <2>2. Asked(t) /\ Reused(t)
    BY <1>1, <2>1 DEF Asked, Reused, IsJob, Policy
  <2> QED BY <1>1, <2>2, TurnCurrent, AnswerCurrent DEF Next
<1>2. ASSUME DepInv, [Next]_vars
      PROVE  [\A t \in DOMAIN job.old \ PrepOnly :
                 /\ state[t] # "reused" /\ state'[t] = "reused"
                 /\ job.primary = {} /\ job.policy # "all"
                 => \A p \in IF job.policy = "none" THEN job.old[t].installed ELSE buildReqs[t] :
                       /\ ~OnlyFresh(t, p)
                       /\ \A q \in Accepted(t, p) : Finished(q) \/ Reaches(depGraph, q, t)]_vars
  BY <1>1, <1>2 DEF Current, Counted
<1> QED BY <1>2, InvHolds, PTL DEF Spec, ReuseIsCurrent
=============================================================================
