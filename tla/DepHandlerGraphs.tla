--------------------------- MODULE DepHandlerGraphs ---------------------------
(***************************************************************************)
(* What holds of the operators on graphs that DepHandler is built from,    *)
(* whatever the graph: of reaching, of the strongly connected components   *)
(* that no edge leaves, and of the walk from failed troves to those that   *)
(* require them.                                                           *)
(*                                                                         *)
(* Reaching is defined without paths, by the closed sets: t is reached     *)
(* from s if every closed set with s has t.  So each fact about it comes   *)
(* from exhibiting one closed set.                                         *)
(***************************************************************************)
EXTENDS DepHandler, FiniteSetTheorems, WellFoundedInduction, TLAPS

-----------------------------------------------------------------------------
(* Reaching.                                                               *)

LEMMA ReachesItself == ASSUME NEW g, NEW s PROVE Reaches(g, s, s)
  BY DEF Reaches

\* A closed set has whatever it reaches.
LEMMA ClosedHas ==
    ASSUME NEW g, NEW C \in SUBSET g.node, Closed(g, C), NEW s \in C, NEW t, Reaches(g, s, t)
    PROVE  t \in C
<1> SUFFICES ASSUME t \notin C PROVE FALSE
  OBVIOUS
<1>1. C \ {s} \in SUBSET (g.node \ {s, t}) /\ (C \ {s}) \cup {s} = C
  OBVIOUS
<1> QED BY <1>1 DEF Reaches

\* What is reached and its successors are reached.
LEMMA ReachesOn ==
    ASSUME NEW g, NEW s, NEW t, Reaches(g, s, t), NEW e \in g.edge, e[1] = t
    PROVE  Reaches(g, s, e[2])
<1> SUFFICES ASSUME s # e[2], NEW S \in SUBSET (g.node \ {s, e[2]}), Closed(g, S \cup {s})
             PROVE  FALSE
  BY DEF Reaches
<1>1. t \notin S \cup {s}
  BY DEF Closed
<1>2. S \in SUBSET (g.node \ {s, t})
  BY <1>1
<1> QED BY <1>1, <1>2 DEF Reaches

LEMMA ReachesThrough ==
    ASSUME NEW g, NEW s \in g.node, NEW t, NEW u, Reaches(g, s, t), Reaches(g, t, u)
    PROVE  Reaches(g, s, u)
<1> SUFFICES ASSUME s # u, NEW S \in SUBSET (g.node \ {s, u}), Closed(g, S \cup {s})
             PROVE  FALSE
  BY DEF Reaches
<1>1. S \cup {s} \in SUBSET g.node
  OBVIOUS
<1>2. t \in S \cup {s}
  BY <1>1, ClosedHas
<1>3. u \in S \cup {s}
  BY <1>1, <1>2, ClosedHas
<1> QED BY <1>3

\* Who reaches another has an edge to go by.
LEMMA ReachesByAnEdge ==
    ASSUME NEW g, NEW s, NEW t, Reaches(g, s, t), s # t
    PROVE  \E e \in g.edge : e[1] = s
<1>1. ~Closed(g, {} \cup {s})
  BY DEF Reaches
<1> QED BY <1>1 DEF Closed

\* What is reached within a closed set is still reached when only edges that leave
\* other nodes have changed.
LEMMA ReachesStill ==
    ASSUME NEW g, NEW h, NEW C \in SUBSET g.node, Closed(g, C),
           \A e \in g.edge : e[1] \in C => e \in h.edge,
           NEW s \in C, NEW t \in C, Reaches(g, s, t)
    PROVE  Reaches(h, s, t)
<1> SUFFICES ASSUME s # t, NEW S \in SUBSET (h.node \ {s, t}), Closed(h, S \cup {s})
             PROVE  FALSE
  BY DEF Reaches
<1>1. (S \cap C) \in SUBSET (g.node \ {s, t})
  OBVIOUS
<1>2. Closed(g, (S \cap C) \cup {s})
  BY DEF Closed
<1> QED BY <1>1, <1>2 DEF Reaches

-----------------------------------------------------------------------------
(* Cycles that nothing leaves.                                             *)

LEMMA ComponentConnected ==
    ASSUME NEW g, NEW C \in Components(g), NEW s \in C, NEW t \in C
    PROVE  s \in g.node /\ Reaches(g, s, t)
<1>1. PICK x \in g.node : C = {u \in g.node : Reaches(g, x, u) /\ Reaches(g, u, x)}
  BY DEF Components
<1>2. s \in g.node /\ Reaches(g, s, x) /\ Reaches(g, x, t)
  BY <1>1
<1> QED BY <1>2, ReachesThrough

LEMMA LeafClosed ==
    ASSUME NEW g, NEW C \in LeafCycles(g)
    PROVE  /\ C \in Components(g) /\ C \in SUBSET g.node /\ Closed(g, C)
           /\ \A s, t \in C : Reaches(g, s, t)
<1>1. C \in Components(g) /\ Closed(g, C)
  BY DEF LeafCycles
<1> QED BY <1>1, ComponentConnected

LEMMA LeavesApart ==
    ASSUME NEW g, NEW C \in LeafCycles(g), NEW D \in LeafCycles(g), C # D
    PROVE  C \cap D = {}
<1> SUFFICES ASSUME NEW x \in C, x \in D PROVE C = D
  OBVIOUS
<1>1. \A y \in C : y \in D
  BY LeafClosed, ClosedHas
<1>2. \A y \in D : y \in C
  BY LeafClosed, ClosedHas
<1> QED BY <1>1, <1>2

\* Every closed set of finitely many nodes has such a cycle in it.
SmallClosed(g, U) == {S \in SUBSET U : S # {} /\ Closed(g, S)}

LEMMA LeafExists ==
    ASSUME NEW g, NEW U \in SUBSET g.node, IsFiniteSet(U), U # {}, Closed(g, U)
    PROVE  \E C \in LeafCycles(g) : C \subseteq U
<1>1. SmallClosed(g, U) \subseteq FiniteSubsetsOf(U) /\ U \in SmallClosed(g, U)
  BY FS_Subset DEF SmallClosed, FiniteSubsetsOf
<1>2. PICK M \in SmallClosed(g, U) :
        \A S \in SmallClosed(g, U) : <<S, M>> \notin StrictSubsetOrdering(U)
  BY <1>1, FS_StrictSubsetOrderingWellFounded, WFMin
<1>3. ASSUME NEW S \in SUBSET M, S # {}, Closed(g, S) PROVE S = M
  BY <1>2, <1>3 DEF SmallClosed, StrictSubsetOrdering
<1>4. M \in SUBSET g.node /\ M # {} /\ Closed(g, M)
  BY <1>2 DEF SmallClosed
<1>5. ASSUME NEW x \in M, NEW y \in M PROVE Reaches(g, x, y)
  <2> SUFFICES ASSUME x # y, NEW S \in SUBSET (g.node \ {x, y}), Closed(g, S \cup {x})
               PROVE  FALSE
    BY DEF Reaches
  <2>1. Closed(g, (S \cup {x}) \cap M)
    BY <1>4 DEF Closed
  <2>2. (S \cup {x}) \cap M = M
    BY <1>3, <2>1
  <2> QED BY <2>2
<1>6. PICK x \in M : TRUE
  BY <1>4
<1>7. M = {u \in g.node : Reaches(g, x, u) /\ Reaches(g, u, x)}
  <2>1. \A u \in M : u \in g.node /\ Reaches(g, x, u) /\ Reaches(g, u, x)
    BY <1>4, <1>5
  <2>2. \A u : Reaches(g, x, u) => u \in M
    BY <1>4, ClosedHas
  <2> QED BY <2>1, <2>2
<1>8. M \in LeafCycles(g)
  BY <1>4, <1>7 DEF LeafCycles, Components
<1> QED BY <1>2, <1>8 DEF SmallClosed

-----------------------------------------------------------------------------
(* The walk from the troves T that fail.                                   *)

LEMMA DraggedWithin ==
    ASSUME NEW g, NEW T
    PROVE  T \subseteq Dragged(g, T) /\ Dragged(g, T) \subseteq g.node \cup T
  BY DEF Dragged

LEMMA DraggedLeast ==
    ASSUME NEW g, NEW T, NEW S \in SUBSET (g.node \cup T), T \subseteq S, FailureClosed(g, S)
    PROVE  Dragged(g, T) \subseteq S
  BY DEF Dragged

\* It takes every trove of which the last provider has failed, ...
LEMMA DraggedClosed ==
    ASSUME NEW g, NEW T, \A e \in g.edge : e[1] \in g.node
    PROVE  FailureClosed(g, Dragged(g, T))
<1> SUFFICES ASSUME NEW e \in g.edge,
                    \A f \in g.edge : f[1] = e[1] /\ f[3] = e[3] => f[2] \in Dragged(g, T),
                    NEW S \in SUBSET (g.node \cup T), T \subseteq S, FailureClosed(g, S)
             PROVE  e[1] \in S
  BY DEF FailureClosed, Dragged
<1>1. Dragged(g, T) \subseteq S
  BY DraggedLeast
<1> QED BY <1>1 DEF FailureClosed

\* ... none that still waits for nobody, ...
LEMMA DraggedByAnEdge ==
    ASSUME NEW g, NEW T, \A e \in g.edge : e[1] \in g.node, NEW t \in Dragged(g, T), t \notin T
    PROVE  \E e \in g.edge : e[1] = t
<1> DEFINE S == T \cup {u \in Dragged(g, T) : \E e \in g.edge : e[1] = u}
<1>1. S \in SUBSET (g.node \cup T) /\ T \subseteq S /\ S \subseteq Dragged(g, T)
  BY DraggedWithin
<1>2. FailureClosed(g, S)
  <2> SUFFICES ASSUME NEW e \in g.edge,
                      \A f \in g.edge : f[1] = e[1] /\ f[3] = e[3] => f[2] \in S
               PROVE  e[1] \in S
    BY DEF FailureClosed
  <2>1. e[1] \in Dragged(g, T)
    BY <1>1, DraggedClosed DEF FailureClosed
  <2> QED BY <2>1
<1>3. t \in S
  BY <1>1, <1>2, DraggedLeast
<1> QED BY <1>3

\* ... and none of a cycle that nothing leaves.
LEMMA DraggedAvoids ==
    ASSUME NEW g, NEW T, \A e \in g.edge : e[1] \in g.node, NEW C, Closed(g, C), C \cap T = {}
    PROVE  C \cap Dragged(g, T) = {}
<1> DEFINE S == Dragged(g, T) \ C
<1>1. S \in SUBSET (g.node \cup T) /\ T \subseteq S
  BY DraggedWithin
<1>2. FailureClosed(g, S)
  <2> SUFFICES ASSUME NEW e \in g.edge,
                      \A f \in g.edge : f[1] = e[1] /\ f[3] = e[3] => f[2] \in S
               PROVE  e[1] \in S
    BY DEF FailureClosed
  <2>1. e[1] \in Dragged(g, T)
    BY DraggedClosed DEF FailureClosed
  <2>2. e[2] \in S
    OBVIOUS
  <2>3. e[1] \notin C
    BY <2>2 DEF Closed
  <2> QED BY <2>1, <2>3
<1> QED BY <1>1, <1>2, DraggedLeast

LEMMA NothingDragged == ASSUME NEW g PROVE Dragged(g, {}) = {}
<1>1. FailureClosed(g, {})
  BY DEF FailureClosed
<1> QED BY <1>1, DraggedLeast
=============================================================================
