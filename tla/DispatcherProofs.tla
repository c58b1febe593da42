---------------------------- MODULE DispatcherProofs ----------------------------
(* Proofs of the dispatcher's properties for every set of sessions, classes,   *)
(* slots and loads, and every number of commands.  The environment is open:    *)
(* the proofs assume nothing about the nodes, the bus or the builders.         *)
EXTENDS Dispatcher, FiniteSetTheorems, TLAPS

-----------------------------------------------------------------------------
(* Finite sets of commands.                                                   *)

LEMMA MaxElement ==
    ASSUME NEW T, T \subseteq Nat, T # {}, NEW n \in Nat, \A x \in T : x <= n
    PROVE  \E x \in T : \A y \in T : y <= x
<1> DEFINE U == {n - x : x \in T}
<1>1. U \subseteq Nat /\ U # {}
  <2>1. \A x \in T : x \in Nat /\ n - x \in Nat
    OBVIOUS
  <2> QED BY <2>1
<1>2. IsWellFoundedOn(OpToRel(<, Nat), Nat)
  BY NatLessThanWellFounded
<1>3. PICK u \in U : \A v \in U : <<v, u>> \notin OpToRel(<, Nat)
  <2> HIDE DEF U
  <2> QED BY <1>1, <1>2, WFMin
<1>4. PICK x \in T : u = n - x
  OBVIOUS
<1>5. ASSUME NEW y \in T PROVE y <= x
  <2>1. n - y \in U
    OBVIOUS
  <2>2. <<n - y, u>> \notin OpToRel(<, Nat)
    BY <1>3, <2>1
  <2>3. ~(n - y < u)
    BY <1>1, <2>1, <2>2 DEF OpToRel
  <2> QED BY <1>4, <2>3
<1> QED BY <1>5

\* A non-empty finite set of commands with unique identifiers has a newest one,
\* and the others are as many as the set without it.
LEMMA Newest ==
    ASSUME NEW C, IsFiniteSet(C), C # {}, C \subseteq Command,
           NEW n \in Nat, \A c \in C : c.id <= n,
           \A c, d \in C : c.id = d.id => c = d
    PROVE  \E c \in C : Cardinality({d \in C : d.id < c.id}) + 1 = Cardinality(C)
<1> DEFINE T == {c.id : c \in C}
<1>1. T \subseteq Nat /\ T # {} /\ \A x \in T : x <= n
  BY DEF Command
<1>2. PICK x \in T : \A y \in T : y <= x
  <2> HIDE DEF T
  <2> QED BY <1>1, MaxElement
<1>3. PICK c \in C : x = c.id
  OBVIOUS
<1>4. ASSUME NEW d \in C, d # c PROVE d.id < c.id
  <2>1. d.id \in T /\ d.id \in Nat /\ c.id \in Nat
    BY DEF Command
  <2>2. d.id <= c.id
    BY <1>2, <1>3, <2>1
  <2>3. d.id # c.id
    BY <1>4
  <2> QED BY <2>1, <2>2, <2>3
<1> DEFINE older == {d \in C : d.id < c.id}
<1>5. older = C \ {c}
  BY <1>4 DEF Command
<1> HIDE DEF older
<1>6. Cardinality(C \ {c}) = Cardinality(C) - 1
  BY FS_RemoveElement
<1>7. Cardinality(C) \in Nat
  BY FS_CardinalityType
<1>8. Cardinality(older) + 1 = Cardinality(C)
  BY <1>5, <1>6, <1>7
<1> QED BY <1>8 DEF older

\* Adding to a finite set the elements of another that it does not have.
LEMMA DisjointUnion ==
    ASSUME NEW A, NEW B, IsFiniteSet(A), IsFiniteSet(B), A \cap B = {}
    PROVE  /\ IsFiniteSet(A \cup B)
           /\ Cardinality(A \cup B) = Cardinality(A) + Cardinality(B)
           /\ Cardinality(A) \in Nat /\ Cardinality(B) \in Nat
<1>1. Cardinality(A \cap B) = 0
  BY FS_EmptySet
<1>2. Cardinality(A) \in Nat /\ Cardinality(B) \in Nat
  BY FS_CardinalityType
<1>3. /\ IsFiniteSet(A \cup B)
      /\ Cardinality(A \cup B) = Cardinality(A) + Cardinality(B) - Cardinality(A \cap B)
  BY FS_Union
<1> QED BY <1>1, <1>2, <1>3

LEMMA Taken ==
    ASSUME NEW A, NEW B, IsFiniteSet(A), B \subseteq A
    PROVE  /\ IsFiniteSet(A \ B) /\ IsFiniteSet(B)
           /\ Cardinality(A \ B) = Minus(Cardinality(A), Cardinality(B))
           /\ Cardinality(A) \in Nat /\ Cardinality(B) \in Nat
           /\ Cardinality(B) <= Cardinality(A)
<1>1. A \cap B = B
  OBVIOUS
<1>2. IsFiniteSet(B) /\ Cardinality(B) <= Cardinality(A)
  BY FS_Subset
<1>3. IsFiniteSet(A \ B) /\ Cardinality(A \ B) = Cardinality(A) - Cardinality(B)
  BY <1>1, FS_Difference
<1>4. Cardinality(A) \in Nat /\ Cardinality(B) \in Nat
  BY <1>2, FS_CardinalityType
<1> QED BY <1>2, <1>3, <1>4 DEF Minus
-----------------------------------------------------------------------------
(* NodeList's accounts stay consistent.                                        *)

LEMMA ChrootsLaws ==
    ASSUME NEW A, NEW B
    PROVE  /\ ChrootsOf(A) \subseteq A
           /\ ChrootsOf(A) \subseteq WorkOf(A) /\ WorkOf(A) \subseteq A
           /\ ChrootsOf(A \ B) = ChrootsOf(A) \ ChrootsOf(B)
           /\ ChrootsOf(A \cup B) = ChrootsOf(A) \cup ChrootsOf(B)
           /\ WorkOf(A \ B) \subseteq WorkOf(A)
           /\ B \subseteq A => ChrootsOf(B) \subseteq ChrootsOf(A)
           /\ A \cap B = {} => ChrootsOf(A) \cap ChrootsOf(B) = {}
  BY DEF ChrootsOf, WorkOf, RequiresChroot

\* The commands of a smaller set are within the limits of a larger one.
LEMMA Fewer ==
    ASSUME NEW A, NEW B, IsFiniteSet(A), B \subseteq A
    PROVE  /\ Cardinality(WorkOf(B)) <= Cardinality(WorkOf(A))
           /\ Cardinality(ChrootsOf(B)) <= Cardinality(ChrootsOf(A))
           /\ Cardinality(WorkOf(A)) \in Nat /\ Cardinality(ChrootsOf(A)) \in Nat
           /\ Cardinality(WorkOf(B)) \in Nat /\ Cardinality(ChrootsOf(B)) \in Nat
<1>1. WorkOf(B) \subseteq WorkOf(A) /\ WorkOf(A) \subseteq A
  BY DEF WorkOf
<1>2. ChrootsOf(B) \subseteq ChrootsOf(A) /\ ChrootsOf(A) \subseteq A
  BY ChrootsLaws
<1>3. IsFiniteSet(WorkOf(A)) /\ IsFiniteSet(ChrootsOf(A))
  BY <1>1, <1>2, FS_Subset
<1>4. /\ Cardinality(WorkOf(B)) <= Cardinality(WorkOf(A))
      /\ IsFiniteSet(WorkOf(B))
  BY <1>1, <1>3, FS_Subset
<1>5. /\ Cardinality(ChrootsOf(B)) <= Cardinality(ChrootsOf(A))
      /\ IsFiniteSet(ChrootsOf(B))
  BY <1>2, <1>3, FS_Subset
<1> QED BY <1>3, <1>4, <1>5, FS_CardinalityType

\* removeCommand: the slot and the chroot it frees are those of the command.
LEMMA RemoveKeepsAccounts ==
    ASSUME NEW R, IsFiniteSet(R), NEW N, NEW l, NEW C,
           LedgerTypeOK(l, R), Consistent(l, N)
    PROVE  LET m == RemoveCommands(l, C)
           IN  /\ LedgerTypeOK(m, R)
               /\ Consistent(m, N)
               /\ WithinLimits(l) => WithinLimits(m)
               /\ DOMAIN m.owner \subseteq DOMAIN l.owner
<1> DEFINE m == RemoveCommands(l, C)
           gone(s) == C \cap l.assigned[s]
<1>1. ASSUME NEW s \in Session
      PROVE  GivenTo(s, [c \in C \cap DOMAIN l.owner |-> l.owner[c]]) = gone(s)
  BY DEF GivenTo, Consistent
<1>2. /\ m.owner = [c \in DOMAIN l.owner \ C |-> l.owner[c]]
      /\ m.assigned = [s \in Session |-> l.assigned[s] \ gone(s)]
      /\ m.used = [s \in Session |-> Minus(l.used[s], Cardinality(gone(s)))]
      /\ m.chroots = [s \in Session |->
                         Minus(l.chroots[s], Cardinality(ChrootsOf(gone(s))))]
  BY <1>1 DEF RemoveCommands
<1> HIDE DEF m
<1>3. ASSUME NEW s \in Session
      PROVE  /\ m.assigned[s] \subseteq l.assigned[s] /\ IsFiniteSet(l.assigned[s])
             /\ m.assigned[s] \subseteq R
             /\ m.used[s] \in Nat /\ m.used[s] = Cardinality(m.assigned[s])
             /\ m.chroots[s] \in Nat
             /\ m.chroots[s] = Cardinality(ChrootsOf(m.assigned[s]))
  <2>1. l.assigned[s] \subseteq R /\ IsFiniteSet(l.assigned[s])
    BY FS_Subset DEF LedgerTypeOK
  <2>2. /\ Cardinality(l.assigned[s] \ gone(s))
             = Minus(Cardinality(l.assigned[s]), Cardinality(gone(s)))
        /\ IsFiniteSet(l.assigned[s] \ gone(s))
    BY <2>1, Taken
  <2>3. /\ ChrootsOf(l.assigned[s]) \subseteq l.assigned[s]
        /\ ChrootsOf(gone(s)) \subseteq ChrootsOf(l.assigned[s])
        /\ IsFiniteSet(ChrootsOf(l.assigned[s]))
    <3>1. /\ ChrootsOf(l.assigned[s]) \subseteq l.assigned[s]
          /\ ChrootsOf(gone(s)) \subseteq ChrootsOf(l.assigned[s])
      BY DEF ChrootsOf
    <3> QED BY <2>1, <3>1, FS_Subset
  <2>4. /\ Cardinality(ChrootsOf(l.assigned[s]) \ ChrootsOf(gone(s)))
             = Minus(Cardinality(ChrootsOf(l.assigned[s])), Cardinality(ChrootsOf(gone(s))))
        /\ IsFiniteSet(ChrootsOf(l.assigned[s]) \ ChrootsOf(gone(s)))
    BY <2>3, Taken
  <2>5. ChrootsOf(l.assigned[s] \ gone(s)) = ChrootsOf(l.assigned[s]) \ ChrootsOf(gone(s))
    BY DEF ChrootsOf
  <2>6. /\ l.used[s] = Cardinality(l.assigned[s])
        /\ l.chroots[s] = Cardinality(ChrootsOf(l.assigned[s]))
    BY DEF Consistent
  <2>7. /\ m.assigned[s] = l.assigned[s] \ gone(s)
        /\ m.used[s] = Minus(l.used[s], Cardinality(gone(s)))
        /\ m.chroots[s] = Minus(l.chroots[s], Cardinality(ChrootsOf(gone(s))))
    BY <1>2
  <2>8. m.used[s] = Cardinality(m.assigned[s]) /\ m.used[s] \in Nat
    BY <2>2, <2>6, <2>7, FS_CardinalityType
  <2>9. m.chroots[s] = Cardinality(ChrootsOf(m.assigned[s])) /\ m.chroots[s] \in Nat
    BY <2>4, <2>5, <2>6, <2>7, FS_CardinalityType
  <2> QED BY <2>1, <2>7, <2>8, <2>9
<1>4. LedgerTypeOK(m, R)
  <2>1. m.owner \in [DOMAIN m.owner -> Session] /\ DOMAIN m.owner \subseteq R
    BY <1>2 DEF LedgerTypeOK
  <2>2. m.assigned \in [Session -> SUBSET R]
    BY <1>2, <1>3
  <2>3. m.used \in [Session -> Nat] /\ m.chroots \in [Session -> Nat]
    BY <1>2, <1>3
  <2> QED BY <2>1, <2>2, <2>3 DEF LedgerTypeOK
<1>5. Consistent(m, N)
  <2>1. \A s \in Session : m.assigned[s] = {c \in DOMAIN m.owner : m.owner[c] = s}
    BY <1>2 DEF Consistent
  <2>2. \A c \in DOMAIN m.owner : m.owner[c] \in N
    BY <1>2 DEF Consistent
  <2> QED BY <1>3, <2>1, <2>2 DEF Consistent
<1>6. ASSUME WithinLimits(l) PROVE WithinLimits(m)
  <2> SUFFICES ASSUME NEW s \in Session
               PROVE  /\ Cardinality(WorkOf(m.assigned[s])) <= Slots[s]
                      /\ Cardinality(ChrootsOf(m.assigned[s])) <= ChrootLimit[s]
    BY DEF WithinLimits
  <2>1. /\ Cardinality(WorkOf(l.assigned[s])) <= Slots[s]
        /\ Cardinality(ChrootsOf(l.assigned[s])) <= ChrootLimit[s]
    BY <1>6 DEF WithinLimits
  <2>2. Slots[s] \in Nat /\ ChrootLimit[s] \in Nat
    BY DispatcherAssumption
  <2> QED BY <1>3, <2>1, <2>2, Fewer
<1>7. DOMAIN m.owner \subseteq DOMAIN l.owner
  BY <1>2
<1> QED BY <1>4, <1>5, <1>6, <1>7 DEF m

\* NodeList.remove: nothing of the node is left, nothing else is touched.
LEMMA ForgetKeepsAccounts ==
    ASSUME NEW R, IsFiniteSet(R), NEW N, NEW l, NEW s \in Session,
           LedgerTypeOK(l, R), Consistent(l, N)
    PROVE  LET m == ForgetNode(l, s)
           IN  /\ LedgerTypeOK(m, R)
               /\ Consistent(m, N \ {s})
               /\ WithinLimits(l) => WithinLimits(m)
               /\ DOMAIN m.owner \subseteq DOMAIN l.owner
<1> DEFINE m == ForgetNode(l, s)
<1>1. /\ m.owner = [c \in DOMAIN l.owner \ l.assigned[s] |-> l.owner[c]]
      /\ m.assigned = [l.assigned EXCEPT ![s] = {}]
      /\ m.used = [l.used EXCEPT ![s] = 0]
      /\ m.chroots = [l.chroots EXCEPT ![s] = 0]
  BY DEF ForgetNode
<1> HIDE DEF m
<1>2. LedgerTypeOK(m, R)
  BY <1>1 DEF LedgerTypeOK
<1>3. ChrootsOf({}) = {} /\ WorkOf({}) = {} /\ Cardinality({}) = 0
  BY FS_EmptySet DEF ChrootsOf, WorkOf
<1>4. Consistent(m, N \ {s})
  <2>1. \A n \in Session : m.assigned[n] = {c \in DOMAIN m.owner : m.owner[c] = n}
    BY <1>1 DEF Consistent, LedgerTypeOK
  <2>2. \A c \in DOMAIN m.owner : m.owner[c] \in N \ {s}
    BY <1>1 DEF Consistent
  <2>3. ASSUME NEW n \in Session
        PROVE  /\ m.used[n] = Cardinality(m.assigned[n])
               /\ m.chroots[n] = Cardinality(ChrootsOf(m.assigned[n]))
    <3>1. CASE n = s
      <4>1. m.used[n] = 0 /\ m.chroots[n] = 0 /\ m.assigned[n] = {}
        BY <1>1, <3>1 DEF LedgerTypeOK
      <4> QED BY <1>3, <4>1
    <3>2. CASE n # s
      <4>1. /\ m.used[n] = l.used[n] /\ m.chroots[n] = l.chroots[n]
            /\ m.assigned[n] = l.assigned[n]
        BY <1>1, <3>2 DEF LedgerTypeOK
      <4> QED BY <4>1 DEF Consistent
    <3> QED BY <3>1, <3>2
  <2> QED BY <2>1, <2>2, <2>3 DEF Consistent
<1>5. ASSUME WithinLimits(l), NEW n \in Session
      PROVE  /\ Cardinality(WorkOf(m.assigned[n])) <= Slots[n]
             /\ Cardinality(ChrootsOf(m.assigned[n])) <= ChrootLimit[n]
  <2>1. Slots[n] \in Nat /\ ChrootLimit[n] \in Nat
    BY DispatcherAssumption
  <2>2. CASE n = s
    <3>1. m.assigned[n] = {}
      BY <1>1, <2>2 DEF LedgerTypeOK
    <3>2. WorkOf(m.assigned[n]) = {} /\ ChrootsOf(m.assigned[n]) = {}
      BY <1>3, <3>1
    <3> QED BY <1>3, <2>1, <3>2
  <2>3. CASE n # s
    <3>1. m.assigned[n] = l.assigned[n]
      BY <1>1, <2>3 DEF LedgerTypeOK
    <3> QED BY <1>5, <3>1 DEF WithinLimits
  <2> QED BY <2>2, <2>3
<1>6. DOMAIN m.owner \subseteq DOMAIN l.owner
  BY <1>1
<1> QED BY <1>2, <1>4, <1>5, <1>6 DEF m, WithinLimits
-----------------------------------------------------------------------------
(* Assigning commands.                                                         *)

\* What assignCommands adds to the accounts of one node.
AddedTo(s, R, l, asg) ==
    LET m == AssignCommands(l, asg)
        new == GivenTo(s, asg)
    IN  /\ new \subseteq DOMAIN asg /\ IsFiniteSet(new) /\ IsFiniteSet(l.assigned[s])
        /\ m.assigned[s] = l.assigned[s] \cup new
        /\ m.used[s] = l.used[s] + Cardinality(new)
        /\ m.used[s] = Cardinality(m.assigned[s])
        /\ m.chroots[s] = l.chroots[s] + Cardinality(ChrootsOf(new))
        /\ m.chroots[s] = Cardinality(ChrootsOf(m.assigned[s]))
        /\ m.assigned[s] \subseteq R /\ m.used[s] \in Nat /\ m.chroots[s] \in Nat
        /\ Cardinality(new) \in Nat /\ Cardinality(ChrootsOf(new)) \in Nat
        /\ l.used[s] \in Nat /\ l.chroots[s] \in Nat

LEMMA AssignedTo ==
    ASSUME NEW R, IsFiniteSet(R), NEW N, NEW l, NEW Q, Q \subseteq R,
           NEW asg \in [Q -> N \cup {NoNode}], Q \cap DOMAIN l.owner = {},
           LedgerTypeOK(l, R), Consistent(l, N), NEW s \in Session
    PROVE  AddedTo(s, R, l, asg)
<1> DEFINE m == AssignCommands(l, asg)
           new == GivenTo(s, asg)
           old == l.assigned[s]
<1>1. /\ m.assigned[s] = old \cup new
      /\ m.used[s] = l.used[s] + Cardinality(new)
      /\ m.chroots[s] = l.chroots[s] + Cardinality(ChrootsOf(new))
  BY DEF AssignCommands
<1>2. new \subseteq Q /\ old \subseteq R /\ old \subseteq DOMAIN l.owner
  BY DEF GivenTo, LedgerTypeOK, Consistent
<1>3. /\ l.used[s] = Cardinality(old) /\ l.chroots[s] = Cardinality(ChrootsOf(old))
      /\ l.used[s] \in Nat /\ l.chroots[s] \in Nat
  BY DEF Consistent, LedgerTypeOK
<1> HIDE DEF m, new, old
<1>4. IsFiniteSet(new) /\ IsFiniteSet(old) /\ old \cap new = {}
  <2>1. new \subseteq R
    BY <1>2
  <2> QED BY <1>2, <2>1, FS_Subset
<1>5. /\ Cardinality(old \cup new) = Cardinality(old) + Cardinality(new)
      /\ Cardinality(old) \in Nat /\ Cardinality(new) \in Nat
  BY <1>4, DisjointUnion
<1>6. /\ ChrootsOf(old) \subseteq old /\ ChrootsOf(new) \subseteq new
      /\ ChrootsOf(old \cup new) = ChrootsOf(old) \cup ChrootsOf(new)
  BY DEF ChrootsOf
<1>7. IsFiniteSet(ChrootsOf(old)) /\ IsFiniteSet(ChrootsOf(new))
  BY <1>4, <1>6, FS_Subset
<1>8. ChrootsOf(old) \cap ChrootsOf(new) = {}
  BY <1>4, <1>6
<1>9. /\ Cardinality(ChrootsOf(old) \cup ChrootsOf(new))
            = Cardinality(ChrootsOf(old)) + Cardinality(ChrootsOf(new))
      /\ Cardinality(ChrootsOf(old)) \in Nat /\ Cardinality(ChrootsOf(new)) \in Nat
  BY <1>7, <1>8, DisjointUnion
<1>10. m.used[s] = Cardinality(m.assigned[s]) /\ m.used[s] \in Nat
  BY <1>1, <1>3, <1>5
<1>11. m.chroots[s] = Cardinality(ChrootsOf(m.assigned[s])) /\ m.chroots[s] \in Nat
  <2>1. ChrootsOf(m.assigned[s]) = ChrootsOf(old) \cup ChrootsOf(new)
    BY <1>1, <1>6, Zenon
  <2>2. Cardinality(ChrootsOf(m.assigned[s]))
          = Cardinality(ChrootsOf(old)) + Cardinality(ChrootsOf(new))
    BY <1>9, <2>1, Zenon
  <2> QED BY <1>1, <1>3, <1>9, <2>2
<1>12. m.assigned[s] \subseteq R /\ new \subseteq DOMAIN asg
  BY <1>1, <1>2
<1> QED BY <1>1, <1>3, <1>4, <1>5, <1>9, <1>10, <1>11, <1>12 DEF m, new, old, AddedTo

\* What assignCommands leaves of the accounts of all the nodes.
AddedToAll(R, N, l, asg) ==
    LET m == AssignCommands(l, asg)
    IN  /\ LedgerTypeOK(m, R)
        /\ Consistent(m, N)
        /\ DOMAIN m.owner = DOMAIN l.owner \cup {c \in DOMAIN asg : asg[c] # NoNode}

LEMMA AssignKeepsAccounts ==
    ASSUME NEW R, IsFiniteSet(R), NEW N, N \subseteq Session, NEW l,
           NEW Q, Q \subseteq R,
           NEW asg \in [Q -> N \cup {NoNode}], Q \cap DOMAIN l.owner = {},
           LedgerTypeOK(l, R), Consistent(l, N)
    PROVE  AddedToAll(R, N, l, asg)
<1> DEFINE m == AssignCommands(l, asg)
           taken == {c \in Q : asg[c] # NoNode}
<1>1. m.owner = [c \in DOMAIN l.owner \cup taken |->
                    IF c \in taken THEN asg[c] ELSE l.owner[c]]
  BY DEF AssignCommands
<1>2. /\ DOMAIN m.assigned = Session /\ DOMAIN m.used = Session
      /\ DOMAIN m.chroots = Session
      /\ m.assigned = [s \in Session |-> m.assigned[s]]
      /\ m.used = [s \in Session |-> m.used[s]]
      /\ m.chroots = [s \in Session |-> m.chroots[s]]
  BY DEF AssignCommands
<1>3. \A s \in Session :
         /\ m.assigned[s] = l.assigned[s] \cup GivenTo(s, asg)
         /\ m.used[s] = Cardinality(m.assigned[s])
         /\ m.chroots[s] = Cardinality(ChrootsOf(m.assigned[s]))
         /\ m.assigned[s] \in SUBSET R /\ m.used[s] \in Nat /\ m.chroots[s] \in Nat
  <2> TAKE s \in Session
  <2>1. AddedTo(s, R, l, asg)
    BY AssignedTo
  <2> QED BY <2>1 DEF AddedTo
<1> HIDE DEF m
<1>4. LedgerTypeOK(m, R)
  <2>1. m.assigned \in [Session -> SUBSET R] /\ m.used \in [Session -> Nat]
        /\ m.chroots \in [Session -> Nat]
    BY <1>2, <1>3
  <2>2. m.owner \in [DOMAIN m.owner -> Session] /\ DOMAIN m.owner \subseteq R
    BY <1>1 DEF LedgerTypeOK
  <2> QED BY <2>1, <2>2 DEF LedgerTypeOK
<1>5. Consistent(m, N)
  <2>1. ASSUME NEW s \in Session
        PROVE  m.assigned[s] = {c \in DOMAIN m.owner : m.owner[c] = s}
    <3>1. s # NoNode
      BY DispatcherAssumption
    <3>2. l.assigned[s] = {c \in DOMAIN l.owner : l.owner[c] = s}
      BY DEF Consistent
    <3>3. GivenTo(s, asg) = {c \in taken : asg[c] = s}
      BY <3>1 DEF GivenTo
    <3> QED BY <1>1, <1>3, <3>2, <3>3
  <2>2. \A c \in DOMAIN m.owner : m.owner[c] \in N
    BY <1>1 DEF Consistent
  <2> QED BY <1>3, <2>1, <2>2 DEF Consistent
<1> QED BY <1>1, <1>4, <1>5 DEF m, AddedToAll

\* Of the commands C that the loop gives to s, the newest saw all the others
\* counted: if it could still be taken, there is room for the whole of C.
LEMMA RoomForNewest ==
    ASSUME NEW C, IsFiniteSet(C), C # {}, C \subseteq Command,
           NEW n \in Nat, \A c \in C : c.id <= n,
           \A c, d \in C : c.id = d.id => c = d,
           NEW u \in Nat, NEW limit \in Nat,
           \A c \in C : u + Cardinality({d \in C : d.id < c.id}) < limit
    PROVE  u + Cardinality(C) <= limit
<1>1. PICK c \in C : Cardinality({d \in C : d.id < c.id}) + 1 = Cardinality(C)
  BY Newest
<1> DEFINE older == Cardinality({d \in C : d.id < c.id})
<1>2. u + older < limit
  OBVIOUS
<1>3. older \in Nat
  <2>1. {d \in C : d.id < c.id} \subseteq C
    OBVIOUS
  <2> QED BY <2>1, FS_Subset, FS_CardinalityType
<1>4. older + 1 = Cardinality(C)
  BY <1>1
<1> HIDE DEF older
<1> QED BY <1>2, <1>3, <1>4
\* The identifiers of the commands of R are unique and at most n.
Numbered(R, n) ==
    /\ R \subseteq Command
    /\ \A c \in R : c.id <= n
    /\ \A c, d \in R : c.id = d.id => c = d

\* A command that the loop gives to s could be taken by s at that point.
LEMMA GivenCouldBeTaken ==
    ASSUME NEW Q, NEW l, NEW A, A \subseteq Session, NEW ld,
           NEW asg \in Assignments(Q, l, A, ld),
           NEW s \in Session, NEW c \in GivenTo(s, asg)
    PROVE  CanTake(c, s, UsedAt(c, s, l, asg), ChrootsAt(c, s, l, asg), A, ld)
<1>1. asg \in [Q -> A \cup {NoNode}] /\ c \in Q /\ asg[c] = s /\ s # NoNode
  BY DispatcherAssumption DEF Assignments, GivenTo
<1> DEFINE candidates == {t \in A : CanTake(c, t, UsedAt(c, t, l, asg),
                                             ChrootsAt(c, t, l, asg), A, ld)}
<1>2. candidates # {} /\ asg[c] \in candidates
  BY <1>1 DEF Assignments
<1> QED BY <1>1, <1>2

\* A command that the loop leaves in the queue could not be taken at that point.
LEMMA LeftCouldNotBeTaken ==
    ASSUME NEW Q, NEW l, NEW A, A \subseteq Session, NEW ld,
           NEW asg \in Assignments(Q, l, A, ld),
           NEW c \in Q, asg[c] = NoNode, NEW s \in A
    PROVE  ~CanTake(c, s, UsedAt(c, s, l, asg), ChrootsAt(c, s, l, asg), A, ld)
<1> DEFINE candidates == {t \in A : CanTake(c, t, UsedAt(c, t, l, asg),
                                             ChrootsAt(c, t, l, asg), A, ld)}
<1>1. NoNode \notin candidates
  BY DispatcherAssumption
<1>2. candidates = {}
  BY <1>1 DEF Assignments
<1> QED BY <1>2

\* What is taken grows along the loop, up to what the accounts say after it.
LEMMA UsedGrows ==
    ASSUME NEW R, NEW l, NEW asg, NEW s, AddedTo(s, R, l, asg),
           NEW c, NEW d, c.id \in Nat, d.id \in Nat, DOMAIN asg \subseteq Command
    PROVE  LET m == AssignCommands(l, asg)
           IN  /\ UsedAt(c, s, l, asg) \in Nat /\ ChrootsAt(c, s, l, asg) \in Nat
               /\ UsedAt(c, s, l, asg) <= m.used[s]
               /\ ChrootsAt(c, s, l, asg) <= m.chroots[s]
               /\ c.id < d.id => /\ UsedAt(c, s, l, asg) <= UsedAt(d, s, l, asg)
                                 /\ ChrootsAt(c, s, l, asg) <= ChrootsAt(d, s, l, asg)
<1> DEFINE new == GivenTo(s, asg)
           older(e) == {x \in new : x.id < e.id}
           olderCh(e) == {x \in ChrootsOf(new) : x.id < e.id}
<1>1. IsFiniteSet(new) /\ new \subseteq DOMAIN asg /\ l.used[s] \in Nat /\ l.chroots[s] \in Nat
      /\ Cardinality(new) \in Nat /\ Cardinality(ChrootsOf(new)) \in Nat
  BY DEF AddedTo
<1>2. older(c) \subseteq new /\ olderCh(c) \subseteq ChrootsOf(new) /\ ChrootsOf(new) \subseteq new
      /\ older(d) \subseteq new /\ olderCh(d) \subseteq ChrootsOf(new)
  BY DEF ChrootsOf
<1>3. /\ IsFiniteSet(ChrootsOf(new))
      /\ IsFiniteSet(older(c)) /\ Cardinality(older(c)) <= Cardinality(new)
      /\ IsFiniteSet(older(d))
  BY <1>1, <1>2, FS_Subset
<1>4. /\ IsFiniteSet(olderCh(c)) /\ Cardinality(olderCh(c)) <= Cardinality(ChrootsOf(new))
      /\ IsFiniteSet(olderCh(d))
  BY <1>2, <1>3, FS_Subset
<1>5. /\ Cardinality(older(c)) \in Nat /\ Cardinality(olderCh(c)) \in Nat
      /\ Cardinality(older(d)) \in Nat /\ Cardinality(olderCh(d)) \in Nat
  BY <1>3, <1>4, FS_CardinalityType
<1>6. ASSUME c.id < d.id
      PROVE  /\ Cardinality(older(c)) <= Cardinality(older(d))
             /\ Cardinality(olderCh(c)) <= Cardinality(olderCh(d))
  <2>1. \A x \in new : x.id \in Nat
    BY <1>1 DEF Command
  <2>2. older(c) \subseteq older(d) /\ olderCh(c) \subseteq olderCh(d)
    BY <1>2, <1>6, <2>1
  <2> QED BY <1>3, <1>4, <2>2, FS_Subset
<1>7. /\ UsedAt(c, s, l, asg) = l.used[s] + Cardinality(older(c))
      /\ UsedAt(d, s, l, asg) = l.used[s] + Cardinality(older(d))
      /\ ChrootsAt(c, s, l, asg) = l.chroots[s] + Cardinality(olderCh(c))
      /\ ChrootsAt(d, s, l, asg) = l.chroots[s] + Cardinality(olderCh(d))
  BY DEF UsedAt, ChrootsAt
<1>8. /\ AssignCommands(l, asg).used[s] = l.used[s] + Cardinality(new)
      /\ AssignCommands(l, asg).chroots[s] = l.chroots[s] + Cardinality(ChrootsOf(new))
  BY DEF AddedTo
<1> HIDE DEF new, older, olderCh
<1> QED BY <1>1, <1>3, <1>4, <1>5, <1>6, <1>7, <1>8

\* Less room is never enough where more was not.
LEMMA CanTakeAntitone ==
    ASSUME NEW c, NEW d, NEW s \in Session, NEW A, NEW ld,
           NEW u \in Nat, NEW v \in Nat, u <= v, NEW x \in Nat, NEW y \in Nat, x <= y,
           c.class = d.class, RequiresChroot(c) = RequiresChroot(d),
           CanTake(d, s, v, y, A, ld)
    PROVE  CanTake(c, s, u, x, A, ld)
<1>1. Slots[s] \in Nat /\ ChrootLimit[s] \in Nat
  BY DispatcherAssumption
<1>2. u < Slots[s]
  BY <1>1 DEF CanTake
<1>3. RequiresChroot(c) => x < ChrootLimit[s]
  BY <1>1 DEF CanTake
<1> QED BY <1>2, <1>3 DEF CanTake
\* assignCommands never gives a node more than it has room for.
LEMMA AssignKeepsLimits ==
    ASSUME NEW R, IsFiniteSet(R), NEW n \in Nat, Numbered(R, n),
           NEW l, NEW Q, Q \subseteq R, NEW A, A \subseteq Session, NEW ld,
           NEW asg \in Assignments(Q, l, A, ld),
           \A s \in Session : AddedTo(s, R, l, asg),
           WithinLimits(l),
           \A s \in Session : l.chroots[s] = Cardinality(ChrootsOf(l.assigned[s]))
    PROVE  WithinLimits(AssignCommands(l, asg))
<1> DEFINE m == AssignCommands(l, asg)
<1> SUFFICES ASSUME NEW s \in Session
             PROVE  /\ Cardinality(WorkOf(m.assigned[s])) <= Slots[s]
                    /\ Cardinality(ChrootsOf(m.assigned[s])) <= ChrootLimit[s]
  BY DEF WithinLimits
<1> DEFINE new == GivenTo(s, asg)
           CH == ChrootsOf(new)
<1>1. Slots[s] \in Nat /\ ChrootLimit[s] \in Nat
  BY DispatcherAssumption
<1>2. /\ new \subseteq Q /\ IsFiniteSet(new) /\ Cardinality(new) \in Nat /\ Cardinality(CH) \in Nat
      /\ l.used[s] \in Nat /\ l.chroots[s] \in Nat
      /\ m.assigned[s] = l.assigned[s] \cup new
      /\ m.used[s] = l.used[s] + Cardinality(new)
      /\ m.used[s] = Cardinality(m.assigned[s])
      /\ m.chroots[s] = l.chroots[s] + Cardinality(CH)
      /\ m.chroots[s] = Cardinality(ChrootsOf(m.assigned[s]))
      /\ IsFiniteSet(l.assigned[s])
  <2>1. AddedTo(s, R, l, asg)
    OBVIOUS
  <2>2. DOMAIN asg = Q
    BY DEF Assignments
  <2> QED BY <2>1, <2>2 DEF AddedTo
<1>3. /\ new \subseteq Command /\ \A c \in new : c.id <= n
      /\ \A c, d \in new : c.id = d.id => c = d
  BY <1>2 DEF Numbered
<1>4. CH \subseteq new /\ \A c \in CH : RequiresChroot(c)
  BY DEF ChrootsOf
<1>5. ASSUME NEW c \in new
      PROVE  /\ l.used[s] + Cardinality({d \in new : d.id < c.id}) < Slots[s]
             /\ RequiresChroot(c) =>
                  l.chroots[s] + Cardinality({d \in CH : d.id < c.id}) < ChrootLimit[s]
  <2>1. CanTake(c, s, UsedAt(c, s, l, asg), ChrootsAt(c, s, l, asg), A, ld)
    BY GivenCouldBeTaken
  <2> QED BY <2>1 DEF CanTake, UsedAt, ChrootsAt
<1>6. Cardinality(WorkOf(m.assigned[s])) <= Slots[s]
  <2>1. CASE new = {}
    <3>1. m.assigned[s] = l.assigned[s]
      BY <1>2, <2>1
    <3> QED BY <3>1 DEF WithinLimits
  <2>2. CASE new # {}
    <3> HIDE DEF new, m
    <3>1. l.used[s] + Cardinality(new) <= Slots[s]
      BY <1>1, <1>2, <1>3, <1>5, <2>2, RoomForNewest
    <3>2. IsFiniteSet(m.assigned[s])
      <4>1. IsFiniteSet(l.assigned[s] \cup new)
        BY <1>2, FS_Union
      <4> QED BY <1>2, <4>1, Zenon
    <3>3. WorkOf(m.assigned[s]) \subseteq m.assigned[s]
      BY DEF WorkOf
    <3>4. Cardinality(WorkOf(m.assigned[s])) <= Cardinality(m.assigned[s])
      BY <3>2, <3>3, FS_Subset
    <3>5. Cardinality(WorkOf(m.assigned[s])) \in Nat
      BY <3>2, <3>3, FS_Subset, FS_CardinalityType
    <3>6. Cardinality(m.assigned[s]) = l.used[s] + Cardinality(new)
      BY <1>2
    <3> QED BY <1>1, <1>2, <3>1, <3>4, <3>5, <3>6
  <2> QED BY <2>1, <2>2
<1>7. Cardinality(ChrootsOf(m.assigned[s])) <= ChrootLimit[s]
  <2>1. CASE CH = {}
    <3>1. Cardinality(CH) = 0
      BY <2>1, FS_EmptySet
    <3>2. m.chroots[s] = Cardinality(ChrootsOf(l.assigned[s]))
      BY <1>2, <3>1
    <3>3. Cardinality(ChrootsOf(l.assigned[s])) <= ChrootLimit[s]
      BY DEF WithinLimits
    <3> QED BY <1>2, <3>2, <3>3
  <2>2. CASE CH # {}
    <3>1. IsFiniteSet(CH)
      BY <1>2, <1>4, FS_Subset
    <3>2. /\ CH \subseteq Command /\ \A c \in CH : c.id <= n
          /\ \A c, d \in CH : c.id = d.id => c = d
          /\ \A c \in CH :
               l.chroots[s] + Cardinality({d \in CH : d.id < c.id}) < ChrootLimit[s]
      BY <1>3, <1>4, <1>5
    <3> HIDE DEF CH, new, m
    <3>3. l.chroots[s] + Cardinality(CH) <= ChrootLimit[s]
      BY <1>1, <1>2, <2>2, <3>1, <3>2, RoomForNewest
    <3> QED BY <1>2, <3>3
  <2> QED BY <2>1, <2>2
<1> QED BY <1>6, <1>7

\* A stop command takes a slot past the limit, but it is not work.
LEMMA StopKeepsLimits ==
    ASSUME NEW l, NEW R, LedgerTypeOK(l, R), WithinLimits(l), NEW c, IsStop(c), NEW n \in Session
    PROVE  WithinLimits(AssignCommands(l, [d \in {c} |-> n]))
<1> DEFINE asg == [d \in {c} |-> n]
           m == AssignCommands(l, asg)
<1> SUFFICES ASSUME NEW s \in Session
             PROVE  /\ WorkOf(m.assigned[s]) = WorkOf(l.assigned[s])
                    /\ ChrootsOf(m.assigned[s]) = ChrootsOf(l.assigned[s])
  BY DEF WithinLimits
<1>1. m.assigned[s] = l.assigned[s] \cup GivenTo(s, asg)
  BY DEF AssignCommands
<1>2. GivenTo(s, asg) \subseteq {c}
  BY DEF GivenTo
<1> QED BY <1>1, <1>2 DEF WorkOf, ChrootsOf, RequiresChroot
-----------------------------------------------------------------------------
(* Every handler ends in _assignQueuedCommands.  Ready(q, b, l) is what the    *)
(* handler must leave for it: a queue, an index and a ledger that satisfy the  *)
(* invariant for the nodes and the commands of the next state.                 *)

Ready(q, b, l) ==
    /\ ~crashed
    /\ IsFiniteSet(received') /\ Numbered(received', Cardinality(received'))
    /\ nodes' \subseteq Session /\ suspended' \subseteq nodes'
    /\ load' \in [nodes' -> Load]
    /\ b \subseteq received'
    /\ LedgerTypeOK(l, received') /\ Consistent(l, nodes') /\ WithinLimits(l)
    /\ QueueInv(q, b, l, received')

\* What the choice of nodes does to the accounts, for the choice it makes.
LEMMA AssignChoice ==
    ASSUME NEW q, NEW b, NEW l, Ready(q, b, l),
           NEW asg \in Assignments(q, l, nodes' \ suspended', load')
    PROVE  LET m == AssignCommands(l, asg)
           IN  /\ asg \in [q -> nodes' \cup {NoNode}] /\ q \subseteq received'
               /\ \A s \in Session : AddedTo(s, received', l, asg)
               /\ LedgerTypeOK(m, received') /\ Consistent(m, nodes') /\ WithinLimits(m)
               /\ DOMAIN m.owner = DOMAIN l.owner \cup {c \in q : asg[c] # NoNode}
<1> DEFINE m == AssignCommands(l, asg)
<1>1. asg \in [q -> nodes' \cup {NoNode}] /\ q \subseteq received'
  BY DEF Assignments, Ready, QueueInv
<1>2. q \cap DOMAIN l.owner = {}
  BY DEF Ready, QueueInv
<1>3. /\ IsFiniteSet(received') /\ LedgerTypeOK(l, received') /\ Consistent(l, nodes')
      /\ nodes' \subseteq Session /\ nodes' \ suspended' \subseteq Session
      /\ WithinLimits(l) /\ Numbered(received', Cardinality(received'))
  BY DEF Ready
<1>4. \A s \in Session : AddedTo(s, received', l, asg)
  BY <1>1, <1>2, <1>3, AssignedTo
<1>5. /\ LedgerTypeOK(m, received') /\ Consistent(m, nodes')
      /\ DOMAIN m.owner = DOMAIN l.owner \cup {c \in q : asg[c] # NoNode}
  <2>1. AddedToAll(received', nodes', l, asg)
    BY <1>1, <1>2, <1>3, AssignKeepsAccounts
  <2>2. DOMAIN asg = q
    BY <1>1
  <2> QED BY <2>1, <2>2 DEF AddedToAll
<1>6. Cardinality(received') \in Nat
  BY <1>3, FS_CardinalityType
<1>7. \A s \in Session : l.chroots[s] = Cardinality(ChrootsOf(l.assigned[s]))
  BY <1>3 DEF Consistent
<1>8. WithinLimits(m)
  BY <1>1, <1>3, <1>4, <1>6, <1>7, AssignKeepsLimits
<1> QED BY <1>1, <1>4, <1>5, <1>8

LEMMA AssignStep ==
    ASSUME NEW q, NEW b, NEW l, Ready(q, b, l), AssignQueuedCommands(q, b, l)
    PROVE  IInv'
<1>1. PICK asg \in Assignments(q, l, nodes' \ suspended', load') :
         /\ ledger' = AssignCommands(l, asg)
         /\ queue' = q \ {c \in q : asg[c] # NoNode}
         /\ byId' = b \ {c \in q : asg[c] # NoNode}
         /\ crashed' = crashed
  BY DEF AssignQueuedCommands, Ready, QueueInv
<1>2. resumed' = {}
  BY DEF AssignQueuedCommands
<1>3. /\ asg \in [q -> nodes' \cup {NoNode}] /\ q \subseteq received'
      /\ \A s \in Session : AddedTo(s, received', l, asg)
      /\ LedgerTypeOK(ledger', received') /\ Consistent(ledger', nodes')
      /\ WithinLimits(ledger')
      /\ DOMAIN ledger'.owner = DOMAIN l.owner \cup {c \in q : asg[c] # NoNode}
  BY <1>1, AssignChoice
<1>4. /\ IsFiniteSet(received') /\ received' \subseteq Command
      /\ IdsUnique' /\ crashed' = FALSE
  BY <1>1 DEF Ready, Numbered, IdsUnique
<1>5. QueueInv(queue', byId', ledger', received')
  BY <1>1, <1>3 DEF Ready, QueueInv
<1>6. TypeOK'
  BY <1>1, <1>2, <1>3, <1>4 DEF TypeOK, Ready, QueueInv
<1>7. WorkConserving'
  <2> SUFFICES ASSUME NEW c \in queue', NEW s \in nodes' \ suspended'
               PROVE  ~CanTake(c, s, ledger'.used[s], ledger'.chroots[s], nodes', load')
    BY <1>2 DEF WorkConserving
  <2> DEFINE u == UsedAt(c, s, l, asg)
             x == ChrootsAt(c, s, l, asg)
  <2>1. s \in Session /\ nodes' \ suspended' \subseteq Session /\ c \in q /\ asg[c] = NoNode
    BY <1>1 DEF Ready
  <2>2. ~CanTake(c, s, u, x, nodes' \ suspended', load')
    BY <2>1, LeftCouldNotBeTaken
  <2>3. c \in Command /\ c.id \in Nat /\ DOMAIN asg \subseteq Command
    BY <1>3, <1>4, <2>1 DEF Command
  <2>4. /\ u \in Nat /\ x \in Nat
        /\ u <= ledger'.used[s] /\ x <= ledger'.chroots[s]
    BY <1>1, <1>3, <2>1, <2>3, UsedGrows
  <2>5. ledger'.used[s] \in Nat /\ ledger'.chroots[s] \in Nat
    BY <1>3, <2>1 DEF LedgerTypeOK
  <2>6. ASSUME CanTake(c, s, ledger'.used[s], ledger'.chroots[s], nodes', load')
        PROVE  CanTake(c, s, u, x, nodes', load')
    <3> HIDE DEF u, x
    <3> QED BY <2>1, <2>4, <2>5, <2>6, CanTakeAntitone
  <2>7. CanTake(c, s, u, x, nodes', load') => CanTake(c, s, u, x, nodes' \ suspended', load')
    BY DEF CanTake
  <2> QED BY <2>2, <2>6, <2>7
<1>8. CrashOnlyByDoubleStop'
  BY <1>4 DEF CrashOnlyByDoubleStop
<1> QED BY <1>3, <1>4, <1>5, <1>6, <1>7, <1>8 DEF IInv, LedgerConsistent, SlotBound

\* The loop serves two commands with the same needs in order.
LEMMA AssignFifo ==
    ASSUME NEW q, NEW b, NEW l, Ready(q, b, l), AssignQueuedCommands(q, b, l),
           NEW c \in q, NEW d \in q, c.id < d.id, c.class = d.class,
           d \in DOMAIN ledger'.owner
    PROVE  c \notin queue'
<1>1. PICK asg \in Assignments(q, l, nodes' \ suspended', load') :
         /\ ledger' = AssignCommands(l, asg)
         /\ queue' = q \ {e \in q : asg[e] # NoNode}
  BY DEF AssignQueuedCommands, Ready, QueueInv
<1>2. /\ asg \in [q -> nodes' \cup {NoNode}] /\ q \subseteq received'
      /\ \A s \in Session : AddedTo(s, received', l, asg)
      /\ DOMAIN ledger'.owner = DOMAIN l.owner \cup {e \in q : asg[e] # NoNode}
  BY <1>1, AssignChoice
<1>3. asg[d] # NoNode
  BY <1>2 DEF Ready, QueueInv
<1> DEFINE s == asg[d]
           A == nodes' \ suspended'
<1>4. s \in A /\ s \in Session /\ A \subseteq Session
  BY <1>3 DEF Assignments, Ready
<1>5. CanTake(d, s, UsedAt(d, s, l, asg), ChrootsAt(d, s, l, asg), A, load')
  <2>1. d \in GivenTo(s, asg)
    BY <1>2 DEF GivenTo
  <2> QED BY <1>4, <2>1, GivenCouldBeTaken
<1>6. /\ c.id \in Nat /\ d.id \in Nat /\ DOMAIN asg \subseteq Command
      /\ RequiresChroot(c) = RequiresChroot(d)
  BY <1>2 DEF Ready, QueueInv, Numbered, Command, RequiresChroot
<1>7. AddedTo(s, received', l, asg)
  BY <1>2, <1>4
<1>8. /\ UsedAt(c, s, l, asg) \in Nat /\ UsedAt(d, s, l, asg) \in Nat
      /\ ChrootsAt(c, s, l, asg) \in Nat /\ ChrootsAt(d, s, l, asg) \in Nat
      /\ UsedAt(c, s, l, asg) <= UsedAt(d, s, l, asg)
      /\ ChrootsAt(c, s, l, asg) <= ChrootsAt(d, s, l, asg)
  <2> HIDE DEF s
  <2> QED BY <1>6, <1>7, UsedGrows
<1>9. CanTake(c, s, UsedAt(c, s, l, asg), ChrootsAt(c, s, l, asg), A, load')
  <2> HIDE DEF s, A
  <2> QED BY <1>4, <1>5, <1>6, <1>8, CanTakeAntitone
<1>10. asg[c] # NoNode
  <2>1. SUFFICES ASSUME asg[c] = NoNode PROVE FALSE
    OBVIOUS
  <2> HIDE DEF s, A
  <2>2. ~CanTake(c, s, UsedAt(c, s, l, asg), ChrootsAt(c, s, l, asg), A, load')
    BY <1>4, <2>1, LeftCouldNotBeTaken DEF A
  <2> QED BY <1>9, <2>2
<1> QED BY <1>1, <1>10
-----------------------------------------------------------------------------
(* What each handler leaves for _assignQueuedCommands.                         *)

LEMMA TypeFacts ==
    ASSUME IInv
    PROVE  /\ Cardinality(received) \in Nat /\ Numbered(received, Cardinality(received))
           /\ IsFiniteSet(received) /\ received \subseteq Command
           /\ queue \subseteq byId /\ byId \subseteq received
           /\ LedgerTypeOK(ledger, received) /\ Consistent(ledger, nodes)
           /\ WithinLimits(ledger) /\ QueueInv(queue, byId, ledger, received)
           /\ nodes \subseteq Session /\ suspended \subseteq nodes
           /\ load \in [nodes -> Load]
  BY FS_CardinalityType
     DEF IInv, TypeOK, IdsUnique, Numbered, LedgerConsistent, SlotBound, QueueInv

\* A command that arrives gets a number of its own.
LEMMA Arrival ==
    ASSUME IInv, NEW c \in Command, c.id = Cardinality(received) + 1,
           received' = received \cup {c}
    PROVE  /\ IsFiniteSet(received') /\ c \notin received
           /\ Numbered(received', Cardinality(received'))
<1>1. /\ Cardinality(received) \in Nat /\ IsFiniteSet(received)
      /\ Numbered(received, Cardinality(received))
  BY TypeFacts
<1>2. \A d \in received : d.id \in Nat /\ d.id < c.id /\ d # c
  BY <1>1 DEF Numbered, Command
<1>3. /\ IsFiniteSet(received')
      /\ Cardinality(received') = Cardinality(received) + 1
  BY <1>1, <1>2, FS_AddElement
<1>4. \A d \in received : d.id <= Cardinality(received)
  BY <1>1 DEF Numbered
<1>5. \A d \in received' : d.id <= Cardinality(received')
  BY <1>1, <1>2, <1>3, <1>4
<1>6. \A d, e \in received' : d.id = e.id => d = e
  BY <1>1, <1>2 DEF Numbered
<1> QED BY <1>1, <1>2, <1>3, <1>5, <1>6 DEF Numbered

LEMMA LedgerGrows ==
    ASSUME NEW l, NEW R, NEW S, LedgerTypeOK(l, R), R \subseteq S
    PROVE  LedgerTypeOK(l, S)
  BY DEF LedgerTypeOK

LEMMA CommandReceivedReady ==
    ASSUME IInv, NEW k \in Class, CommandReceived(k)
    PROVE  LET c == NewCommand(k, NoTarget)
           IN  /\ Ready(queue \cup {c}, byId \cup {c}, ledger)
               /\ AssignQueuedCommands(queue \cup {c}, byId \cup {c}, ledger)
<1> DEFINE c == NewCommand(k, NoTarget)
<1>1. /\ c \in Command /\ c.id = Cardinality(received) + 1 /\ ~IsStop(c)
  BY TypeFacts DEF NewCommand, Command, IsStop, NoTarget
<1>2. /\ ~crashed /\ received' = received \cup {c}
      /\ nodes' = nodes /\ load' = load /\ suspended' = suspended
      /\ AssignQueuedCommands(queue \cup {c}, byId \cup {c}, ledger)
  BY DEF CommandReceived
<1> HIDE DEF c
<1>3. /\ IsFiniteSet(received') /\ c \notin received
      /\ Numbered(received', Cardinality(received'))
  BY <1>1, <1>2, Arrival
<1>4. LedgerTypeOK(ledger, received')
  BY <1>2, TypeFacts, LedgerGrows
<1>5. QueueInv(queue \cup {c}, byId \cup {c}, ledger, received')
  BY <1>1, <1>2, <1>3, TypeFacts DEF QueueInv, StopRequested, LedgerTypeOK
<1>6. Ready(queue \cup {c}, byId \cup {c}, ledger)
  BY <1>2, <1>3, <1>4, <1>5, TypeFacts DEF Ready
<1> QED BY <1>2, <1>6 DEF c

\* The three branches of handleStopCommand, and the crash of the second.
LEMMA StopReceivedReady ==
    ASSUME IInv, NEW t \in received, StopReceived(t)
    PROVE  \/ \E q, l : /\ Ready(q, byId, l) /\ AssignQueuedCommands(q, byId, l)
                        /\ q \subseteq queue /\ queue \ q \subseteq {t}
                        /\ DOMAIN l.owner \cap received = DOMAIN ledger.owner
           \/ /\ crashed' = TRUE
              /\ \E c, d \in received' : c # d /\ IsStop(c) /\ c.target = d.target
              /\ IsFiniteSet(received') /\ Numbered(received', Cardinality(received'))
              /\ received \subseteq received'
              /\ UNCHANGED <<queue, byId, ledger, resumed, nodes, load, suspended>>
<1> DEFINE c == NewCommand(t.class, t.id)
<1>1. /\ ~crashed /\ received' = received \cup {c}
      /\ nodes' = nodes /\ load' = load /\ suspended' = suspended
      /\ StopAssigned(c, t) \/ StopQueued(t) \/ StopDropped(t)
  BY DEF StopReceived
<1>2. /\ c \in Command /\ c.id = Cardinality(received) + 1 /\ IsStop(c) /\ c.target = t.id
  BY TypeFacts DEF NewCommand, Command, IsStop, NoTarget
<1> HIDE DEF c
<1>3. /\ IsFiniteSet(received') /\ c \notin received
      /\ Numbered(received', Cardinality(received'))
  BY <1>1, <1>2, Arrival
<1>4. LedgerTypeOK(ledger, received')
  BY <1>1, TypeFacts, LedgerGrows
<1>5. CASE StopAssigned(c, t)
  <2> DEFINE asg == [d \in {c} |-> ledger.owner[t]]
             l == AssignCommands(ledger, asg)
  <2>1. /\ AssignQueuedCommands(queue, byId, l)
        /\ ledger.owner[t] \in nodes /\ ledger.owner[t] \in Session
    BY <1>5, TypeFacts DEF StopAssigned, HasNode
  <2>2. AddedToAll(received', nodes, ledger, asg)
    <3>1. asg \in [{c} -> nodes \cup {NoNode}] /\ {c} \subseteq received'
      BY <1>1, <2>1
    <3>2. {c} \cap DOMAIN ledger.owner = {}
      BY <1>3, TypeFacts DEF LedgerTypeOK
    <3> HIDE DEF asg
    <3> QED BY <1>3, <1>4, <3>1, <3>2, TypeFacts, AssignKeepsAccounts
  <2>3. WithinLimits(l)
    BY <1>2, <2>1, TypeFacts, StopKeepsLimits
  <2>4. /\ LedgerTypeOK(l, received') /\ Consistent(l, nodes)
        /\ DOMAIN l.owner = DOMAIN ledger.owner \cup {c}
    <3>1. ledger.owner[t] # NoNode
      BY <2>1, DispatcherAssumption
    <3>2. {d \in DOMAIN asg : asg[d] # NoNode} = {c}
      BY <3>1
    <3> HIDE DEF asg
    <3> QED BY <2>2, <3>2 DEF AddedToAll
  <2> HIDE DEF l, asg
  <2>5. QueueInv(queue, byId, l, received')
    BY <1>1, <1>3, <2>4, TypeFacts DEF QueueInv, StopRequested
  <2>6. Ready(queue, byId, l)
    BY <1>1, <1>3, <2>3, <2>4, <2>5, TypeFacts DEF Ready
  <2>7. DOMAIN l.owner \cap received = DOMAIN ledger.owner
    BY <1>3, <2>4, TypeFacts DEF LedgerTypeOK
  <2> QED BY <2>1, <2>6, <2>7
<1>6. CASE StopQueued(t) /\ t \in queue
  <2>1. AssignQueuedCommands(queue \ {t}, byId, ledger)
    BY <1>6 DEF StopQueued
  <2>2. StopRequested(t, received')
    BY <1>1, <1>2 DEF StopRequested
  <2>3. QueueInv(queue \ {t}, byId, ledger, received')
    BY <1>1, <2>2, TypeFacts DEF QueueInv, StopRequested
  <2>4. Ready(queue \ {t}, byId, ledger)
    BY <1>1, <1>3, <1>4, <2>3, TypeFacts DEF Ready
  <2>5. DOMAIN ledger.owner \cap received = DOMAIN ledger.owner
    BY TypeFacts DEF LedgerTypeOK
  <2> QED BY <2>1, <2>4, <2>5
<1>7. CASE StopQueued(t) /\ t \notin queue
  <2>1. crashed' = TRUE /\ UNCHANGED <<queue, byId, ledger, resumed>> /\ t \in byId
    BY <1>7 DEF StopQueued
  <2>2. PICK d \in received : IsStop(d) /\ d.target = t.id
    BY <1>7, <2>1, TypeFacts DEF QueueInv, StopRequested
  <2>3. /\ c \in received' /\ d \in received' /\ c # d
    BY <1>1, <1>3
  <2> QED BY <1>1, <1>2, <1>3, <2>1, <2>2, <2>3
<1>8. CASE StopDropped(t)
  <2>1. AssignQueuedCommands(queue, byId, ledger)
    BY <1>8 DEF StopDropped
  <2>2. QueueInv(queue, byId, ledger, received')
    BY <1>1, TypeFacts DEF QueueInv, StopRequested
  <2>3. Ready(queue, byId, ledger)
    BY <1>1, <1>3, <1>4, <2>2, TypeFacts DEF Ready
  <2>4. DOMAIN ledger.owner \cap received = DOMAIN ledger.owner
    BY TypeFacts DEF LedgerTypeOK
  <2> QED BY <2>1, <2>3, <2>4
<1> QED BY <1>1, <1>5, <1>6, <1>7, <1>8
-----------------------------------------------------------------------------
(* The invariant.                                                              *)

LEMMA InitInv == Init => IInv
<1> SUFFICES ASSUME Init PROVE IInv
  OBVIOUS
<1>1. ChrootsOf({}) = {} /\ WorkOf({}) = {} /\ Cardinality({}) = 0 /\ IsFiniteSet({})
  BY FS_EmptySet DEF ChrootsOf, WorkOf
<1>2. /\ received = {} /\ queue = {} /\ byId = {} /\ nodes = {} /\ suspended = {}
      /\ load = [s \in {} |-> 0] /\ resumed = {} /\ crashed = FALSE
      /\ ledger = EmptyLedger
  BY DEF Init
<1>3. /\ DOMAIN ledger.owner = {} /\ ledger.owner \in [{} -> Session]
      /\ ledger.assigned = [s \in Session |-> {}]
      /\ ledger.used = [s \in Session |-> 0]
      /\ ledger.chroots = [s \in Session |-> 0]
  BY <1>2 DEF EmptyLedger
<1>4. TypeOK
  <2>1. LedgerTypeOK(ledger, received)
    BY <1>2, <1>3 DEF LedgerTypeOK
  <2>2. load \in [nodes -> Load]
    BY <1>2
  <2> QED BY <1>1, <1>2, <2>1, <2>2 DEF TypeOK
<1>5. LedgerConsistent
  BY <1>1, <1>3 DEF LedgerConsistent, Consistent
<1>6. SlotBound
  <2> SUFFICES ASSUME NEW s \in Session
               PROVE  /\ Cardinality(WorkOf(ledger.assigned[s])) <= Slots[s]
                      /\ Cardinality(ChrootsOf(ledger.assigned[s])) <= ChrootLimit[s]
    BY DEF SlotBound, WithinLimits
  <2>1. ledger.assigned[s] = {} /\ Slots[s] \in Nat /\ ChrootLimit[s] \in Nat
    BY <1>3, DispatcherAssumption
  <2>2. /\ Cardinality(WorkOf(ledger.assigned[s])) = 0
        /\ Cardinality(ChrootsOf(ledger.assigned[s])) = 0
    BY <1>1, <2>1
  <2> QED BY <2>1, <2>2
<1>7. IdsUnique /\ QueueInv(queue, byId, ledger, received) /\ WorkConserving
      /\ CrashOnlyByDoubleStop
  BY <1>2 DEF IdsUnique, QueueInv, WorkConserving, CrashOnlyByDoubleStop
<1> QED BY <1>4, <1>5, <1>6, <1>7 DEF IInv

\* The handlers that receive no command leave the queue and the index alone,
\* and remove commands from the ledger.
LEMMA RemovalReady ==
    ASSUME IInv, NEW l, ~crashed, received' = received,
           nodes' \subseteq Session, suspended' \subseteq nodes', load' \in [nodes' -> Load],
           LedgerTypeOK(l, received), Consistent(l, nodes'), WithinLimits(l),
           DOMAIN l.owner \subseteq DOMAIN ledger.owner
    PROVE  Ready(queue, byId, l)
<1>1. QueueInv(queue, byId, l, received)
  BY TypeFacts DEF QueueInv
<1> QED BY <1>1, TypeFacts DEF Ready

LEMMA NodeRegisteredReady ==
    ASSUME IInv, NEW s \in Session, NEW ld \in Load, NodeRegistered(s, ld)
    PROVE  Ready(queue, byId, ledger)
<1>1. /\ ~crashed /\ received' = received /\ nodes' = nodes \cup {s}
      /\ suspended' = suspended /\ load' = [n \in nodes' |-> IF n = s THEN ld ELSE load[n]]
  BY DEF NodeRegistered
<1>2. load' \in [nodes' -> Load]
  BY <1>1, TypeFacts
<1>3. Consistent(ledger, nodes')
  BY <1>1, TypeFacts DEF Consistent
<1>4. nodes' \subseteq Session /\ suspended' \subseteq nodes'
  BY <1>1, TypeFacts
<1> QED BY <1>1, <1>2, <1>3, <1>4, TypeFacts, RemovalReady

LEMMA NodeUpdatedReady ==
    ASSUME IInv, NEW s \in Session, NEW ld \in Load, NEW ids, NodeUpdated(s, ld, ids)
    PROVE  Ready(queue, byId, RemoveCommands(ledger, ledger.assigned[s] \ ids))
<1>1. /\ ~crashed /\ received' = received /\ nodes' = nodes /\ suspended' = suspended
      /\ load' = [load EXCEPT ![s] = ld]
  BY DEF NodeUpdated
<1>2. load' \in [nodes' -> Load]
  BY <1>1, TypeFacts
<1> DEFINE l == RemoveCommands(ledger, ledger.assigned[s] \ ids)
<1>3. /\ LedgerTypeOK(l, received) /\ Consistent(l, nodes) /\ WithinLimits(l)
      /\ DOMAIN l.owner \subseteq DOMAIN ledger.owner
  BY TypeFacts, RemoveKeepsAccounts
<1> HIDE DEF l
<1>4. Ready(queue, byId, l)
  BY <1>1, <1>2, <1>3, TypeFacts, RemovalReady
<1> QED BY <1>4 DEF l

LEMMA CommandDoneReady ==
    ASSUME IInv, NEW c, CommandDone(c)
    PROVE  Ready(queue, byId, RemoveCommands(ledger, {c}))
<1>1. /\ ~crashed /\ received' = received /\ nodes' = nodes /\ suspended' = suspended
      /\ load' = load
  BY DEF CommandDone
<1> DEFINE l == RemoveCommands(ledger, {c})
<1>2. /\ LedgerTypeOK(l, received) /\ Consistent(l, nodes) /\ WithinLimits(l)
      /\ DOMAIN l.owner \subseteq DOMAIN ledger.owner
  BY TypeFacts, RemoveKeepsAccounts
<1> HIDE DEF l
<1>3. Ready(queue, byId, l)
  BY <1>1, <1>2, TypeFacts, RemovalReady
<1> QED BY <1>3 DEF l

\* The KeyError of NodeList.remove cannot happen.
LEMMA NodeDisconnectedReady ==
    ASSUME IInv, NEW s \in Session, NodeDisconnected(s)
    PROVE  /\ Ready(queue, byId, ForgetNode(ledger, s))
           /\ AssignQueuedCommands(queue, byId, ForgetNode(ledger, s))
<1>1. /\ ~crashed /\ received' = received /\ nodes' = nodes \ {s}
      /\ suspended' = suspended \ {s} /\ load' = [n \in nodes' |-> load[n]]
  BY DEF NodeDisconnected
<1>2. load' \in [nodes' -> Load]
  BY <1>1, TypeFacts
<1>3. nodes' \subseteq Session /\ suspended' \subseteq nodes'
  BY <1>1, TypeFacts
<1> DEFINE l == ForgetNode(ledger, s)
<1>4. /\ LedgerTypeOK(l, received) /\ Consistent(l, nodes \ {s}) /\ WithinLimits(l)
      /\ DOMAIN l.owner \subseteq DOMAIN ledger.owner
  BY TypeFacts, ForgetKeepsAccounts
<1>5. AssignQueuedCommands(queue, byId, l)
  BY TypeFacts DEF NodeDisconnected, Consistent
<1> HIDE DEF l
<1>6. Ready(queue, byId, l)
  BY <1>1, <1>2, <1>3, <1>4, TypeFacts, RemovalReady
<1> QED BY <1>5, <1>6 DEF l
\* No action changes the identifiers, the queue or the accounts otherwise.
LEMMA QuietStep ==
    ASSUME IInv, UNCHANGED <<received, queue, byId, nodes, load, ledger, crashed>>,
           suspended' \subseteq nodes, resumed' \subseteq Session,
           suspended \cup resumed \subseteq suspended' \cup resumed'
    PROVE  IInv'
<1>1. TypeOK'
  BY DEF IInv, TypeOK
<1>2. IdsUnique' /\ CrashOnlyByDoubleStop' /\ QueueInv(queue, byId, ledger, received)'
  BY DEF IInv, IdsUnique, CrashOnlyByDoubleStop, QueueInv
<1>3. LedgerConsistent' /\ SlotBound'
  BY DEF IInv, LedgerConsistent, SlotBound
<1>4. WorkConserving'
  BY DEF IInv, WorkConserving, CanTake
<1> QED BY <1>1, <1>2, <1>3, <1>4 DEF IInv

LEMMA NextInv == IInv /\ [Next]_vars => IInv'
<1> SUFFICES ASSUME IInv, [Next]_vars PROVE IInv'
  OBVIOUS
<1>1. ASSUME NEW k \in Class, CommandReceived(k) PROVE IInv'
  BY <1>1, CommandReceivedReady, AssignStep
<1>2. ASSUME NEW t \in received, StopReceived(t) PROVE IInv'
  <2>1. CASE \E q, l : Ready(q, byId, l) /\ AssignQueuedCommands(q, byId, l)
    BY <2>1, AssignStep
  <2>2. CASE /\ crashed' = TRUE
             /\ \E c, d \in received' : c # d /\ IsStop(c) /\ c.target = d.target
             /\ IsFiniteSet(received') /\ Numbered(received', Cardinality(received'))
             /\ received \subseteq received'
             /\ UNCHANGED <<queue, byId, ledger, resumed, nodes, load, suspended>>
    <3>1. LedgerTypeOK(ledger', received')
      BY <2>2, TypeFacts, LedgerGrows
    <3>2. TypeOK'
      BY <2>2, <3>1, TypeFacts DEF IInv, TypeOK, Numbered
    <3>3. QueueInv(queue, byId, ledger, received)'
      BY <2>2, TypeFacts DEF QueueInv, StopRequested
    <3>4. IdsUnique' /\ CrashOnlyByDoubleStop' /\ WorkConserving'
      BY <2>2 DEF IdsUnique, CrashOnlyByDoubleStop, WorkConserving, Numbered
    <3>5. LedgerConsistent' /\ SlotBound'
      BY <2>2, TypeFacts DEF LedgerConsistent, SlotBound
    <3> QED BY <3>2, <3>3, <3>4, <3>5 DEF IInv
  <2> QED BY <1>2, <2>1, <2>2, StopReceivedReady
<1>3. ASSUME NEW s \in Session, NEW ld \in Load, NodeRegistered(s, ld) PROVE IInv'
  BY <1>3, NodeRegisteredReady, AssignStep DEF NodeRegistered
<1>4. ASSUME NEW s \in Session, NEW ld \in Load, NEW ids, NodeUpdated(s, ld, ids) PROVE IInv'
  BY <1>4, NodeUpdatedReady, AssignStep DEF NodeUpdated
<1>5. ASSUME NEW s \in Session, NodeDisconnected(s) PROVE IInv'
  BY <1>5, NodeDisconnectedReady, AssignStep
<1>6. ASSUME NEW c \in received, CommandDone(c) PROVE IInv'
  BY <1>6, CommandDoneReady, AssignStep DEF CommandDone
<1>7. ASSUME NEW s \in Session, Suspend(s) PROVE IInv'
  <2>1. suspended' \subseteq nodes /\ resumed' \subseteq Session
    BY <1>7, TypeFacts DEF Suspend, IInv, TypeOK
  <2> QED BY <1>7, <2>1, QuietStep DEF Suspend
<1>8. ASSUME NEW s \in Session, Resume(s) PROVE IInv'
  <2>1. suspended' \subseteq nodes /\ resumed' \subseteq Session
    BY <1>8, TypeFacts DEF Resume, IInv, TypeOK
  <2> QED BY <1>8, <2>1, QuietStep DEF Resume
<1>9. ASSUME UNCHANGED vars PROVE IInv'
  <2>1. suspended' \subseteq nodes /\ resumed' \subseteq Session
    BY <1>9, TypeFacts DEF vars, IInv, TypeOK
  <2> QED BY <1>9, <2>1, QuietStep DEF vars
<1> QED BY <1>1, <1>2, <1>3, <1>4, <1>5, <1>6, <1>7, <1>8, <1>9 DEF Next

\* The inductive invariant holds in every reachable state.
THEOREM Invariance == Spec => []IInv
BY InitInv, NextInv, PTL DEF Spec

\* The dispatcher's state always has its type.
THEOREM TypeCorrect == Spec => []TypeOK
<1>1. IInv => TypeOK
  BY DEF IInv
<1> QED BY <1>1, Invariance, PTL

\* The three records NodeList keeps of an assignment always agree, so no slot
\* leaks and none is freed twice.
THEOREM LedgerNeverDrifts == Spec => []LedgerConsistent
<1>1. IInv => LedgerConsistent
  BY DEF IInv
<1> QED BY <1>1, Invariance, PTL

\* No node is ever given more commands or chroots than it has room for.
THEOREM NoOverassignment == Spec => []SlotBound
<1>1. IInv => SlotBound
  BY DEF IInv
<1> QED BY <1>1, Invariance, PTL

\* The index holds the queue and nothing that is assigned: popping it is safe.
THEOREM QueueIndexSafe == Spec => []QueueConsistent
<1>1. IInv => QueueConsistent
  BY DEF IInv, QueueInv, QueueConsistent
<1> QED BY <1>1, Invariance, PTL

\* No queued command could be run by a node, resumed nodes aside.
THEOREM NoIdleNode == Spec => []WorkConserving
<1>1. IInv => WorkConserving
  BY DEF IInv
<1> QED BY <1>1, Invariance, PTL

\* Only a second stop command for one target can end the dispatcher.
THEOREM CrashCause == Spec => []CrashOnlyByDoubleStop
<1>1. IInv => CrashOnlyByDoubleStop
  BY DEF IInv
<1> QED BY <1>1, Invariance, PTL
-----------------------------------------------------------------------------
(* The order of the queue.                                                     *)

LEMMA AssignFromQueue ==
    ASSUME NEW q, NEW b, NEW l, Ready(q, b, l), AssignQueuedCommands(q, b, l)
    PROVE  queue' \subseteq q /\ DOMAIN ledger'.owner \subseteq DOMAIN l.owner \cup q
<1>1. PICK asg \in Assignments(q, l, nodes' \ suspended', load') :
         /\ ledger' = AssignCommands(l, asg)
         /\ queue' = q \ {e \in q : asg[e] # NoNode}
  BY DEF AssignQueuedCommands, Ready, QueueInv
<1>2. DOMAIN ledger'.owner = DOMAIN l.owner \cup {e \in q : asg[e] # NoNode}
  BY <1>1, AssignChoice
<1> QED BY <1>1, <1>2

LEMMA FifoStep ==
    ASSUME IInv, [Next]_vars, NEW c \in queue, NEW d \in queue,
           c.id < d.id, c.class = d.class, d \in DOMAIN ledger'.owner
    PROVE  c \notin queue'
<1>0. d \notin DOMAIN ledger.owner /\ d \in received
  BY TypeFacts DEF QueueInv
<1>1. ASSUME NEW l, Ready(queue, byId, l), AssignQueuedCommands(queue, byId, l)
      PROVE  c \notin queue'
  BY <1>1, AssignFifo
<1>2. ASSUME NEW k \in Class, CommandReceived(k) PROVE c \notin queue'
  <2> DEFINE e == NewCommand(k, NoTarget)
  <2>1. /\ Ready(queue \cup {e}, byId \cup {e}, ledger)
        /\ AssignQueuedCommands(queue \cup {e}, byId \cup {e}, ledger)
    BY <1>2, CommandReceivedReady
  <2> HIDE DEF e
  <2> QED BY <2>1, AssignFifo
<1>3. ASSUME NEW t \in received, StopReceived(t) PROVE c \notin queue'
  <2>1. CASE \E q, l : /\ Ready(q, byId, l) /\ AssignQueuedCommands(q, byId, l)
                       /\ q \subseteq queue /\ queue \ q \subseteq {t}
                       /\ DOMAIN l.owner \cap received = DOMAIN ledger.owner
    <3>1. PICK q, l : /\ Ready(q, byId, l) /\ AssignQueuedCommands(q, byId, l)
                      /\ q \subseteq queue /\ queue \ q \subseteq {t}
                      /\ DOMAIN l.owner \cap received = DOMAIN ledger.owner
      BY <2>1
    <3>2. queue' \subseteq q /\ DOMAIN ledger'.owner \subseteq DOMAIN l.owner \cup q
      BY <3>1, AssignFromQueue
    <3>3. d \in q
      BY <1>0, <3>1, <3>2
    <3>4. c \in q => c \notin queue'
      BY <3>1, <3>3, AssignFifo
    <3> QED BY <3>2, <3>4
  <2>2. CASE UNCHANGED <<queue, byId, ledger, resumed, nodes, load, suspended>>
    BY <1>0, <2>2
  <2> QED BY <1>3, <2>1, <2>2, StopReceivedReady
<1>4. ASSUME NEW s \in Session, NEW ld \in Load, NodeRegistered(s, ld) PROVE c \notin queue'
  BY <1>1, <1>4, NodeRegisteredReady DEF NodeRegistered
<1>5. ASSUME NEW s \in Session, NEW ld \in Load, NEW ids, NodeUpdated(s, ld, ids)
      PROVE  c \notin queue'
  BY <1>1, <1>5, NodeUpdatedReady DEF NodeUpdated
<1>6. ASSUME NEW s \in Session, NodeDisconnected(s) PROVE c \notin queue'
  BY <1>1, <1>6, NodeDisconnectedReady
<1>7. ASSUME NEW e \in received, CommandDone(e) PROVE c \notin queue'
  BY <1>1, <1>7, CommandDoneReady DEF CommandDone
<1>8. ASSUME ledger' = ledger PROVE c \notin queue'
  BY <1>0, <1>8
<1> QED BY <1>2, <1>3, <1>4, <1>5, <1>6, <1>7, <1>8 DEF Next, Suspend, Resume, vars

\* Of two queued commands with the same needs the older one is assigned first.
THEOREM FifoOrder == Spec => FifoWithinClass
<1> DEFINE InOrder == \A c, d \in queue :
                        /\ c.id < d.id /\ c.class = d.class
                        /\ d \in DOMAIN ledger'.owner
                        => c \notin queue'
<1>1. IInv /\ [Next]_vars => InOrder
  BY FifoStep
<1>2. IInv /\ [Next]_vars => [InOrder]_vars
  BY <1>1
<1> QED BY <1>2, Invariance, PTL DEF Spec, FifoWithinClass
=============================================================================
