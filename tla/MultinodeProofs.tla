---------------------------- MODULE MultinodeProofs ----------------------------
(***************************************************************************)
(* Proofs about the multinode system, for all constants.  Its dispatcher   *)
(* is the one of module Dispatcher, so that what is proved of that alone,  *)
(* against any messages at any time, holds in the system.                  *)
(***************************************************************************)
EXTENDS Multinode, DispatcherProofs, SequenceTheorems

-----------------------------------------------------------------------------
(* The dispatcher in the system.                                           *)

\* Only the step that reads a message changes the dispatcher's state, and it does
\* what one of the dispatcher's handlers does, or nothing.
LEMMA DispatchIsHandler == Dispatch => [Next]_vars
<1> SUFFICES ASSUME Dispatch PROVE Next \/ UNCHANGED vars
  OBVIOUS
<1> DEFINE m == Head(toDispatcher)
<1>1. CASE \E k \in Class :
             m = Message("command", NewCommand(k, NoTarget)) /\ CommandReceived(k)
  BY <1>1 DEF Next
<1>2. CASE \E t \in received :
             m = Message("command", NewCommand(t.class, t.id)) /\ StopReceived(t)
  BY <1>2 DEF Next
<1>3. CASE \E s \in Session, ld \in Load :
             m = Message("register", s) /\ NodeRegistered(s, ld)
  BY <1>3 DEF Next
<1>4. CASE \E s \in Session, ld \in Load :
             /\ m.kind = "nodeInfo"
             /\ m.content.session = s
             /\ NodeUpdated(s, ld, ledger.assigned[s] \cap m.content.ids)
  <2>1. PICK s \in Session, ld \in Load :
          NodeUpdated(s, ld, ledger.assigned[s] \cap m.content.ids)
    BY <1>4
  <2>2. ledger.assigned[s] \cap m.content.ids \in SUBSET ledger.assigned[s]
    OBVIOUS
  <2> HIDE DEF m
  <2> QED
    BY <2>1, <2>2 DEF Next
<1>5. CASE \E c \in received : m = Message("status", c) /\ CommandDone(c)
  BY <1>5 DEF Next
<1>6. CASE \E s \in Session : m = Message("disconnected", s) /\ NodeDisconnected(s)
  BY <1>6 DEF Next
<1>7. CASE Ignore(m)
  BY <1>7 DEF Ignore
<1> QED
  BY <1>1, <1>2, <1>3, <1>4, <1>5, <1>6, <1>7 DEF Dispatch

\* No builder, bus or node step changes the dispatcher's state.
LEMMA OthersKeepDispatcher ==
  ASSUME SystemNext, ~Dispatch
  PROVE  UNCHANGED vars
<1>1. CASE Builder
  BY <1>1 DEF Builder, Request, Subscribe, BuilderRaises, Signalled, BuilderExits, BuilderHears
<1>2. CASE \E n \in Node : BusHearsNode(n)
  BY <1>2 DEF BusHearsNode
<1>3. CASE \E s \in Session : BusClosesSession(s)
  BY <1>3 DEF BusClosesSession
<1>4. CASE \E n \in Node : NodeStep(n)
  BY <1>4 DEF NodeStep, Receive, StartNext, ChildEnds, ChildDies, StopEnds, Heartbeat
<1>5. CASE \E n \in Node : Loss(n)
  BY <1>5 DEF Loss, ConnectionBreaks, NodeDies, NodeAborts, Restart, Reconnect
<1> QED
  BY <1>1, <1>2, <1>3, <1>4, <1>5 DEF SystemNext

\* The system uses the dispatcher's actions, and nothing else changes its state.
LEMMA SystemHasDispatcher == SystemSpec => Spec
<1>1. SystemInit => Init
  BY DEF SystemInit
<1>2. [SystemNext]_systemVars => [Next]_vars
  <2>1. CASE Dispatch
    BY <2>1, DispatchIsHandler
  <2>2. CASE SystemNext /\ ~Dispatch
    BY <2>2, OthersKeepDispatcher
  <2>3. CASE UNCHANGED systemVars
    BY <2>3 DEF systemVars
  <2> QED
    BY <2>1, <2>2, <2>3
<1> QED
  BY <1>1, <1>2, PTL DEF SystemSpec, Spec

\* In the whole system no node is charged with more work than it has slots and
\* chroots, whatever is lost and however stale a heartbeat is.
THEOREM SystemNeverOverassigns == SystemSpec => []SlotBound
BY SystemHasDispatcher, NoOverassignment, PTL

-----------------------------------------------------------------------------
(* Commands in the order of their arrival.                                 *)

\* ByArrival lists a finite set of copies of commands, each copy once.
LEMMA Arranged ==
    ASSUME NEW X, IsFiniteSet(X), X \subseteq Command \X Nat,
           \A x, y \in X : x[1].id = y[1].id => x[1] = y[1]
    PROVE  /\ Cardinality(X) \in Nat /\ DOMAIN ByArrival(X) = 1 .. Cardinality(X)
           /\ \E f \in Bijection(1 .. Cardinality(X), X) :
                 \A i \in 1 .. Cardinality(X) : ByArrival(X)[i] = f[i][1]
<1> DEFINE N == Cardinality(X)
           Pre(x) == {y \in X : Earlier(y, x)}
           rank == [x \in X |-> Rank(x, X)]
           f == [i \in 1 .. N |-> CHOOSE x \in X : Rank(x, X) = i]
<1>1. N \in Nat
  BY FS_CardinalityType
<1>2. ASSUME NEW x \in X, NEW y \in X
      PROVE  /\ ~Earlier(x, x)
             /\ x # y => Earlier(x, y) \/ Earlier(y, x)
             /\ Earlier(y, x) => Pre(y) \subseteq Pre(x) /\ y \in Pre(x) /\ y \notin Pre(y)
  <2>1. \A z \in X : z[1].id \in Nat /\ z[2] \in Nat /\ z = <<z[1], z[2]>>
    BY DEF Command
  <2>2. \A z \in X : ~Earlier(z, z)
    BY <2>1 DEF Earlier, Before, IsStop
  <2>3. x # y => Earlier(x, y) \/ Earlier(y, x)
    <3>1. CASE x[1] = y[1]
      BY <2>1, <3>1 DEF Earlier
    <3>2. CASE x[1] # y[1]
      BY <2>1, <3>2 DEF Earlier, Before, IsStop
    <3> QED BY <3>1, <3>2
  <2>4. \A z \in X : Earlier(z, y) /\ Earlier(y, x) => Earlier(z, x)
    BY <2>1 DEF Earlier, Before, IsStop
  <2> QED BY <2>2, <2>3, <2>4
<1>3. ASSUME NEW x \in X
      PROVE  IsFiniteSet(Pre(x)) /\ Cardinality(Pre(x)) \in Nat /\ Cardinality(Pre(x)) < N
  <2>1. Pre(x) \in SUBSET X /\ x \notin Pre(x)
    BY <1>2
  <2>2. IsFiniteSet(Pre(x)) /\ Cardinality(Pre(x)) <= N /\ (N = Cardinality(Pre(x)) => X = Pre(x))
    BY <2>1, FS_Subset
  <2>3. Cardinality(Pre(x)) \in Nat
    BY <2>2, FS_CardinalityType
  <2> QED BY <1>1, <2>1, <2>2, <2>3
<1>4. ASSUME NEW x \in X, NEW y \in X, Earlier(y, x)
      PROVE  Cardinality(Pre(y)) < Cardinality(Pre(x))
  <2>1. Pre(y) \in SUBSET Pre(x) /\ Pre(y) # Pre(x)
    BY <1>2, <1>4
  <2>2. /\ Cardinality(Pre(y)) <= Cardinality(Pre(x))
        /\ Cardinality(Pre(y)) = Cardinality(Pre(x)) => Pre(x) = Pre(y)
    BY <1>3, <2>1, FS_Subset
  <2> HIDE DEF Pre, N
  <2> QED BY <1>1, <1>3, <2>1, <2>2
<1>5. \A x \in X : rank[x] = Cardinality(Pre(x)) + 1
  BY DEF Rank
<1>6. rank \in [X -> 1 .. N]
  <2>1. \A x \in X : rank[x] \in 1 .. N
    <3> HIDE DEF Pre, N, rank
    <3> QED BY <1>1, <1>3, <1>5
  <2> QED BY <2>1
<1>7. \A x, y \in X : rank[x] = rank[y] => x = y
  <2> SUFFICES ASSUME NEW x \in X, NEW y \in X, x # y PROVE rank[x] # rank[y]
    OBVIOUS
  <2>1. Earlier(x, y) \/ Earlier(y, x)
    BY <1>2
  <2> HIDE DEF Pre, rank
  <2> QED BY <1>3, <1>4, <1>5, <2>1
<1>8. \A i \in 1 .. N : \E x \in X : rank[x] = i
  <2>1. rank \in Injection(X, 1 .. N)
    BY <1>6, <1>7 DEF Injection, IsInjective
  <2>2. IsFiniteSet(1 .. N) /\ Cardinality(1 .. N) = N
    BY <1>1, FS_Interval
  <2>3. rank \in Surjection(X, 1 .. N)
    BY <2>1, <2>2, FS_Injection
  <2> QED BY <2>3 DEF Surjection
<1>9. \A i \in 1 .. N : f[i] \in X /\ rank[f[i]] = i
  BY <1>8
<1>10. DOMAIN ByArrival(X) = 1 .. N /\ \A i \in 1 .. N : ByArrival(X)[i] = f[i][1]
  BY DEF ByArrival
<1>11. f \in Bijection(1 .. N, X)
  <2>1. f \in [1 .. N -> X]
    BY <1>9
  <2> HIDE DEF Pre, rank, f, N
  <2>2. \A i, j \in 1 .. N : f[i] = f[j] => i = j
    BY <1>9
  <2>3. \A x \in X : \E i \in 1 .. N : f[i] = x
    BY <1>6, <1>7, <1>9
  <2> QED BY <2>1, <2>2, <2>3 DEF Bijection, Injection, Surjection, IsInjective
<1> HIDE DEF f
<1> QED BY <1>1, <1>10, <1>11

-----------------------------------------------------------------------------
(* The inductive invariant: what each channel, table and node may hold.    *)

\* The sessions the bus has given to n.
Own(n) == {s \in known : NodeOf[s] = n}

ToDispatcher ==
    [kind : {"command"}, content : sent] \cup [kind : {"status"}, content : received]
      \cup [kind : {"register", "disconnected"}, content : known]
      \cup [kind : {"nodeInfo"}, content : [session : known, ids : SUBSET received]]
ToBuilder == [kind : {"status"}, content : sent]
ToNode(n) == [kind : {"connected"}, content : Own(n)] \cup [kind : {"command"}, content : received]
FromNode(n) ==
    [kind : {"connect"}, content : Own(n) \cup {NoSession}]
      \cup [kind : {"status"}, content : received]
      \cup [kind : {"register", "subscribe"}, content : Own(n)]
      \cup [kind : {"nodeInfo"}, content : [session : Own(n), ids : SUBSET received]]

Channels ==
    /\ toDispatcher \in Seq(ToDispatcher) /\ toBuilder \in Seq(ToBuilder)
    /\ toNode = [n \in Node |-> toNode[n]] /\ fromNode = [n \in Node |-> fromNode[n]]
    /\ \A n \in Node : toNode[n] \in Seq(ToNode(n)) /\ fromNode[n] \in Seq(FromNode(n))

\* The builder numbers its commands, and while it runs it has stopped none.
Numbers ==
    /\ IsFiniteSet(sent) /\ sent \subseteq Command
    /\ Numbered(sent, Cardinality(sent))
    /\ builder = "running" => sent = WorkOf(sent)

Books ==
    /\ received \subseteq sent
    /\ table \subseteq WorkOf(sent) /\ asking \in WorkOf(sent) \cup {Nothing}
    /\ statusOf \subseteq sent /\ lost \subseteq WorkOf(sent) /\ doubled \subseteq received
    /\ builder \in {"running", "stopping", "exited"}

\* A node is subscribed to the commands of its own sessions.
Sessions ==
    /\ open \subseteq known /\ known \subseteq Session
    /\ link \in [Node -> open \cup {NoSession}]
    /\ session \in [Node -> known \cup {NoSession}]
    /\ targets \in [Node -> [Session -> Nat]]
    /\ \A n \in Node : session[n] \in Own(n) \cup {NoSession}
    /\ \A n \in Node : \A s \in Session : targets[n][s] > 0 => s \in Own(n)

\* What a node has, it was sent; it is busy with no command but a stop command.
Workers ==
    /\ waiting \in [Node -> Seq(WorkOf(received))]
    /\ running \in [Node -> Seq(WorkOf(received))]
    /\ stuck \in [Node -> Nat]
    /\ due \in [Node -> BOOLEAN]
    /\ stopping \in [Node -> (received \ WorkOf(received)) \cup {Nothing}]

SystemInv == IInv /\ Channels /\ Numbers /\ Books /\ Sessions /\ Workers

-----------------------------------------------------------------------------
(* Sequences of messages.                                                  *)

\* What is left of the messages of a connection is the end of them.
LEMMA SuffixOf ==
    ASSUME NEW S, NEW q \in Seq(S), NEW k \in Suffixes(q)
    PROVE  /\ k \in Seq(S)
           /\ \E m \in Nat : \A i \in 1 .. Len(k) : m + i \in 1 .. Len(q) /\ k[i] = q[m + i]
<1>1. Len(q) \in Nat /\ \A i \in 1 .. Len(q) : q[i] \in S
  BY LenProperties, ElementOfSeq
<1>2. CASE k = <<>>
  BY <1>2, EmptySeq
<1>3. CASE k # <<>>
  <2>1. PICK l \in 1 .. Len(q) : k = SubSeq(q, l, Len(q))
    BY <1>3 DEF Suffixes
  <2>2. l \in Int /\ Len(q) \in Int /\ \A i \in l .. Len(q) : q[i] \in S
    BY <1>1
  <2>3. /\ k \in Seq(S)
        /\ Len(k) = IF l <= Len(q) THEN Len(q) - l + 1 ELSE 0
        /\ \A i \in 1 .. Len(q) - l + 1 : k[i] = q[l + i - 1]
    BY <2>1, <2>2, SubSeqProperties
  <2>4. l - 1 \in Nat /\ Len(k) = Len(q) - l + 1
    BY <1>1, <2>3
  <2>5. ASSUME NEW i \in 1 .. Len(k) PROVE (l - 1) + i \in 1 .. Len(q) /\ k[i] = q[(l - 1) + i]
    <3>1. i \in Nat /\ 1 <= i /\ i <= Len(q) - l + 1 /\ l + i - 1 = (l - 1) + i
      BY <1>1, <2>4
    <3>2. k[i] = q[l + i - 1]
      BY <2>3, <3>1, <1>1
    <3> QED BY <1>1, <3>1, <3>2
  <2> QED BY <2>3, <2>4, <2>5
<1> QED BY <1>2, <1>3

\* A sequence without one of its elements.
LEMMA Removed ==
    ASSUME NEW S, NEW q \in Seq(S), NEW k \in 1 .. Len(q)
    PROVE  /\ RemoveAt(q, k) \in Seq(S) /\ Len(RemoveAt(q, k)) = Len(q) - 1
           /\ \A i \in 1 .. Len(q) - 1 : RemoveAt(q, k)[i] = q[IF i < k THEN i ELSE i + 1]
<1> DEFINE a == SubSeq(q, 1, k - 1)
           b == SubSeq(q, k + 1, Len(q))
<1>1. Len(q) \in Nat /\ k \in Nat /\ k >= 1 /\ k <= Len(q) /\ \A i \in 1 .. Len(q) : q[i] \in S
  BY LenProperties, ElementOfSeq
<1>2. /\ a \in Seq(S) /\ Len(a) = k - 1
      /\ \A i \in 1 .. k - 1 : a[i] = q[i]
  <2>1. k - 1 \in Int /\ 1 \in Int /\ \A i \in 1 .. k - 1 : q[i] \in S
    BY <1>1
  <2>2. /\ a \in Seq(S) /\ Len(a) = IF 1 <= k - 1 THEN k - 1 - 1 + 1 ELSE 0
        /\ \A i \in 1 .. k - 1 - 1 + 1 : a[i] = q[1 + i - 1]
    BY <2>1, SubSeqProperties
  <2> QED BY <1>1, <2>2
<1>3. /\ b \in Seq(S) /\ Len(b) = Len(q) - k
      /\ \A i \in 1 .. Len(q) - k : b[i] = q[k + i]
  <2>1. k + 1 \in Int /\ Len(q) \in Int /\ \A i \in k + 1 .. Len(q) : q[i] \in S
    BY <1>1
  <2>2. /\ b \in Seq(S) /\ Len(b) = IF k + 1 <= Len(q) THEN Len(q) - (k + 1) + 1 ELSE 0
        /\ \A i \in 1 .. Len(q) - (k + 1) + 1 : b[i] = q[k + 1 + i - 1]
    BY <2>1, SubSeqProperties
  <2> QED BY <1>1, <2>2
<1>4. RemoveAt(q, k) = a \o b
  BY DEF RemoveAt
<1> HIDE DEF a, b
<1>5. /\ a \o b \in Seq(S) /\ Len(a \o b) = Len(q) - 1
      /\ \A i \in 1 .. Len(q) - 1 : (a \o b)[i] = IF i <= Len(a) THEN a[i] ELSE b[i - Len(a)]
  BY <1>1, <1>2, <1>3, ConcatProperties
<1>6. ASSUME NEW i \in 1 .. Len(q) - 1 PROVE (a \o b)[i] = q[IF i < k THEN i ELSE i + 1]
  <2>1. CASE i < k
    BY <1>1, <1>2, <1>5, <2>1
  <2>2. CASE ~(i < k)
    <3>1. i - Len(a) \in 1 .. Len(q) - k /\ k + (i - Len(a)) = i + 1
      BY <1>1, <1>2, <2>2
    <3> QED BY <1>1, <1>2, <1>3, <1>5, <2>2, <3>1
  <2> QED BY <2>1, <2>2
<1> QED BY <1>4, <1>5, <1>6

LEMMA AsSequence ==
    ASSUME NEW S, NEW n \in Nat, NEW q \in [1 .. n -> S]
    PROVE  q \in Seq(S) /\ Len(q) = n
  OBVIOUS

\* Commands sent in the order of their arrival.
Listable(X) ==
    /\ IsFiniteSet(X) /\ X \subseteq Command \X Nat
    /\ \A x, y \in X : x[1].id = y[1].id => x[1] = y[1]
Lists(q, X, C) ==
    /\ q \in Seq([kind : {"command"}, content : C])
    /\ Len(q) = Cardinality(X)
    /\ \E f \in Bijection(1 .. Len(q), X) :
          \A i \in 1 .. Len(q) : q[i] = Message("command", f[i][1])
LEMMA InOrder ==
    ASSUME NEW X, Listable(X), NEW C, \A x \in X : x[1] \in C
    PROVE  Lists(Sequence("command", ByArrival(X)), X, C)
<1> DEFINE S == [kind : {"command"}, content : C]
           N == Cardinality(X)
           q == Sequence("command", ByArrival(X))
<1>1. N \in Nat /\ DOMAIN ByArrival(X) = 1 .. N
  BY Arranged DEF Listable
<1>2. PICK f \in Bijection(1 .. N, X) : \A i \in 1 .. N : ByArrival(X)[i] = f[i][1]
  BY Arranged DEF Listable
<1>3. q = [i \in 1 .. N |-> Message("command", ByArrival(X)[i])]
  BY <1>1 DEF Sequence
<1>4. \A i \in 1 .. N : f[i] \in X
  BY <1>2 DEF Bijection, Injection
<1>5. \A i \in 1 .. N : q[i] = Message("command", f[i][1]) /\ q[i] \in S
  <2> TAKE i \in 1 .. N
  <2>1. q[i] = Message("command", f[i][1])
    BY <1>2, <1>3
  <2>2. f[i][1] \in C
    BY <1>4
  <2> QED BY <2>1, <2>2 DEF Message
<1>6. q \in [1 .. N -> S]
  BY <1>3, <1>5
<1> HIDE DEF S, N, q
<1>7. q \in Seq(S) /\ Len(q) = N
  BY <1>1, <1>6, AsSequence
<1> QED BY <1>2, <1>5, <1>7 DEF S, N, q, Lists

-----------------------------------------------------------------------------
(* The builder's commands.                                                 *)

\* A new command has a new number.
LEMMA Fresh ==
    ASSUME Numbers, NEW c \in Command, c.id = Cardinality(sent) + 1
    PROVE  /\ c \notin sent /\ IsFiniteSet(sent \cup {c})
           /\ Cardinality(sent) \in Nat /\ Cardinality(sent \cup {c}) = Cardinality(sent) + 1
           /\ Numbered(sent \cup {c}, Cardinality(sent \cup {c}))
<1>1. Cardinality(sent) \in Nat
  BY FS_CardinalityType DEF Numbers
<1>2. \A d \in sent : d.id \in Nat /\ d.id <= Cardinality(sent)
  BY DEF Numbers, Numbered, Command
<1>3. c \notin sent
  BY <1>1, <1>2
<1>4. IsFiniteSet(sent \cup {c}) /\ Cardinality(sent \cup {c}) = Cardinality(sent) + 1
  BY <1>3, FS_AddElement DEF Numbers
<1>5. Numbered(sent \cup {c}, Cardinality(sent) + 1)
  BY <1>1, <1>2 DEF Numbers, Numbered, Command
<1> QED BY <1>1, <1>3, <1>4, <1>5

\* stopAllCommands sends commands with new numbers, of which none is work.
LEMMA StopsSent ==
    ASSUME Numbers, Books, StopAllCommands
    PROVE  /\ sent \subseteq sent' /\ WorkOf(sent') = WorkOf(sent)
           /\ IsFiniteSet(sent') /\ sent' \subseteq Command
           /\ Numbered(sent', Cardinality(sent'))
           /\ \E r \in Seq([kind : {"command"}, content : sent' \ WorkOf(sent')]) :
                 toDispatcher' = toDispatcher \o r
<1> DEFINE M == Cardinality(sent)
           N == Cardinality(table)
           by == ByArrival(table \X {1})
           stops == [i \in DOMAIN by |-> [id |-> M + i, class |-> by[i].class,
                                          target |-> by[i].id]]
           new == ToSet(stops)
           r == Sequence("command", stops)
<1>1. table \subseteq sent /\ \A c \in table : ~IsStop(c)
  BY DEF Books, WorkOf
<1>2. IsFiniteSet(table) /\ table \subseteq Command /\ \A c, d \in table : c.id = d.id => c = d
  <2>1. IsFiniteSet(table)
    BY <1>1, FS_Subset DEF Numbers
  <2> QED BY <1>1, <2>1 DEF Numbers, Numbered
<1>3. M \in Nat /\ N \in Nat /\ DOMAIN by = 1 .. N /\ \A i \in 1 .. N : by[i] \in table
  <2> DEFINE X == table \X {1}
  <2>1. M \in Nat
    BY FS_CardinalityType DEF Numbers
  <2>2. IsFiniteSet(X) /\ Cardinality(X) = N
    <3>1. IsFiniteSet({1}) /\ Cardinality({1}) = 1 /\ N \in Nat
      BY <1>2, FS_Singleton, FS_CardinalityType
    <3>2. IsFiniteSet(X) /\ Cardinality(X) = N * 1
      BY <1>2, <3>1, FS_Product
    <3> QED BY <3>1, <3>2
  <2>3. X \subseteq Command \X Nat /\ \A x, y \in X : x[1].id = y[1].id => x[1] = y[1]
    BY <1>2
  <2>4. \A x \in X : x[1] \in table
    OBVIOUS
  <2> HIDE DEF X
  <2>5. PICK f \in Bijection(1 .. Cardinality(X), X) :
           \A i \in 1 .. Cardinality(X) : ByArrival(X)[i] = f[i][1]
    BY <2>2, <2>3, Arranged
  <2>6. \A i \in 1 .. Cardinality(X) : f[i] \in X
    BY <2>5 DEF Bijection, Injection
  <2>7. Cardinality(X) \in Nat /\ DOMAIN ByArrival(X) = 1 .. Cardinality(X)
    BY <2>2, <2>3, Arranged
  <2> QED BY <2>1, <2>2, <2>4, <2>5, <2>6, <2>7 DEF X
<1>4. sent' = sent \cup new /\ toDispatcher' = toDispatcher \o r
  BY DEF StopAllCommands
<1>5. DOMAIN stops = 1 .. N
  BY <1>3
<1>6. ASSUME NEW i \in 1 .. N
      PROVE  stops[i] \in Command /\ stops[i].id = M + i /\ IsStop(stops[i])
  <2>1. by[i] \in Command
    BY <1>2, <1>3
  <2>2. stops[i] = [id |-> M + i, class |-> by[i].class, target |-> by[i].id]
    BY <1>3
  <2>3. M + i \in Nat \ {0}
    BY <1>3
  <2> HIDE DEF stops
  <2> QED BY <2>1, <2>2, <2>3 DEF Command, IsStop, NoTarget
<1>7. \A c \in new : \E i \in 1 .. N : c = stops[i]
  BY <1>5 DEF ToSet
<1> HIDE DEF stops
<1>8. \A c \in new : c \in Command /\ c.id > M /\ c.id <= M + N /\ IsStop(c) /\ c.id \in Nat
  BY <1>3, <1>6, <1>7
<1>9. stops \in Bijection(1 .. N, new)
  <2>1. stops = [i \in 1 .. N |-> stops[i]]
    BY <1>5 DEF stops
  <2>2. \A i \in 1 .. N : stops[i] \in new
    BY <1>5 DEF ToSet
  <2>3. \A i, j \in 1 .. N : stops[i] = stops[j] => i = j
    BY <1>3, <1>6
  <2>4. stops \in [1 .. N -> new]
    BY <2>1, <2>2
  <2> HIDE DEF new
  <2> QED BY <1>7, <2>3, <2>4 DEF Bijection, Injection, Surjection, IsInjective
<1>10. IsFiniteSet(new) /\ Cardinality(new) = N
  <2>1. IsFiniteSet(1 .. N) /\ Cardinality(1 .. N) = N
    BY <1>3, FS_Interval
  <2>2. ExistsBijection(1 .. N, new)
    BY <1>9 DEF ExistsBijection
  <2> QED BY <2>1, <2>2, FS_Bijection
<1>11. \A c \in sent : c.id \in Nat /\ c.id <= M
  BY DEF Numbers, Numbered, Command
<1> HIDE DEF new
<1>12. sent \cap new = {}
  BY <1>3, <1>8, <1>11
<1>13. IsFiniteSet(sent') /\ Cardinality(sent') = M + N
  BY <1>4, <1>10, <1>12, DisjointUnion DEF Numbers
<1>14. \A c, d \in new : c.id = d.id => c = d
  BY <1>3, <1>6, <1>7
<1>15. Numbered(sent', M + N)
  <2>1. \A c \in sent' : c.id <= M + N
    BY <1>3, <1>4, <1>8, <1>11
  <2>2. \A c, d \in sent' : c.id = d.id => c = d
    <3>1. \A c \in sent, d \in new : c.id # d.id
      BY <1>3, <1>8, <1>11
    <3> QED BY <1>4, <1>14, <3>1 DEF Numbers, Numbered
  <2>3. sent' \subseteq Command
    BY <1>4, <1>8 DEF Numbers
  <2> QED BY <2>1, <2>2, <2>3 DEF Numbered
<1>16. sent' \subseteq Command /\ WorkOf(sent') = WorkOf(sent)
  BY <1>4, <1>8 DEF Numbers, WorkOf
<1>17. \A c \in new : c \in sent' \ WorkOf(sent')
  BY <1>4, <1>8 DEF WorkOf
<1>18. r \in Seq([kind : {"command"}, content : sent' \ WorkOf(sent')])
  <2> DEFINE S == [kind : {"command"}, content : sent' \ WorkOf(sent')]
  <2>1. r = [i \in 1 .. N |-> Message("command", stops[i])]
    BY <1>5 DEF Sequence
  <2>2. \A i \in 1 .. N : stops[i] \in sent' \ WorkOf(sent')
    BY <1>5, <1>17 DEF new, ToSet
  <2>3. \A i \in 1 .. N : Message("command", stops[i]) \in S
    BY <2>2 DEF Message
  <2>4. r \in [1 .. N -> S]
    BY <2>1, <2>3
  <2> HIDE DEF r, N, S
  <2>5. r \in Seq(S)
    BY <1>3, <2>4, AsSequence
  <2> QED BY <2>5 DEF S
<1> HIDE DEF r
<1> QED BY <1>4, <1>13, <1>15, <1>16, <1>18

-----------------------------------------------------------------------------
(* What a step of the dispatcher does with its queue.                      *)

LEMMA AssignedFrom ==
    ASSUME NEW q, NEW b, NEW l, AssignQueuedCommands(q, b, l)
    PROVE  \/ queue' = queue /\ ledger' = ledger
           \/ queue' \subseteq q /\ DOMAIN ledger'.owner \subseteq DOMAIN l.owner \cup q
<1>1. PICK asg \in Assignments(q, l, nodes' \ suspended', load') :
        \/ /\ ledger' = AssignCommands(l, asg)
           /\ queue' = q \ {c \in q : asg[c] # NoNode}
        \/ UNCHANGED <<ledger, queue>>
  BY DEF AssignQueuedCommands
<1>2. DOMAIN asg = q
  BY DEF Assignments
<1>3. DOMAIN AssignCommands(l, asg).owner \subseteq DOMAIN l.owner \cup q
  BY <1>2 DEF AssignCommands
<1> QED BY <1>1, <1>3

LEMMA AssignedAll ==
    ASSUME NEW q, NEW b, NEW l, Ready(q, b, l), AssignQueuedCommands(q, b, l)
    PROVE  /\ queue' \subseteq q
           /\ DOMAIN ledger'.owner = DOMAIN l.owner \cup (q \ queue')
<1>1. q \subseteq b
  BY DEF Ready, QueueInv
<1>2. PICK asg \in Assignments(q, l, nodes' \ suspended', load') :
         ledger' = AssignCommands(l, asg) /\ queue' = q \ {c \in q : asg[c] # NoNode}
  BY <1>1 DEF AssignQueuedCommands
<1>3. DOMAIN asg = q
  BY DEF Assignments
<1>4. DOMAIN AssignCommands(l, asg).owner = DOMAIN l.owner \cup {c \in q : asg[c] # NoNode}
  BY <1>3 DEF AssignCommands
<1> QED BY <1>2, <1>4

\* The command the dispatcher reads, if it reads one.
Read == {c \in received' : c \notin received}

\* Work is queued or assigned when it was read or queued before, and all of it is
\* unless a stop command was read; a command whose status was read is not charged.
Outcome(m) ==
    /\ m.kind = "command" => m.content \notin received /\ received' = received \cup {m.content}
    /\ m.kind # "command" => received' = received
    /\ WorkOf(queue' \cup Assigned) \subseteq queue \cup Read
    /\ (m.kind = "command" => ~IsStop(m.content)) => queue \cup Read \subseteq queue' \cup Assigned
    /\ m.kind = "status" => DOMAIN ledger'.owner \subseteq (DOMAIN ledger.owner \ {m.content}) \cup Assigned

LEMMA OutcomeOf ==
    ASSUME IInv, NEW m, NEW l, NEW b, Ready(queue, b, l), AssignQueuedCommands(queue, b, l),
           DOMAIN l.owner \subseteq DOMAIN ledger.owner, received' = received,
           m.kind # "command", m.kind = "status" => m.content \notin DOMAIN l.owner
    PROVE  Outcome(m)
<1>1. /\ queue' \subseteq queue
      /\ DOMAIN ledger'.owner = DOMAIN l.owner \cup (queue \ queue')
  BY AssignedAll
<1>2. queue \cap DOMAIN ledger.owner = {}
  BY DEF IInv, QueueInv
<1> QED BY <1>1, <1>2 DEF Outcome, Assigned, Read, WorkOf

LEMMA CommandOutcome ==
    ASSUME IInv, NEW k \in Class, CommandReceived(k), NEW m,
           m = Message("command", NewCommand(k, NoTarget))
    PROVE  Outcome(m)
<1> DEFINE c == NewCommand(k, NoTarget)
<1>1. Ready(queue \cup {c}, byId \cup {c}, ledger)
      /\ AssignQueuedCommands(queue \cup {c}, byId \cup {c}, ledger)
  BY CommandReceivedReady
<1>2. received' = received \cup {c} /\ m.kind = "command" /\ m.content = c
  BY DEF CommandReceived, Message
<1>3. c \in Command /\ c.id = Cardinality(received) + 1
  BY TypeFacts DEF NewCommand, Command, NoTarget
<1> HIDE DEF c
<1>4. c \notin received
  BY <1>2, <1>3, Arrival
<1>5. /\ queue' \subseteq queue \cup {c}
      /\ DOMAIN ledger'.owner = DOMAIN ledger.owner \cup ((queue \cup {c}) \ queue')
  BY <1>1, AssignedAll
<1>6. queue \cap DOMAIN ledger.owner = {} /\ DOMAIN ledger.owner \subseteq received
  BY DEF IInv, QueueInv, TypeOK, LedgerTypeOK
<1>7. Read = {c}
  BY <1>2, <1>4 DEF Read
<1>8. Assigned = (queue \cup {c}) \ queue'
  BY <1>4, <1>5, <1>6 DEF Assigned
<1> QED BY <1>2, <1>4, <1>5, <1>7, <1>8 DEF Outcome, WorkOf

LEMMA StopOutcome ==
    ASSUME IInv, NEW t \in received, StopReceived(t), NEW m,
           m = Message("command", NewCommand(t.class, t.id))
    PROVE  Outcome(m)
<1> DEFINE c == NewCommand(t.class, t.id)
<1>1. received' = received \cup {c} /\ m.kind = "command" /\ m.content = c
  BY DEF StopReceived, Message
<1>2. t \in Command
  BY TypeFacts
<1>3. c \in Command /\ c.id = Cardinality(received) + 1 /\ IsStop(c)
  BY <1>2, TypeFacts DEF NewCommand, Command, IsStop, NoTarget
<1>4. WorkOf(queue' \cup (DOMAIN ledger'.owner \ DOMAIN ledger.owner)) \subseteq queue
  <2>1. CASE StopAssigned(c, t)
    <3> DEFINE l == AssignCommands(ledger, [d \in {c} |-> ledger.owner[t]])
    <3>1. AssignQueuedCommands(queue, byId, l)
      BY <2>1 DEF StopAssigned
    <3>2. DOMAIN l.owner \subseteq DOMAIN ledger.owner \cup {c}
      BY DEF AssignCommands
    <3> HIDE DEF l, c
    <3> QED BY <1>3, <3>1, <3>2, AssignedFrom DEF WorkOf
  <2>2. CASE StopQueued(t)
    <3>1. CASE AssignQueuedCommands(queue \ {t}, byId, ledger)
      BY <3>1, AssignedFrom DEF WorkOf
    <3>2. CASE UNCHANGED <<queue, ledger>>
      BY <3>2 DEF WorkOf
    <3> QED BY <2>2, <3>1, <3>2 DEF StopQueued
  <2>3. CASE StopDropped(t)
    <3>1. AssignQueuedCommands(queue, byId, ledger)
      BY <2>3 DEF StopDropped
    <3> QED BY <3>1, AssignedFrom DEF WorkOf
  <2> QED BY <2>1, <2>2, <2>3 DEF StopReceived
<1> HIDE DEF c
<1>5. c \notin received
  BY <1>1, <1>3, Arrival
<1> QED BY <1>1, <1>3, <1>4, <1>5 DEF Outcome, Assigned, WorkOf

LEMMA DispatchOutcome ==
    ASSUME IInv, Dispatch
    PROVE  /\ IInv' /\ Outcome(Head(toDispatcher))
           /\ queue' \cap Assigned = {} /\ Assigned \subseteq received'
           /\ \A c \in Assigned : ledger'.owner[c] \in Session
<1> DEFINE m == Head(toDispatcher)
<1>1. IInv'
  BY DispatchIsHandler, NextInv
<1>2. /\ queue' \cap Assigned = {} /\ Assigned \subseteq received'
      /\ \A c \in Assigned : ledger'.owner[c] \in Session
  BY <1>1 DEF IInv, QueueInv, TypeOK, LedgerTypeOK, Assigned
<1>3. DOMAIN ledger.owner \subseteq received
  BY DEF IInv, TypeOK, LedgerTypeOK
<1>4. Outcome(m)
  <2>1. CASE \E k \in Class : m = Message("command", NewCommand(k, NoTarget)) /\ CommandReceived(k)
    BY <2>1, CommandOutcome
  <2>2. CASE \E t \in received :
               m = Message("command", NewCommand(t.class, t.id)) /\ StopReceived(t)
    BY <2>2, StopOutcome
  <2>3. CASE \E s \in Session, ld \in Load : m = Message("register", s) /\ NodeRegistered(s, ld)
    <3>1. PICK s \in Session, ld \in Load : m = Message("register", s) /\ NodeRegistered(s, ld)
      BY <2>3
    <3>2. /\ Ready(queue, byId, ledger) /\ AssignQueuedCommands(queue, byId, ledger)
          /\ received' = received /\ m.kind = "register"
      BY <3>1, NodeRegisteredReady DEF NodeRegistered, Message
    <3> HIDE DEF m
    <3> QED BY <3>2, OutcomeOf
  <2>4. CASE \E s \in Session, ld \in Load :
               /\ m.kind = "nodeInfo"
               /\ m.content.session = s
               /\ NodeUpdated(s, ld, ledger.assigned[s] \cap m.content.ids)
    <3>1. PICK s \in Session, ld \in Load :
             m.kind = "nodeInfo" /\ NodeUpdated(s, ld, ledger.assigned[s] \cap m.content.ids)
      BY <2>4
    <3> DEFINE l == RemoveCommands(ledger, ledger.assigned[s] \ (ledger.assigned[s] \cap m.content.ids))
    <3>2. /\ Ready(queue, byId, l) /\ AssignQueuedCommands(queue, byId, l)
          /\ received' = received
      BY <3>1, NodeUpdatedReady DEF NodeUpdated
    <3>3. DOMAIN l.owner \subseteq DOMAIN ledger.owner
      BY DEF RemoveCommands
    <3> HIDE DEF m, l
    <3> QED BY <3>1, <3>2, <3>3, OutcomeOf
  <2>5. CASE \E c \in received : m = Message("status", c) /\ CommandDone(c)
    <3>1. PICK c \in received : m = Message("status", c) /\ CommandDone(c)
      BY <2>5
    <3> DEFINE l == RemoveCommands(ledger, {c})
    <3>2. /\ Ready(queue, byId, l) /\ AssignQueuedCommands(queue, byId, l)
          /\ received' = received /\ m.kind = "status" /\ m.content = c
      BY <3>1, CommandDoneReady DEF CommandDone, Message
    <3>3. DOMAIN l.owner \subseteq DOMAIN ledger.owner /\ c \notin DOMAIN l.owner
      BY DEF RemoveCommands
    <3> HIDE DEF m, l
    <3> QED BY <3>2, <3>3, OutcomeOf
  <2>6. CASE \E s \in Session : m = Message("disconnected", s) /\ NodeDisconnected(s)
    <3>1. PICK s \in Session : m = Message("disconnected", s) /\ NodeDisconnected(s)
      BY <2>6
    <3> DEFINE l == ForgetNode(ledger, s)
    <3>2. Ready(queue, byId, l) /\ AssignQueuedCommands(queue, byId, l)
      BY <3>1, NodeDisconnectedReady
    <3>3. received' = received /\ m.kind = "disconnected"
      BY <3>1 DEF NodeDisconnected, Message
    <3>4. DOMAIN l.owner \subseteq DOMAIN ledger.owner
      BY DEF ForgetNode
    <3> HIDE DEF m, l
    <3> QED BY <3>2, <3>3, <3>4, OutcomeOf
  <2>7. CASE Ignore(m)
    <3>1. /\ m.kind # "command" /\ m.kind # "status" /\ received' = received
          /\ queue' = queue /\ ledger' = ledger
      BY <2>7 DEF Ignore, vars
    <3> HIDE DEF m
    <3> QED BY <3>1 DEF Outcome, Assigned, Read, WorkOf
  <2> QED BY <2>1, <2>2, <2>3, <2>4, <2>5, <2>6, <2>7 DEF Dispatch
<1> QED BY <1>1, <1>2, <1>4

-----------------------------------------------------------------------------
(* Every step keeps the types.                                             *)

\* Histories and the sessions of the bus only grow, and with them what messages
\* may hold.
Grow == received \subseteq received' /\ sent \subseteq sent' /\ known \subseteq known'

LEMMA Grown ==
    ASSUME Grow
    PROVE  /\ \A q \in Seq(ToDispatcher) : q \in Seq(ToDispatcher')
           /\ \A q \in Seq(ToBuilder) : q \in Seq(ToBuilder')
           /\ \A n \in Node : \A q \in Seq(ToNode(n)) : q \in Seq(ToNode(n)')
           /\ \A n \in Node : \A q \in Seq(FromNode(n)) : q \in Seq(FromNode(n)')
           /\ WorkOf(received) \subseteq WorkOf(received')
           /\ \A q \in Seq(WorkOf(received)) : q \in Seq(WorkOf(received'))
<1>1. \A n \in Node : Own(n) \subseteq Own(n)'
  BY DEF Grow, Own
<1>2. ToDispatcher \subseteq ToDispatcher'
  BY DEF Grow, ToDispatcher
<1>3. ToBuilder \subseteq ToBuilder'
  BY DEF Grow, ToBuilder
<1>4. \A n \in Node : ToNode(n) \subseteq ToNode(n)'
  BY <1>1 DEF Grow, ToNode
<1>5. \A n \in Node : FromNode(n) \subseteq FromNode(n)'
  BY <1>1 DEF Grow, FromNode
<1>6. WorkOf(received) \subseteq WorkOf(received')
  BY DEF Grow, WorkOf
<1> QED BY <1>2, <1>3, <1>4, <1>5, <1>6, SeqMonotonic

LEMMA SessionsKept ==
    ASSUME Sessions, UNCHANGED <<sessionVars, session>>
    PROVE  Sessions'
  BY DEF Sessions, sessionVars, Own

LEMMA WorkersKept ==
    ASSUME Workers, UNCHANGED workerVars, Grow
    PROVE  Workers'
<1>1. waiting \in [Node -> Seq(WorkOf(received'))]
  BY Grown DEF Workers
<1>2. received \ WorkOf(received) \subseteq received' \ WorkOf(received')
  BY DEF Grow, WorkOf
<1>3. running \in [Node -> Seq(WorkOf(received'))]
  BY Grown DEF Workers
<1>4. stopping \in [Node -> (received' \ WorkOf(received')) \cup {Nothing}]
  BY <1>2 DEF Workers
<1> QED BY <1>1, <1>3, <1>4 DEF Workers, workerVars

LEMMA NodeChannelsKept ==
    ASSUME Channels, Grow, UNCHANGED <<fromNode, toNode>>,
           toDispatcher' \in Seq(ToDispatcher'), toBuilder' \in Seq(ToBuilder')
    PROVE  Channels'
  BY Grown DEF Channels

LEMMA NumbersKept ==
    ASSUME Numbers, UNCHANGED sent, builder' = "running" => builder = "running"
    PROVE  Numbers'
  BY DEF Numbers

TypesNext == Channels' /\ Numbers' /\ Books' /\ Sessions' /\ Workers'

LEMMA RequestTypes ==
    ASSUME SystemInv, NEW k \in Class, Request(k)
    PROVE  TypesNext
<1> DEFINE c == [id |-> Cardinality(sent) + 1, class |-> k, target |-> NoTarget]
<1>1. Cardinality(sent) \in Nat
  BY FS_CardinalityType DEF SystemInv, Numbers
<1>2. c \in Command /\ ~IsStop(c) /\ c.id = Cardinality(sent) + 1
  BY <1>1 DEF Command, IsStop, NoTarget
<1>3. /\ builder = "running" /\ asking = Nothing /\ asking' = c /\ sent' = sent \cup {c}
      /\ toDispatcher' = Append(toDispatcher, Message("command", c))
      /\ UNCHANGED <<vars, builder, table, toBuilder, statusOf, fromNode, toNode,
                     sessionVars, nodeVars, lossVars>>
  BY DEF Request
<1> HIDE DEF c
<1>4. Grow
  BY <1>3 DEF Grow, vars, sessionVars
<1>5. Numbers'
  <2>1. IsFiniteSet(sent') /\ Numbered(sent', Cardinality(sent'))
    BY <1>2, <1>3, Fresh DEF SystemInv
  <2>2. sent' = WorkOf(sent') /\ sent' \subseteq Command
    BY <1>2, <1>3 DEF SystemInv, Numbers, WorkOf
  <2> QED BY <2>1, <2>2 DEF Numbers
<1>6. Books'
  BY <1>2, <1>3 DEF SystemInv, Books, WorkOf, vars, lossVars
<1>7. toDispatcher' \in Seq(ToDispatcher')
  <2>1. Message("command", c) \in ToDispatcher'
    BY <1>3 DEF Message, ToDispatcher
  <2>2. toDispatcher \in Seq(ToDispatcher')
    BY <1>4, Grown DEF SystemInv, Channels
  <2> QED BY <1>3, <2>1, <2>2, AppendProperties
<1>8. Channels'
  <2>1. toBuilder' \in Seq(ToBuilder')
    BY <1>3, <1>4, Grown DEF SystemInv, Channels
  <2> QED BY <1>3, <1>4, <1>7, <2>1, NodeChannelsKept DEF SystemInv
<1>9. Sessions' /\ Workers'
  BY <1>3, <1>4, SessionsKept, WorkersKept DEF SystemInv, nodeVars
<1> QED BY <1>5, <1>6, <1>8, <1>9 DEF TypesNext

\* The builder's other steps: it sends nothing, or stop commands as it ends.
Stops == StopAllCommands /\ builder' # "running"
SendsNothing == UNCHANGED <<sent, toDispatcher>> /\ (builder' = "running" => builder = "running")

LEMMA BuilderTypes ==
    ASSUME SystemInv, UNCHANGED <<vars, fromNode, toNode, sessionVars, nodeVars, lossVars>>,
           Stops \/ SendsNothing, toBuilder' \in Seq(ToBuilder), statusOf' \subseteq sent,
           table' \subseteq WorkOf(sent), asking' \in WorkOf(sent) \cup {Nothing},
           builder' \in {"running", "stopping", "exited"}
    PROVE  TypesNext
<1>1. /\ sent \subseteq sent' /\ WorkOf(sent') = WorkOf(sent) /\ Numbers'
      /\ Grow => toDispatcher' \in Seq(ToDispatcher')
  <2>1. CASE Stops
    <3>1. /\ sent \subseteq sent' /\ WorkOf(sent') = WorkOf(sent)
          /\ IsFiniteSet(sent') /\ sent' \subseteq Command
          /\ Numbered(sent', Cardinality(sent'))
          /\ \E r \in Seq([kind : {"command"}, content : sent' \ WorkOf(sent')]) :
                toDispatcher' = toDispatcher \o r
      BY <2>1, StopsSent DEF Stops, SystemInv
    <3>2. PICK r \in Seq([kind : {"command"}, content : sent' \ WorkOf(sent')]) :
                toDispatcher' = toDispatcher \o r
      BY <3>1
    <3>3. r \in Seq(ToDispatcher')
      <4>1. [kind : {"command"}, content : sent' \ WorkOf(sent')] \subseteq ToDispatcher'
        BY DEF ToDispatcher
      <4> QED BY <4>1, SeqMonotonic
    <3>4. ASSUME Grow PROVE toDispatcher' \in Seq(ToDispatcher')
      <4>1. toDispatcher \in Seq(ToDispatcher')
        BY <3>4, Grown DEF SystemInv, Channels
      <4> QED BY <3>2, <3>3, <4>1, ConcatProperties
    <3>5. Numbers'
      BY <2>1, <3>1 DEF Numbers, Stops
    <3> QED BY <3>1, <3>4, <3>5
  <2>2. CASE SendsNothing
    <3>1. Numbers'
      BY <2>2, NumbersKept DEF SystemInv, SendsNothing
    <3>2. Grow => toDispatcher' \in Seq(ToDispatcher')
      BY <2>2, Grown DEF SendsNothing, SystemInv, Channels
    <3> QED BY <2>2, <3>1, <3>2 DEF SendsNothing
  <2> QED BY <2>1, <2>2
<1>2. Grow
  BY <1>1 DEF Grow, vars, sessionVars
<1>3. Books'
  BY <1>1 DEF SystemInv, Books, vars, lossVars
<1>4. Channels'
  <2>1. toBuilder' \in Seq(ToBuilder')
    BY <1>2, Grown
  <2> QED BY <1>1, <1>2, <2>1, NodeChannelsKept DEF SystemInv
<1>5. Sessions' /\ Workers'
  BY <1>2, SessionsKept, WorkersKept DEF SystemInv, nodeVars
<1> QED BY <1>1, <1>3, <1>4, <1>5 DEF TypesNext

LEMMA BuilderStepTypes ==
    ASSUME SystemInv, Builder
    PROVE  TypesNext
<1>1. /\ toBuilder \in Seq(ToBuilder) /\ <<>> \in Seq(ToBuilder)
      /\ toBuilder # <<>> => Tail(toBuilder) \in Seq(ToBuilder)
  BY HeadTailProperties, EmptySeq DEF SystemInv, Channels
<1>2. /\ statusOf \subseteq sent /\ {} \subseteq sent /\ table \subseteq WorkOf(sent)
      /\ asking \in WorkOf(sent) \cup {Nothing}
      /\ builder \in {"running", "stopping", "exited"} /\ WorkOf(sent) \subseteq sent
  BY DEF SystemInv, Books, WorkOf
<1>3. CASE \E k \in Class : Request(k)
  BY <1>3, RequestTypes
<1>4. CASE Subscribe
  <2>1. /\ asking # Nothing /\ asking' = Nothing /\ table' = table \cup {asking}
        /\ statusOf' = statusOf \cup {asking}
        /\ UNCHANGED <<vars, builder, sent, toBuilder, toDispatcher, fromNode, toNode,
                       sessionVars, nodeVars, lossVars>>
    BY <1>4 DEF Subscribe
  <2>2. SendsNothing
    BY <2>1 DEF SendsNothing
  <2>3. asking \in WorkOf(sent)
    BY <1>2, <2>1
  <2> QED BY <1>1, <1>2, <2>1, <2>2, <2>3, BuilderTypes
<1>5. CASE BuilderRaises
  <2>1. Stops /\ builder' = "stopping"
    BY <1>5 DEF BuilderRaises, Stops
  <2> QED BY <1>1, <1>2, <1>5, <2>1, BuilderTypes DEF BuilderRaises
<1>6. CASE Signalled
  <2>1. Stops /\ builder' = "exited" /\ toBuilder' = <<>> /\ statusOf' = {} /\ asking' = Nothing
    BY <1>6 DEF Signalled, Stops, Exit
  <2> QED BY <1>1, <1>2, <1>6, <2>1, BuilderTypes DEF Signalled
<1>7. CASE BuilderExits
  <2>1. SendsNothing /\ builder' = "exited" /\ toBuilder' = <<>> /\ statusOf' = {} /\ asking' = Nothing
    BY <1>7 DEF BuilderExits, SendsNothing, Exit
  <2> QED BY <1>1, <1>2, <1>7, <2>1, BuilderTypes DEF BuilderExits
<1>8. CASE BuilderHears
  <2>1. /\ toBuilder # <<>>
        /\ UNCHANGED <<vars, fromNode, toNode, sessionVars, nodeVars, lossVars>>
    BY <1>8 DEF BuilderHears
  <2>2. PICK c : BuilderNotes(c)
    BY <1>8 DEF BuilderHears
  <2>3. /\ Stops \/ SendsNothing
        /\ toBuilder' \in {<<>>, Tail(toBuilder)} /\ statusOf' \in {{}, statusOf}
        /\ table' \subseteq table /\ asking' \in {asking, Nothing}
        /\ builder' \in {"running", "stopping", "exited"}
    BY <1>2, <2>2 DEF BuilderNotes, Stops, SendsNothing, Exit
  <2>4. table' \subseteq WorkOf(sent)
    BY <1>2, <2>3
  <2> QED BY <1>1, <1>2, <2>1, <2>3, <2>4, BuilderTypes
<1> QED BY <1>3, <1>4, <1>5, <1>6, <1>7, <1>8 DEF Builder

LEMMA FromNodeSet ==
    ASSUME Channels, Grow, NEW n \in Node, NEW q \in Seq(FromNode(n)'),
           fromNode' = [fromNode EXCEPT ![n] = q]
    PROVE  /\ fromNode' = [k \in Node |-> fromNode'[k]] /\ fromNode'[n] = q
           /\ \A k \in Node : fromNode'[k] \in Seq(FromNode(k)')
<1>1. DOMAIN fromNode = Node
  BY DEF Channels
<1>2. \A k \in Node : fromNode'[k] = IF k = n THEN q ELSE fromNode[k]
  BY <1>1
<1>3. \A k \in Node : fromNode[k] \in Seq(FromNode(k)')
  BY Grown DEF Channels
<1> QED BY <1>1, <1>2, <1>3

LEMMA ToNodeSet ==
    ASSUME Channels, Grow, NEW n \in Node, NEW q \in Seq(ToNode(n)'),
           toNode' = [toNode EXCEPT ![n] = q]
    PROVE  /\ toNode' = [k \in Node |-> toNode'[k]] /\ toNode'[n] = q
           /\ \A k \in Node : toNode'[k] \in Seq(ToNode(k)')
<1>1. DOMAIN toNode = Node
  BY DEF Channels
<1>2. \A k \in Node : toNode'[k] = IF k = n THEN q ELSE toNode[k]
  BY <1>1
<1>3. \A k \in Node : toNode[k] \in Seq(ToNode(k)')
  BY Grown DEF Channels
<1> QED BY <1>1, <1>2, <1>3

\* Channels that a step leaves alone.
LEMMA Unread ==
    ASSUME Channels, Grow
    PROVE  /\ toDispatcher \in Seq(ToDispatcher') /\ toBuilder \in Seq(ToBuilder')
           /\ \A n \in Node : toNode[n] \in Seq(ToNode(n)') /\ fromNode[n] \in Seq(FromNode(n)')
           /\ toNode = [n \in Node |-> toNode[n]] /\ fromNode = [n \in Node |-> fromNode[n]]
  BY Grown DEF Channels

LEMMA ConnectTypes ==
    ASSUME SystemInv, NEW n \in Node, NEW requested \in Own(n) \cup {NoSession},
           ConnectNode(n, requested), UNCHANGED <<received, sent, session>>
    PROVE  /\ Grow /\ Sessions' /\ UNCHANGED <<toDispatcher, toBuilder, lost>>
           /\ \/ UNCHANGED toNode
              \/ \E s \in Own(n)' :
                    toNode' = [toNode EXCEPT ![n] = Append(@, Message("connected", s))]
<1>1. CASE /\ link[n] # NoSession
           /\ UNCHANGED <<known, open, link, targets, toNode, toDispatcher, toBuilder, lost>>
  BY <1>1, SessionsKept DEF SystemInv, sessionVars, Grow
<1>2. CASE ~UNCHANGED <<known, open, link, targets, toNode, toDispatcher, toBuilder, lost>>
  <2>1. PICK s \in Session :
          /\ link[n] = NoSession
          /\ IF requested \in known \ open
             THEN s = requested
             ELSE NodeOf[s] = n /\ s \notin known
          /\ known' = known \cup {s}
          /\ open' = open \cup {s}
          /\ link' = [link EXCEPT ![n] = s]
          /\ toNode' = [toNode EXCEPT ![n] = Append(@, Message("connected", s))]
          /\ UNCHANGED <<targets, toDispatcher, toBuilder, lost>>
    BY <1>2 DEF ConnectNode
  <2>2. /\ open \subseteq known /\ known \subseteq Session /\ NoSession \notin known
        /\ link \in [Node -> open \cup {NoSession}] /\ session \in [Node -> known \cup {NoSession}]
        /\ targets \in [Node -> [Session -> Nat]]
        /\ \A k \in Node : session[k] \in Own(k) \cup {NoSession}
        /\ \A k \in Node : \A t \in Session : targets[k][t] > 0 => t \in Own(k)
    BY MultinodeAssumption DEF SystemInv, Sessions
  <2>3. NodeOf[s] = n
    BY <2>1, <2>2 DEF Own
  <2>4. s \in Own(n)' /\ \A k \in Node : Own(k) \subseteq Own(k)'
    BY <2>1, <2>3 DEF Own
  <2>5. link' \in [Node -> open' \cup {NoSession}]
    BY <2>1, <2>2
  <2>6. session' \in [Node -> known' \cup {NoSession}]
    BY <2>1, <2>2
  <2>7. /\ \A k \in Node : session'[k] \in Own(k)' \cup {NoSession}
        /\ \A k \in Node : \A t \in Session : targets'[k][t] > 0 => t \in Own(k)'
    BY <2>1, <2>2, <2>4
  <2>8. Sessions'
    BY <2>1, <2>2, <2>5, <2>6, <2>7 DEF Sessions
  <2>9. Grow
    BY <2>1 DEF Grow
  <2> QED BY <2>1, <2>4, <2>8, <2>9
<1> QED BY <1>1, <1>2 DEF ConnectNode

LEMMA BusHearsTypes ==
    ASSUME SystemInv, NEW n \in Node, BusHearsNode(n)
    PROVE  TypesNext
<1> DEFINE m == Head(fromNode[n])
<1>1. fromNode[n] \in Seq(FromNode(n)) /\ fromNode[n] # <<>>
  BY DEF BusHearsNode, SystemInv, Channels
<1>2. m \in FromNode(n) /\ Tail(fromNode[n]) \in Seq(FromNode(n))
  BY <1>1, HeadTailProperties
<1>3. /\ fromNode' = [fromNode EXCEPT ![n] = Tail(fromNode[n])]
      /\ UNCHANGED <<vars, builderVars, statusOf, nodeVars, losses, doubled>>
      /\ UNCHANGED <<received, sent, session, builder>> /\ UNCHANGED workerVars
  BY DEF BusHearsNode, vars, builderVars, nodeVars
<1>4. /\ \/ m.kind = "connect" /\ ConnectNode(n, m.content)
         \/ m.kind = "status" /\ PublishStatus(m)
         \/ m.kind = "subscribe" /\ AddSubscriber(n, m.content)
         \/ /\ m.kind \in {"register", "nodeInfo"}
            /\ toDispatcher' = Append(toDispatcher, m)
            /\ UNCHANGED <<known, open, link, targets, toNode, toBuilder, lost>>
  BY DEF BusHearsNode
<1> HIDE DEF m
<1> DEFINE Result ==
      /\ Grow /\ Sessions' /\ lost' \subseteq WorkOf(sent)
      /\ toDispatcher' \in Seq(ToDispatcher') /\ toBuilder' \in Seq(ToBuilder')
      /\ \/ UNCHANGED toNode
         \/ \E q \in Seq(ToNode(n)') : toNode' = [toNode EXCEPT ![n] = q]
<1>5. lost \subseteq WorkOf(sent) /\ received \subseteq sent
  BY DEF SystemInv, Books
<1>6. ASSUME m.kind = "connect", ConnectNode(n, m.content) PROVE Result
  <2>1. m.content \in Own(n) \cup {NoSession}
    BY <1>2, <1>6 DEF FromNode
  <2>2. /\ Grow /\ Sessions' /\ UNCHANGED <<toDispatcher, toBuilder, lost>>
        /\ \/ UNCHANGED toNode
           \/ \E s \in Own(n)' :
                 toNode' = [toNode EXCEPT ![n] = Append(@, Message("connected", s))]
    BY <1>3, <1>6, <2>1, ConnectTypes
  <2>3. toDispatcher' \in Seq(ToDispatcher') /\ toBuilder' \in Seq(ToBuilder')
    BY <2>2, Unread DEF SystemInv
  <2>4. ASSUME NEW s \in Own(n)', toNode' = [toNode EXCEPT ![n] = Append(@, Message("connected", s))]
        PROVE  \E q \in Seq(ToNode(n)') : toNode' = [toNode EXCEPT ![n] = q]
    <3>1. Message("connected", s) \in ToNode(n)'
      BY DEF Message, ToNode
    <3>2. toNode[n] \in Seq(ToNode(n)')
      BY <2>2, Unread DEF SystemInv
    <3>3. Append(toNode[n], Message("connected", s)) \in Seq(ToNode(n)')
      BY <3>1, <3>2, AppendProperties
    <3> QED BY <2>4, <3>3
  <2> QED BY <1>5, <2>2, <2>3, <2>4
<1>7. ASSUME m.kind = "status", PublishStatus(m) PROVE Result
  <2>1. /\ UNCHANGED <<known, open, link, targets, toNode>>
        /\ toDispatcher' = Append(toDispatcher, m)
        /\ \/ m.content \in statusOf /\ toBuilder' = Append(toBuilder, m) /\ UNCHANGED lost
           \/ lost' = lost \cup WorkOf({m.content}) /\ UNCHANGED toBuilder
    BY <1>7 DEF PublishStatus
  <2>2. m \in [kind : {"status"}, content : received]
    BY <1>2, <1>7 DEF FromNode
  <2>3. Grow
    BY <1>3, <2>1 DEF Grow
  <2>4. toDispatcher' \in Seq(ToDispatcher')
    <3>1. m \in ToDispatcher'
      BY <2>2, <2>3 DEF ToDispatcher, Grow
    <3> QED BY <2>1, <2>3, <3>1, Unread, AppendProperties DEF SystemInv
  <2>5. toBuilder' \in Seq(ToBuilder')
    <3>1. m \in ToBuilder'
      BY <1>5, <2>2, <2>3 DEF ToBuilder, Grow
    <3>2. toBuilder \in Seq(ToBuilder')
      BY <2>3, Unread DEF SystemInv
    <3>3. Append(toBuilder, m) \in Seq(ToBuilder')
      BY <3>1, <3>2, AppendProperties
    <3> QED BY <2>1, <3>2, <3>3
  <2>6. Sessions'
    BY <1>3, <2>1, SessionsKept DEF SystemInv, sessionVars
  <2>7. lost' \subseteq WorkOf(sent)
    BY <1>5, <2>1, <2>2 DEF WorkOf
  <2> QED BY <2>1, <2>3, <2>4, <2>5, <2>6, <2>7
<1>8. ASSUME m.kind = "subscribe", AddSubscriber(n, m.content) PROVE Result
  <2>1. /\ targets' = [targets EXCEPT ![n][m.content] = @ + 1]
        /\ UNCHANGED <<known, open, link, toNode, toDispatcher, toBuilder, lost>>
    BY <1>8 DEF AddSubscriber
  <2>2. Grow
    BY <1>3, <2>1 DEF Grow
  <2>3. m.content \in Own(n) /\ m.content \in Session
    BY <1>2, <1>8 DEF FromNode, Own, SystemInv, Sessions
  <2>4. targets \in [Node -> [Session -> Nat]]
    BY DEF SystemInv, Sessions
  <2>5. targets' \in [Node -> [Session -> Nat]]
    BY <2>1, <2>3, <2>4
  <2>6. \A k \in Node : \A t \in Session :
           (k = n /\ t = m.content) \/ targets'[k][t] = targets[k][t]
    BY <2>1, <2>3, <2>4
  <2>7. \A k \in Node : Own(k)' = Own(k)
    BY <2>1 DEF Own
  <2>8. Sessions'
    BY <1>3, <2>1, <2>3, <2>5, <2>6, <2>7 DEF SystemInv, Sessions
  <2> QED BY <1>5, <2>1, <2>2, <2>8, Unread DEF SystemInv
<1>9. ASSUME m.kind \in {"register", "nodeInfo"}, toDispatcher' = Append(toDispatcher, m),
             UNCHANGED <<known, open, link, targets, toNode, toBuilder, lost>>
      PROVE  Result
  <2>1. Grow
    BY <1>3, <1>9 DEF Grow
  <2>2. Own(n) \subseteq known
    BY DEF Own
  <2>3. m \in ToDispatcher
    BY <1>2, <1>9, <2>2 DEF FromNode, ToDispatcher
  <2>4. m \in ToDispatcher'
    BY <1>3, <1>9, <2>3 DEF ToDispatcher
  <2>5. toDispatcher' \in Seq(ToDispatcher')
    BY <1>9, <2>1, <2>4, Unread, AppendProperties DEF SystemInv
  <2>6. Sessions'
    BY <1>3, <1>9, SessionsKept DEF SystemInv, sessionVars
  <2> QED BY <1>5, <1>9, <2>1, <2>5, <2>6, Unread DEF SystemInv
<1>10. Result
  <2> HIDE DEF Result
  <2> QED BY <1>4, <1>6, <1>7, <1>8, <1>9
<1>11. Channels'
  <2>1. Tail(fromNode[n]) \in Seq(FromNode(n)')
    BY <1>2, <1>10, Grown
  <2>2. /\ fromNode' = [k \in Node |-> fromNode'[k]]
        /\ \A k \in Node : fromNode'[k] \in Seq(FromNode(k)')
    BY <1>3, <1>10, <2>1, FromNodeSet DEF SystemInv
  <2>3. /\ toNode' = [k \in Node |-> toNode'[k]]
        /\ \A k \in Node : toNode'[k] \in Seq(ToNode(k)')
    <3>1. CASE UNCHANGED toNode
      BY <1>10, <3>1, Unread DEF SystemInv
    <3>2. CASE \E q \in Seq(ToNode(n)') : toNode' = [toNode EXCEPT ![n] = q]
      BY <1>10, <3>2, ToNodeSet DEF SystemInv
    <3> QED BY <1>10, <3>1, <3>2
  <2> QED BY <1>10, <2>2, <2>3 DEF Channels
<1>12. Books' /\ Numbers'
  BY <1>3, <1>10, NumbersKept DEF SystemInv, Books, builderVars, vars
<1>13. Workers'
  BY <1>3, <1>10, WorkersKept DEF SystemInv
<1> QED BY <1>10, <1>11, <1>12, <1>13 DEF TypesNext

LEMMA BusClosesTypes ==
    ASSUME SystemInv, NEW s \in Session, BusClosesSession(s)
    PROVE  TypesNext
<1>1. /\ s \in open /\ (\A n \in Node : link[n] # s) /\ open' = open \ {s}
      /\ toDispatcher' = Append(toDispatcher, Message("disconnected", s))
      /\ UNCHANGED <<vars, builderVars, toBuilder, statusOf, fromNode, toNode,
                     known, link, targets, nodeVars, lossVars>>
      /\ UNCHANGED <<received, sent, session, builder>> /\ UNCHANGED workerVars
  BY DEF BusClosesSession, vars, builderVars, nodeVars
<1>2. Grow
  BY <1>1 DEF Grow
<1>3. s \in known
  BY <1>1 DEF SystemInv, Sessions
<1>4. Sessions'
  <2>1. link' \in [Node -> open' \cup {NoSession}]
    BY <1>1 DEF SystemInv, Sessions
  <2> QED BY <1>1, <2>1 DEF SystemInv, Sessions, Own
<1>5. toDispatcher' \in Seq(ToDispatcher')
  <2>1. Message("disconnected", s) \in ToDispatcher'
    BY <1>1, <1>3 DEF Message, ToDispatcher
  <2> QED BY <1>1, <1>2, <2>1, Unread, AppendProperties DEF SystemInv
<1>6. Channels'
  <2>1. toBuilder' \in Seq(ToBuilder')
    BY <1>1, <1>2, Unread DEF SystemInv
  <2> QED BY <1>1, <1>2, <1>5, <2>1, NodeChannelsKept DEF SystemInv
<1>7. Books' /\ Numbers'
  BY <1>1, NumbersKept DEF SystemInv, Books, builderVars, lossVars
<1>8. Workers'
  BY <1>1, <1>2, WorkersKept DEF SystemInv
<1> QED BY <1>4, <1>6, <1>7, <1>8 DEF TypesNext

\* What a step of the dispatcher changes besides its own state.
LEMMA DispatchSends ==
    ASSUME Dispatch
    PROVE  /\ toDispatcher # <<>> /\ toDispatcher' = Tail(toDispatcher)
           /\ toNode' = [n \in Node |-> toNode[n] \o Sequence("command", ByArrival(Copies(n)))]
           /\ lost' = lost \cup WorkOf(Assigned \ UNION {SentTo(n) : n \in Node})
           /\ doubled' = doubled \cup {c \in Assigned : \E n \in Node : <<c, 2>> \in Copies(n)}
           /\ UNCHANGED <<builder, table, asking, sent, toBuilder, statusOf, fromNode,
                          sessionVars, session, workerVars, losses>>
<1>1. SendAssigned
  BY DEF Dispatch
<1>2. /\ toDispatcher # <<>> /\ toDispatcher' = Tail(toDispatcher)
      /\ UNCHANGED <<builderVars, toBuilder, statusOf, fromNode, sessionVars, nodeVars, losses>>
  BY DEF Dispatch
<1> QED BY <1>1, <1>2 DEF SendAssigned, builderVars, nodeVars

\* The copies of an assigned command that a node gets.
LEMMA CopiesOf ==
    ASSUME NEW n \in Node
    PROVE  /\ \A x \in Copies(n) : /\ x[1] \in Assigned /\ x = <<x[1], x[2]>>
                                  /\ x[2] \in 1 .. targets[n][ledger'.owner[x[1]]]
           /\ \A c \in Assigned : \A k \in 1 .. targets[n][ledger'.owner[c]] : <<c, k>> \in Copies(n)
           /\ SentTo(n) \subseteq Assigned
<1>1. \A x \in Copies(n) : \E c \in Assigned : \E k \in 1 .. targets[n][ledger'.owner[c]] : x = <<c, k>>
  BY DEF Copies
<1>2. \A c \in Assigned : \A k \in 1 .. targets[n][ledger'.owner[c]] : <<c, k>> \in Copies(n)
  BY DEF Copies
<1> HIDE DEF Copies
<1>3. \A x \in Copies(n) : x[1] \in Assigned /\ x = <<x[1], x[2]>>
                           /\ x[2] \in 1 .. targets[n][ledger'.owner[x[1]]]
  BY <1>1
<1> QED BY <1>2, <1>3 DEF SentTo

\* The commands it sends to a node, in their order.
LEMMA DispatchedTo ==
    ASSUME IInv, Sessions, Dispatch, NEW n \in Node,
           NEW q, q = Sequence("command", ByArrival(Copies(n)))
    PROVE  /\ q \in Seq([kind : {"command"}, content : SentTo(n)])
           /\ Len(q) = Cardinality(Copies(n))
           /\ \E f \in Bijection(1 .. Len(q), Copies(n)) :
                 \A i \in 1 .. Len(q) : q[i] = Message("command", f[i][1])
           /\ IsFiniteSet(Copies(n)) /\ Copies(n) \subseteq Command \X Nat
<1>1. Assigned \subseteq received' /\ \A c \in Assigned : ledger'.owner[c] \in Session
  BY DispatchOutcome
<1>2. received' \subseteq Command /\ IsFiniteSet(received')
      /\ \A c, d \in received' : c.id = d.id => c = d
  BY DispatchOutcome DEF IInv, TypeOK, IdsUnique
<1>3. \A c \in Assigned : targets[n][ledger'.owner[c]] \in Nat
  BY <1>1 DEF Sessions
<1>4. IsFiniteSet(Assigned)
  BY <1>1, <1>2, FS_Subset
<1>5. IsFiniteSet(Copies(n))
  <2> DEFINE of(c) == {c} \X (1 .. targets[n][ledger'.owner[c]])
             parts == {of(c) : c \in Assigned}
  <2>1. ASSUME NEW c \in Assigned PROVE IsFiniteSet(of(c))
    <3> DEFINE k == targets[n][ledger'.owner[c]]
    <3>1. k \in Int /\ 1 \in Int
      BY <1>3, <2>1
    <3> HIDE DEF k
    <3>2. IsFiniteSet({c}) /\ IsFiniteSet(1 .. k)
      BY <3>1, FS_Singleton, FS_Interval
    <3>3. IsFiniteSet({c} \X (1 .. k))
      BY <3>2, FS_Product
    <3> QED BY <3>3 DEF k
  <2>2. IsFiniteSet(parts)
    <3> DEFINE g == [c \in Assigned |-> of(c)]
    <3>1. g \in Surjection(Assigned, parts)
      BY DEF Surjection
    <3> HIDE DEF g, parts
    <3> QED BY <1>4, <3>1, FS_Surjection
  <2>3. Copies(n) = (UNION parts)
    BY DEF Copies
  <2>4. \A T \in parts : IsFiniteSet(T)
    BY <2>1
  <2> HIDE DEF parts
  <2> QED BY <2>2, <2>3, <2>4, FS_UNION
<1>6. Copies(n) \subseteq Command \X Nat
  <2> SUFFICES ASSUME NEW x \in Copies(n) PROVE x \in Command \X Nat
    OBVIOUS
  <2>1. /\ x[1] \in Assigned /\ x = <<x[1], x[2]>>
        /\ x[2] \in 1 .. targets[n][ledger'.owner[x[1]]]
    BY CopiesOf
  <2> QED BY <1>1, <1>2, <1>3, <2>1
<1>7. \A x, y \in Copies(n) : x[1].id = y[1].id => x[1] = y[1]
  BY <1>1, <1>2, CopiesOf
<1>8. \A x \in Copies(n) : x[1] \in SentTo(n)
  BY DEF SentTo
<1> DEFINE X == Copies(n)
           C == SentTo(n)
<1>9. Listable(X) /\ (\A x \in X : x[1] \in C) /\ q = Sequence("command", ByArrival(X))
  BY <1>5, <1>6, <1>7, <1>8 DEF Listable
<1> HIDE DEF X, C
<1>10. Lists(q, X, C)
  BY <1>9, InOrder
<1> QED BY <1>5, <1>6, <1>10 DEF X, C, Lists

LEMMA DispatchTypes ==
    ASSUME SystemInv, Dispatch
    PROVE  TypesNext
<1> DEFINE m == Head(toDispatcher)
<1>1. /\ toDispatcher # <<>> /\ toDispatcher' = Tail(toDispatcher)
      /\ toNode' = [n \in Node |-> toNode[n] \o Sequence("command", ByArrival(Copies(n)))]
      /\ doubled' = doubled \cup {c \in Assigned : \E n \in Node : <<c, 2>> \in Copies(n)}
      /\ lost' = lost \cup WorkOf(Assigned \ UNION {SentTo(n) : n \in Node})
      /\ UNCHANGED <<builder, table, asking, sent, toBuilder, statusOf, fromNode,
                     sessionVars, session, workerVars, losses>>
  BY DispatchSends
<1>2. /\ IInv' /\ Outcome(m) /\ Assigned \subseteq received'
  BY DispatchOutcome DEF SystemInv
<1>3. m \in ToDispatcher /\ Tail(toDispatcher) \in Seq(ToDispatcher)
  BY <1>1, HeadTailProperties DEF SystemInv, Channels
<1> HIDE DEF m
<1>4. received \subseteq received' /\ received' \subseteq sent
  BY <1>2, <1>3 DEF Outcome, ToDispatcher, SystemInv, Books
<1>5. Grow
  BY <1>1, <1>4 DEF Grow, sessionVars
<1>6. \A n \in Node : toNode'[n] \in Seq(ToNode(n)')
  <2> TAKE n \in Node
  <2> DEFINE q == Sequence("command", ByArrival(Copies(n)))
             S == [kind : {"command"}, content : SentTo(n)]
  <2>1. q \in Seq(S) /\ SentTo(n) \subseteq Assigned
    BY DispatchedTo, CopiesOf DEF SystemInv
  <2>2. S \subseteq ToNode(n)'
    BY <1>2, <2>1 DEF ToNode
  <2>3. toNode'[n] = toNode[n] \o q
    BY <1>1
  <2> HIDE DEF q, S
  <2>4. q \in Seq(ToNode(n)')
    BY <2>1, <2>2, SeqMonotonic
  <2>5. toNode[n] \in Seq(ToNode(n)')
    BY <1>5, Unread DEF SystemInv
  <2> QED BY <2>3, <2>4, <2>5, ConcatProperties
<1>7. Channels'
  <2>1. toDispatcher' \in Seq(ToDispatcher')
    BY <1>1, <1>3, <1>5, Grown
  <2>2. toBuilder' \in Seq(ToBuilder')
    BY <1>1, <1>5, Unread DEF SystemInv
  <2>3. toNode' = [n \in Node |-> toNode'[n]]
    BY <1>1
  <2>4. fromNode' = [n \in Node |-> fromNode'[n]] /\ \A n \in Node : fromNode'[n] \in Seq(FromNode(n)')
    BY <1>1, <1>5, Unread DEF SystemInv
  <2> QED BY <1>6, <2>1, <2>2, <2>3, <2>4 DEF Channels
<1>8. Numbers'
  BY <1>1, NumbersKept DEF SystemInv
<1>9. Books'
  <2>1. lost' \subseteq WorkOf(sent)
    <3>1. WorkOf(Assigned \ UNION {SentTo(n) : n \in Node}) \subseteq WorkOf(sent)
      BY <1>2, <1>4 DEF WorkOf
    <3> QED BY <1>1, <3>1 DEF SystemInv, Books
  <2> QED BY <1>1, <1>2, <1>4, <2>1 DEF SystemInv, Books
<1>10. Sessions' /\ Workers'
  BY <1>1, <1>5, SessionsKept, WorkersKept DEF SystemInv
<1> QED BY <1>7, <1>8, <1>9, <1>10 DEF TypesNext

\* What a node does to the channels: it reads a message, writes some, and may
\* have learned its session.
LEMMA NodeTypes ==
    ASSUME SystemInv, NEW n \in Node, Workers',
           UNCHANGED <<vars, builderVars, toBuilder, statusOf, toDispatcher, sessionVars, lossVars>>,
           \/ UNCHANGED toNode
           \/ toNode[n] # <<>> /\ toNode' = [toNode EXCEPT ![n] = Tail(@)],
           \/ UNCHANGED fromNode
           \/ \E q \in Seq(FromNode(n)) : Tell(n, q),
           \/ UNCHANGED session
           \/ \E s \in Own(n) : session' = [session EXCEPT ![n] = s]
    PROVE  TypesNext
<1>1. Grow /\ UNCHANGED <<received, sent, builder, table, asking, lost, doubled, known, open, link,
                           targets>>
  BY DEF Grow, vars, builderVars, sessionVars, lossVars
<1>2. Books' /\ Numbers'
  BY <1>1, NumbersKept DEF SystemInv, Books
<1>3. Sessions'
  <2>1. \A s \in Own(n) : s \in known
    BY DEF Own
  <2> QED BY <1>1, <2>1 DEF SystemInv, Sessions, Own
<1>4. toDispatcher' \in Seq(ToDispatcher') /\ toBuilder' \in Seq(ToBuilder')
  BY <1>1, Unread DEF SystemInv
<1>5. toNode' = [k \in Node |-> toNode'[k]] /\ \A k \in Node : toNode'[k] \in Seq(ToNode(k)')
  <2>1. CASE UNCHANGED toNode
    BY <1>1, <2>1, Unread DEF SystemInv
  <2>2. CASE toNode[n] # <<>> /\ toNode' = [toNode EXCEPT ![n] = Tail(@)]
    <3>1. toNode[n] \in Seq(ToNode(n)')
      BY <1>1, Unread DEF SystemInv
    <3>2. Tail(toNode[n]) \in Seq(ToNode(n)')
      BY <2>2, <3>1, HeadTailProperties
    <3> QED BY <1>1, <2>2, <3>2, ToNodeSet DEF SystemInv
  <2> QED BY <2>1, <2>2
<1>6. fromNode' = [k \in Node |-> fromNode'[k]] /\ \A k \in Node : fromNode'[k] \in Seq(FromNode(k)')
  <2>1. CASE UNCHANGED fromNode
    BY <1>1, <2>1, Unread DEF SystemInv
  <2>2. CASE \E q \in Seq(FromNode(n)) : Tell(n, q)
    <3>1. PICK q \in Seq(FromNode(n)) : fromNode' = [fromNode EXCEPT ![n] = @ \o q]
      BY <2>2 DEF Tell
    <3>2. q \in Seq(FromNode(n)') /\ fromNode[n] \in Seq(FromNode(n)')
      BY <1>1, Grown, Unread DEF SystemInv
    <3>3. fromNode[n] \o q \in Seq(FromNode(n)')
      BY <3>2, ConcatProperties
    <3> QED BY <1>1, <3>1, <3>3, FromNodeSet DEF SystemInv
  <2> QED BY <2>1, <2>2
<1>7. Channels'
  BY <1>4, <1>5, <1>6 DEF Channels
<1> QED BY <1>2, <1>3, <1>7 DEF TypesNext

\* A status, of a command the dispatcher has sent.
LEMMA StatusTypes ==
    ASSUME NEW n \in Node, NEW c \in received
    PROVE  Status(c) \in Seq(FromNode(n))
<1>1. Message("status", c) \in FromNode(n)
  BY DEF Message, FromNode
<1> QED BY <1>1 DEF Status

LEMMA ReceiveTypes ==
    ASSUME SystemInv, NEW n \in Node, Receive(n)
    PROVE  TypesNext
<1> DEFINE m == Head(toNode[n])
<1>1. /\ toNode[n] # <<>> /\ toNode' = [toNode EXCEPT ![n] = Tail(@)]
      /\ \/ m.kind = "connected" /\ Connected(n, m.content)
         \/ m.kind = "command" /\ CommandArrives(n, m.content)
         \/ m.kind = "command" /\ StopArrives(n, m.content)
      /\ UNCHANGED <<vars, builderVars, toBuilder, statusOf, toDispatcher,
                     sessionVars, lossVars>>
  BY DEF Receive, Reads
<1>2. m \in ToNode(n)
  BY <1>1, HeadTailProperties DEF SystemInv, Channels
<1> HIDE DEF m
<1>3. UNCHANGED received /\ Grow
  BY <1>1 DEF vars, builderVars, sessionVars, Grow
<1>4. CASE m.kind = "connected" /\ Connected(n, m.content)
  <2> DEFINE q == <<Message("register", m.content), Message("subscribe", m.content)>>
  <2>1. m.content \in Own(n)
    BY <1>2, <1>4 DEF ToNode
  <2>2. Message("register", m.content) \in FromNode(n) /\ Message("subscribe", m.content) \in FromNode(n)
    BY <2>1 DEF Message, FromNode
  <2>3. q \in Seq(FromNode(n))
    BY <2>2
  <2>4. Tell(n, q) /\ session' = [session EXCEPT ![n] = m.content] /\ UNCHANGED workerVars
    BY <1>4 DEF Connected
  <2>5. Workers'
    BY <1>3, <2>4, WorkersKept DEF SystemInv
  <2> HIDE DEF q
  <2> QED BY <1>1, <2>1, <2>3, <2>4, <2>5, NodeTypes
<1>5. CASE m.kind = "command" /\ CommandArrives(n, m.content)
  <2>1. /\ ~IsStop(m.content) /\ waiting' = [waiting EXCEPT ![n] = Append(@, m.content)]
        /\ due' = [due EXCEPT ![n] = TRUE]
        /\ UNCHANGED <<session, running, stuck, stopping, fromNode>>
    BY <1>5 DEF CommandArrives
  <2>2. m.content \in WorkOf(received)
    BY <1>2, <1>5, <2>1 DEF ToNode, WorkOf
  <2>3. waiting' \in [Node -> Seq(WorkOf(received))]
    <3>1. waiting[n] \in Seq(WorkOf(received))
      BY DEF SystemInv, Workers
    <3>2. Append(waiting[n], m.content) \in Seq(WorkOf(received))
      BY <2>2, <3>1, AppendProperties
    <3> QED BY <2>1, <3>2 DEF SystemInv, Workers
  <2>4. Workers'
    BY <1>3, <2>1, <2>3 DEF SystemInv, Workers
  <2> QED BY <1>1, <2>1, <2>4, NodeTypes
<1>6. CASE m.kind = "command" /\ StopArrives(n, m.content)
  <2>1. /\ IsStop(m.content)
        /\ stopping' = stopping \/ stopping' = [stopping EXCEPT ![n] = m.content]
        /\ due' = [due EXCEPT ![n] = waiting[n] # <<>>]
        /\ UNCHANGED <<session, waiting, running, stuck, fromNode>>
    BY <1>6 DEF StopArrives
  <2>2. m.content \in received \ WorkOf(received)
    BY <1>2, <1>6, <2>1 DEF ToNode, WorkOf
  <2>3. stopping' \in [Node -> (received \ WorkOf(received)) \cup {Nothing}]
    BY <2>1, <2>2 DEF SystemInv, Workers
  <2>4. due' \in [Node -> BOOLEAN]
    BY <2>1 DEF SystemInv, Workers
  <2>5. Workers'
    BY <1>3, <2>1, <2>3, <2>4 DEF SystemInv, Workers
  <2> QED BY <1>1, <2>1, <2>5, NodeTypes
<1> QED BY <1>1, <1>4, <1>5, <1>6

LEMMA StartTypes ==
    ASSUME SystemInv, NEW n \in Node, StartNext(n)
    PROVE  TypesNext
<1> DEFINE c == Head(waiting[n])
<1>1. /\ waiting[n] # <<>> /\ due' = [due EXCEPT ![n] = FALSE]
      /\ Started(n, c) \/ StartFails(n, c) \/ NotReady(n, c) \/ NotInstantiated(n, c)
      /\ UNCHANGED <<vars, builderVars, toBuilder, statusOf, toDispatcher,
                     toNode, sessionVars, session, stopping, lossVars>>
  BY DEF StartNext
<1>2. c \in WorkOf(received) /\ Tail(waiting[n]) \in Seq(WorkOf(received))
  BY <1>1, HeadTailProperties DEF SystemInv, Workers
<1> HIDE DEF c
<1>3. Append(Tail(waiting[n]), c) \in Seq(WorkOf(received))
  BY <1>2, AppendProperties
<1>4. /\ \/ waiting' = [waiting EXCEPT ![n] = Tail(@)]
         \/ waiting' = [waiting EXCEPT ![n] = Append(Tail(@), c)]
      /\ UNCHANGED running \/ running' = [running EXCEPT ![n] = Append(@, c)]
      /\ UNCHANGED stuck \/ stuck' = [stuck EXCEPT ![n] = @ + Cardinality(ChrootsOf({c}))]
      /\ UNCHANGED fromNode \/ Tell(n, Status(c))
  BY <1>1 DEF Started, StartFails, NotReady, NotInstantiated
<1>5. UNCHANGED received
  BY <1>1 DEF vars
<1>6. waiting' \in [Node -> Seq(WorkOf(received))]
  BY <1>2, <1>3, <1>4 DEF SystemInv, Workers
<1>7. running' \in [Node -> Seq(WorkOf(received))]
  <2>1. Append(running[n], c) \in Seq(WorkOf(received))
    BY <1>2, AppendProperties DEF SystemInv, Workers
  <2> QED BY <1>4, <2>1 DEF SystemInv, Workers
<1>8. stuck' \in [Node -> Nat]
  <2>1. Cardinality(ChrootsOf({c})) \in Nat
    <3>1. IsFiniteSet({c}) /\ ChrootsOf({c}) \subseteq {c}
      BY FS_Singleton DEF ChrootsOf
    <3> QED BY <3>1, FS_Subset, FS_CardinalityType
  <2> QED BY <1>4, <2>1 DEF SystemInv, Workers
<1>9. due' \in [Node -> BOOLEAN]
  BY <1>1 DEF SystemInv, Workers
<1>10. Workers'
  BY <1>1, <1>5, <1>6, <1>7, <1>8, <1>9 DEF SystemInv, Workers
<1>11. Status(c) \in Seq(FromNode(n))
  BY <1>2, StatusTypes DEF WorkOf
<1> QED BY <1>1, <1>4, <1>10, <1>11, NodeTypes

LEMMA QueuedTypes ==
    ASSUME SystemInv, NEW n \in Node
    PROVE  Queued(n) \cup Running(n) \subseteq WorkOf(received) /\ WorkOf(received) \subseteq received
<1>1. waiting[n] \in Seq(WorkOf(received)) /\ running[n] \in Seq(WorkOf(received))
  BY DEF SystemInv, Workers
<1>2. \A i \in DOMAIN waiting[n] : waiting[n][i] \in WorkOf(received)
  BY <1>1, ElementOfSeq, LenProperties
<1>3. \A i \in DOMAIN running[n] : running[n][i] \in WorkOf(received)
  BY <1>1, ElementOfSeq, LenProperties
<1> QED BY <1>2, <1>3 DEF Queued, Running, ToSet, WorkOf

\* A connection breaks, and its node keeps some last messages, or none.
LEMMA ReconnectTypes ==
    ASSUME SystemInv, NEW n \in Node, NEW kept \in Seq(FromNode(n)),
           NEW requested \in Own(n) \cup {NoSession}, Reconnect(n, kept, requested),
           Workers', session' \in {session, [session EXCEPT ![n] = NoSession]},
           NEW L, lost' = lost \cup WorkOf(L), L \subseteq received
    PROVE  TypesNext
<1>1. /\ fromNode' = [fromNode EXCEPT ![n] = Append(kept, Message("connect", requested))]
      /\ toNode' = [toNode EXCEPT ![n] = <<>>]
      /\ link' = [link EXCEPT ![n] = NoSession]
      /\ targets' = [targets EXCEPT ![n] = [s \in Session |-> 0]]
      /\ UNCHANGED <<vars, builderVars, toBuilder, statusOf, toDispatcher, known, open, doubled>>
  BY DEF Reconnect
<1>2. Grow /\ UNCHANGED <<received, sent, builder, table, asking>>
  BY <1>1 DEF Grow, vars, builderVars
<1>3. toDispatcher' \in Seq(ToDispatcher') /\ toBuilder' \in Seq(ToBuilder')
  BY <1>1, <1>2, Unread DEF SystemInv
<1>4. toNode' = [k \in Node |-> toNode'[k]] /\ \A k \in Node : toNode'[k] \in Seq(ToNode(k)')
  <2>1. <<>> \in Seq(ToNode(n)')
    BY EmptySeq
  <2> QED BY <1>1, <1>2, <2>1, ToNodeSet DEF SystemInv
<1>5. fromNode' = [k \in Node |-> fromNode'[k]] /\ \A k \in Node : fromNode'[k] \in Seq(FromNode(k)')
  <2>1. kept \in Seq(FromNode(n)')
    BY <1>2, Grown
  <2>2. Message("connect", requested) \in FromNode(n)'
    BY <1>1 DEF Message, FromNode, Own
  <2>3. Append(kept, Message("connect", requested)) \in Seq(FromNode(n)')
    BY <2>1, <2>2, AppendProperties
  <2> QED BY <1>1, <1>2, <2>3, FromNodeSet DEF SystemInv
<1>6. Channels'
  BY <1>3, <1>4, <1>5 DEF Channels
<1>7. Numbers'
  BY <1>2, NumbersKept DEF SystemInv
<1>8. Books'
  <2>1. WorkOf(L) \subseteq WorkOf(sent)
    BY DEF SystemInv, Books, WorkOf
  <2> QED BY <1>1, <1>2, <2>1 DEF SystemInv, Books
<1>9. Sessions'
  <2>1. link' \in [Node -> open' \cup {NoSession}] /\ session' \in [Node -> known' \cup {NoSession}]
    BY <1>1 DEF SystemInv, Sessions
  <2>2. \A k \in Node : session'[k] \in Own(k)' \cup {NoSession}
    BY <1>1 DEF SystemInv, Sessions, Own
  <2>3. targets \in [Node -> [Session -> Nat]] /\ [s \in Session |-> 0] \in [Session -> Nat]
    BY DEF SystemInv, Sessions
  <2>4. targets' \in [Node -> [Session -> Nat]]
    BY <1>1, <2>3
  <2>5. ASSUME NEW k \in Node, NEW s \in Session, targets'[k][s] > 0 PROVE s \in Own(k)'
    <3>1. k # n /\ targets'[k] = targets[k]
      BY <1>1, <2>3, <2>5
    <3> QED BY <1>1, <2>5, <3>1 DEF SystemInv, Sessions, Own
  <2> QED BY <1>1, <2>1, <2>2, <2>4, <2>5 DEF SystemInv, Sessions
<1> QED BY <1>6, <1>7, <1>8, <1>9 DEF TypesNext

LEMMA InTransitTypes ==
    ASSUME SystemInv, NEW n \in Node
    PROVE  InTransit(n) \subseteq received
<1>1. toNode[n] \in Seq(ToNode(n)) /\ fromNode[n] \in Seq(FromNode(n))
  BY DEF SystemInv, Channels
<1>2. \A i \in DOMAIN toNode[n] : toNode[n][i] \in ToNode(n)
  BY <1>1, ElementOfSeq, LenProperties
<1>3. \A i \in DOMAIN fromNode[n] : fromNode[n][i] \in FromNode(n)
  BY <1>1, ElementOfSeq, LenProperties
<1>4. Carried(toNode[n], "command") \subseteq received
  BY <1>2 DEF Carried, ToNode
<1>5. Carried(fromNode[n], "status") \subseteq received
  BY <1>3 DEF Carried, FromNode
<1> QED BY <1>4, <1>5 DEF InTransit

LEMMA RestartTypes ==
    ASSUME SystemInv, NEW n \in Node, Restart(n)
    PROVE  TypesNext
<1> DEFINE L == InTransit(n) \cup Queued(n) \cup Running(n)
<1>1. /\ Reconnect(n, <<>>, NoSession)
      /\ session' = [session EXCEPT ![n] = NoSession]
      /\ waiting' = [waiting EXCEPT ![n] = <<>>]
      /\ due' = [due EXCEPT ![n] = FALSE]
      /\ running' = [running EXCEPT ![n] = <<>>]
      /\ stuck' = [stuck EXCEPT ![n] = 0]
      /\ stopping' = [stopping EXCEPT ![n] = Nothing]
      /\ lost' = lost \cup WorkOf(L)
  BY DEF Restart
<1>2. L \subseteq received
  BY InTransitTypes, QueuedTypes
<1>3. UNCHANGED received
  BY <1>1 DEF Reconnect, vars
<1>4. waiting' \in [Node -> Seq(WorkOf(received))] /\ running' \in [Node -> Seq(WorkOf(received))]
  BY <1>1, EmptySeq DEF SystemInv, Workers
<1>5. Workers'
  BY <1>1, <1>3, <1>4 DEF SystemInv, Workers
<1>6. <<>> \in Seq(FromNode(n))
  BY EmptySeq
<1> HIDE DEF L
<1> QED BY <1>1, <1>2, <1>5, <1>6, ReconnectTypes

LEMMA NodeStepTypes ==
    ASSUME SystemInv, NEW n \in Node, NodeStep(n)
    PROVE  TypesNext
<1>1. CASE Receive(n)
  BY <1>1, ReceiveTypes
<1>2. CASE StartNext(n)
  BY <1>2, StartTypes
<1>3. CASE ChildEnds(n)
  <2>1. PICK i \in DOMAIN running[n] :
          /\ due' = [due EXCEPT ![n] = FALSE]
          /\ running' = [running EXCEPT ![n] = RemoveAt(@, i)]
          /\ Tell(n, Status(running[n][i]))
          /\ UNCHANGED <<vars, builderVars, toBuilder, statusOf, toDispatcher, toNode,
                         sessionVars, session, waiting, stuck, stopping, lossVars>>
    BY <1>3 DEF ChildEnds, ChildDies
  <2>2. running[n] \in Seq(WorkOf(received))
    BY DEF SystemInv, Workers
  <2>3. i \in 1 .. Len(running[n]) /\ running[n][i] \in WorkOf(received)
    BY <2>2, ElementOfSeq, LenProperties
  <2>4. Status(running[n][i]) \in Seq(FromNode(n))
    BY <2>3, StatusTypes DEF WorkOf
  <2>5. RemoveAt(running[n], i) \in Seq(WorkOf(received))
    BY <2>2, <2>3, Removed
  <2>6. UNCHANGED received
    BY <2>1 DEF vars
  <2>7. Workers'
    BY <2>1, <2>5, <2>6 DEF SystemInv, Workers
  <2> QED BY <2>1, <2>4, <2>7, NodeTypes
<1>4. CASE StopEnds(n)
  <2>1. /\ stopping[n] # Nothing /\ stopping' = [stopping EXCEPT ![n] = Nothing]
        /\ Tell(n, Status(stopping[n]))
        /\ UNCHANGED <<vars, builderVars, toBuilder, statusOf, toDispatcher, toNode,
                       sessionVars, session, waiting, due, running, stuck, lossVars>>
    BY <1>4 DEF StopEnds
  <2>2. stopping[n] \in received /\ Status(stopping[n]) \in Seq(FromNode(n))
    BY <2>1, StatusTypes DEF SystemInv, Workers
  <2>3. UNCHANGED received
    BY <2>1 DEF vars
  <2>4. Workers'
    BY <2>1, <2>3 DEF SystemInv, Workers
  <2> QED BY <2>1, <2>2, <2>4, NodeTypes
<1>5. CASE Heartbeat(n)
  <2> DEFINE h == NodeInfo(session[n], Running(n) \cup Queued(n))
  <2>1. /\ session[n] # NoSession /\ Tell(n, <<h>>)
        /\ UNCHANGED <<vars, builderVars, toBuilder, statusOf, toDispatcher, toNode,
                       sessionVars, nodeVars, lossVars>>
    BY <1>5 DEF Heartbeat
  <2>2. Running(n) \cup Queued(n) \subseteq received
    BY QueuedTypes
  <2>3. session[n] \in Own(n)
    BY <2>1 DEF SystemInv, Sessions
  <2>4. h \in FromNode(n)
    BY <2>2, <2>3 DEF NodeInfo, Message, FromNode
  <2> HIDE DEF h
  <2>5. <<h>> \in Seq(FromNode(n))
    BY <2>4
  <2>6. Grow /\ UNCHANGED workerVars /\ UNCHANGED session
    BY <2>1 DEF Grow, vars, builderVars, sessionVars, nodeVars
  <2>7. Workers'
    BY <2>6, WorkersKept DEF SystemInv
  <2> QED BY <2>1, <2>5, <2>6, <2>7, NodeTypes
<1> QED BY <1>1, <1>2, <1>3, <1>4, <1>5 DEF NodeStep

LEMMA LossTypes ==
    ASSUME SystemInv, NEW n \in Node, Loss(n)
    PROVE  TypesNext
<1>1. CASE ConnectionBreaks(n)
  <2>1. PICK kept \in Suffixes(fromNode[n]) :
          /\ Reconnect(n, kept, session[n])
          /\ lost' = lost \cup WorkOf(InTransit(n) \ Carried(kept, "status"))
    BY <1>1 DEF ConnectionBreaks
  <2>2. fromNode[n] \in Seq(FromNode(n))
    BY DEF SystemInv, Channels
  <2>3. kept \in Seq(FromNode(n))
    BY <2>2, SuffixOf
  <2>4. session[n] \in Own(n) \cup {NoSession}
    BY DEF SystemInv, Sessions
  <2>5. InTransit(n) \ Carried(kept, "status") \subseteq received
    BY InTransitTypes
  <2>6. UNCHANGED session /\ UNCHANGED workerVars
    BY <1>1 DEF ConnectionBreaks, nodeVars
  <2>7. Grow
    BY <2>1 DEF Reconnect, Grow, vars, builderVars
  <2>8. Workers'
    BY <2>6, <2>7, WorkersKept DEF SystemInv
  <2> QED BY <2>1, <2>3, <2>4, <2>5, <2>6, <2>8, ReconnectTypes
<1>2. CASE NodeDies(n) \/ NodeAborts(n)
  BY <1>2, RestartTypes DEF NodeDies, NodeAborts
<1> QED BY <1>1, <1>2 DEF Loss

LEMMA StutterTypes ==
    ASSUME SystemInv, UNCHANGED systemVars
    PROVE  TypesNext
<1>1. /\ UNCHANGED <<received, sent, known, builder, table, asking, statusOf, lost, doubled>>
      /\ UNCHANGED <<toDispatcher, toBuilder, toNode, fromNode, sessionVars, session, workerVars>>
  BY DEF systemVars, vars, builderVars, netVars, sessionVars, nodeVars, lossVars
<1>2. Grow
  BY <1>1 DEF Grow
<1>3. Channels'
  BY <1>1, <1>2, Unread DEF SystemInv, Channels
<1>4. Numbers' /\ Books' /\ Sessions'
  BY <1>1, NumbersKept, SessionsKept DEF SystemInv, Books
<1>5. Workers'
  BY <1>1, <1>2, WorkersKept DEF SystemInv
<1> QED BY <1>3, <1>4, <1>5 DEF TypesNext

LEMMA SystemInitInv == SystemInit => SystemInv
<1> SUFFICES ASSUME SystemInit PROVE SystemInv
  OBVIOUS
<1>1. /\ Init /\ received = {}
      /\ builder = "running" /\ table = {} /\ asking = Nothing /\ sent = {}
      /\ toBuilder = <<>> /\ statusOf = {} /\ toDispatcher = <<>>
      /\ fromNode = [n \in Node |-> <<Message("connect", NoSession)>>]
      /\ toNode = [n \in Node |-> <<>>]
      /\ known = {} /\ open = {} /\ link = [n \in Node |-> NoSession]
      /\ targets = [n \in Node |-> [s \in Session |-> 0]] /\ session = [n \in Node |-> NoSession]
      /\ waiting = [n \in Node |-> <<>>] /\ due = [n \in Node |-> FALSE]
      /\ running = [n \in Node |-> <<>>] /\ stuck = [n \in Node |-> 0]
      /\ stopping = [n \in Node |-> Nothing] /\ lost = {} /\ doubled = {}
  BY DEF SystemInit, Init
<1>2. IInv
  BY <1>1, InitInv
<1>3. Channels
  <2>1. \A n \in Node : fromNode[n] = <<Message("connect", NoSession)>> /\ toNode[n] = <<>>
    BY <1>1
  <2>2. \A n \in Node : Message("connect", NoSession) \in FromNode(n)
    BY DEF Message, FromNode
  <2>3. \A n \in Node : fromNode[n] \in Seq(FromNode(n)) /\ toNode[n] \in Seq(ToNode(n))
    <3> TAKE n \in Node
    <3>1. <<Message("connect", NoSession)>> \in Seq(FromNode(n))
      BY <2>2
    <3>2. <<>> \in Seq(ToNode(n))
      BY EmptySeq
    <3> QED BY <2>1, <3>1, <3>2
  <2> QED BY <1>1, <2>3, EmptySeq DEF Channels
<1>4. Numbers
  BY <1>1, FS_EmptySet DEF Numbers, Numbered, WorkOf
<1>5. Books
  BY <1>1 DEF Books, WorkOf
<1>6. Sessions
  <2>1. /\ targets \in [Node -> [Session -> Nat]]
        /\ \A n \in Node : \A s \in Session : ~(targets[n][s] > 0)
    BY <1>1
  <2>2. /\ open \subseteq known /\ known \subseteq Session
        /\ link \in [Node -> open \cup {NoSession}] /\ session \in [Node -> known \cup {NoSession}]
        /\ \A n \in Node : session[n] = NoSession
    BY <1>1
  <2> QED BY <2>1, <2>2 DEF Sessions
<1>7. Workers
  BY <1>1, EmptySeq DEF Workers
<1> QED BY <1>2, <1>3, <1>4, <1>5, <1>6, <1>7 DEF SystemInv

LEMMA SystemNextTypes == SystemInv /\ [SystemNext]_systemVars => SystemInv'
<1> SUFFICES ASSUME SystemInv, [SystemNext]_systemVars PROVE SystemInv'
  OBVIOUS
<1>1. IInv'
  <2>1. CASE Dispatch
    BY <2>1, DispatchIsHandler, NextInv DEF SystemInv
  <2>2. CASE SystemNext /\ ~Dispatch
    BY <2>2, OthersKeepDispatcher, NextInv DEF SystemInv
  <2>3. CASE UNCHANGED systemVars
    <3>1. UNCHANGED vars
      BY <2>3 DEF systemVars
    <3> QED BY <3>1, NextInv DEF SystemInv
  <2> QED BY <2>1, <2>2, <2>3
<1>2. TypesNext
  <2>1. CASE Builder
    BY <2>1, BuilderStepTypes
  <2>2. CASE \E n \in Node : BusHearsNode(n)
    BY <2>2, BusHearsTypes
  <2>3. CASE \E s \in Session : BusClosesSession(s)
    BY <2>3, BusClosesTypes
  <2>4. CASE Dispatch
    BY <2>4, DispatchTypes
  <2>5. CASE \E n \in Node : NodeStep(n)
    BY <2>5, NodeStepTypes
  <2>6. CASE \E n \in Node : Loss(n)
    BY <2>6, LossTypes
  <2>7. CASE UNCHANGED systemVars
    BY <2>7, StutterTypes
  <2> QED BY <2>1, <2>2, <2>3, <2>4, <2>5, <2>6, <2>7 DEF SystemNext
<1> QED BY <1>1, <1>2 DEF TypesNext, SystemInv

\* The types of the whole system, and with them: the bus gives a node only its own
\* sessions, no command reaches a node that the dispatcher has not received, and a
\* builder that runs has stopped nothing.
THEOREM SystemInvariance == SystemSpec => []SystemInv
BY SystemInitInv, SystemNextTypes, PTL DEF SystemSpec

THEOREM SystemTypeCorrect == SystemSpec => []SystemTypeOK
<1>1. SystemInv => SystemTypeOK
  <2> SUFFICES ASSUME SystemInv PROVE SystemTypeOK
    OBVIOUS
  <2>1. \A n \in Node : Queued(n) \cup Running(n) \subseteq WorkOf(received)
    BY QueuedTypes
  <2>2. WorkOf(sent) \subseteq sent
    BY DEF WorkOf
  <2>3. /\ builder \in {"running", "stopping", "exited"}
        /\ asking \in sent \cup {Nothing} /\ table \subseteq sent /\ sent \subseteq Command
        /\ received \subseteq sent /\ lost \subseteq WorkOf(sent)
        /\ doubled \subseteq received
    BY <2>2 DEF SystemInv, Books, Numbers
  <2>4. \A n \in Node :
          /\ stuck[n] \in Nat /\ due[n] \in BOOLEAN
          /\ stopping[n] \in received \cup {Nothing}
    BY DEF SystemInv, Workers
  <2> QED BY <2>1, <2>3, <2>4 DEF SystemInv, Sessions, SystemTypeOK
<1> QED BY <1>1, SystemInvariance, PTL

================================================================================
