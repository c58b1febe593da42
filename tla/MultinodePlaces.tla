---------------------------- MODULE MultinodePlaces ----------------------------
(***************************************************************************)
(* Where the commands of a multinode system are: none is charged to a node *)
(* without a reason, none is in two places unless it was sent twice, and   *)
(* none of those the builder waits for is nowhere.                         *)
(***************************************************************************)
EXTENDS MultinodeProofs

-----------------------------------------------------------------------------
(* What sequences of messages and of commands hold.                        *)

LEMMA Members ==
    ASSUME NEW S, NEW q \in Seq(S)
    PROVE  /\ \A x : ToSet(Append(q, x)) = ToSet(q) \cup {x}
           /\ q # <<>> => ToSet(q) = ToSet(Tail(q)) \cup {Head(q)}
           /\ \A T : \A r \in Seq(T) : ToSet(q \o r) = ToSet(q) \cup ToSet(r)
           /\ \A r \in Suffixes(q) : ToSet(r) \subseteq ToSet(q)
<1>1. Len(q) \in Nat /\ DOMAIN q = 1 .. Len(q)
  BY LenProperties
<1>2. ASSUME NEW x PROVE ToSet(Append(q, x)) = ToSet(q) \cup {x}
  <2>1. q \in Seq(S \cup {x})
    BY SeqMonotonic
  <2>2. /\ Append(q, x) \in Seq(S \cup {x}) /\ Len(Append(q, x)) = Len(q) + 1
        /\ \A i \in 1 .. Len(q) : Append(q, x)[i] = q[i]
        /\ Append(q, x)[Len(q) + 1] = x
    BY <2>1, AppendProperties
  <2>3. DOMAIN Append(q, x) = 1 .. Len(q) + 1
    BY <2>2, LenProperties
  <2> QED BY <1>1, <2>2, <2>3 DEF ToSet
<1>3. ASSUME q # <<>> PROVE ToSet(q) = ToSet(Tail(q)) \cup {Head(q)}
  <2>1. /\ Tail(q) \in Seq(S) /\ Len(Tail(q)) = Len(q) - 1 /\ Len(q) > 0
        /\ \A i \in 1 .. Len(Tail(q)) : Tail(q)[i] = q[i + 1]
    BY <1>1, <1>3, HeadTailProperties, EmptySeq
  <2>2. DOMAIN Tail(q) = 1 .. Len(q) - 1 /\ Head(q) = q[1]
    BY <1>3, <2>1, LenProperties
  <2>3. ASSUME NEW i \in 1 .. Len(q) PROVE q[i] \in ToSet(Tail(q)) \cup {Head(q)}
    <3>1. CASE i = 1
      BY <2>2, <3>1
    <3>2. CASE i # 1
      <4>1. i - 1 \in 1 .. Len(q) - 1 /\ (i - 1) + 1 = i
        BY <1>1, <3>2
      <4>2. Tail(q)[i - 1] = q[i]
        BY <2>1, <4>1
      <4> QED BY <2>2, <4>1, <4>2 DEF ToSet
    <3> QED BY <3>1, <3>2
  <2>4. ASSUME NEW i \in 1 .. Len(q) - 1 PROVE Tail(q)[i] \in ToSet(q)
    <3>1. i + 1 \in 1 .. Len(q)
      BY <1>1
    <3> QED BY <1>1, <2>1, <3>1 DEF ToSet
  <2>5. q[1] \in ToSet(q)
    BY <1>1, <2>1 DEF ToSet
  <2> QED BY <1>1, <2>2, <2>3, <2>4, <2>5 DEF ToSet
<1>4. ASSUME NEW T, NEW r \in Seq(T) PROVE ToSet(q \o r) = ToSet(q) \cup ToSet(r)
  <2>1. q \in Seq(S \cup T) /\ r \in Seq(S \cup T)
    BY SeqMonotonic
  <2>2. /\ q \o r \in Seq(S \cup T) /\ Len(q \o r) = Len(q) + Len(r)
        /\ \A i \in 1 .. Len(q) + Len(r) :
              (q \o r)[i] = IF i <= Len(q) THEN q[i] ELSE r[i - Len(q)]
    BY <2>1, ConcatProperties
  <2>3. DOMAIN (q \o r) = 1 .. Len(q) + Len(r) /\ DOMAIN r = 1 .. Len(r) /\ Len(r) \in Nat
    BY <2>2, LenProperties
  <2>4. \A i \in 1 .. Len(q) + Len(r) : (q \o r)[i] \in ToSet(q) \cup ToSet(r)
    <3> TAKE i \in 1 .. Len(q) + Len(r)
    <3>1. CASE i <= Len(q)
      BY <1>1, <2>2, <3>1 DEF ToSet
    <3>2. CASE i > Len(q)
      <4>1. i - Len(q) \in 1 .. Len(r)
        BY <1>1, <2>3, <3>2
      <4>2. (q \o r)[i] = r[i - Len(q)]
        BY <1>1, <2>2, <2>3, <3>2
      <4> QED BY <2>3, <4>1, <4>2 DEF ToSet
    <3> QED BY <1>1, <2>3, <3>1, <3>2
  <2>5. \A i \in 1 .. Len(q) : q[i] \in ToSet(q \o r)
    <3> TAKE i \in 1 .. Len(q)
    <3>1. i \in 1 .. Len(q) + Len(r) /\ (q \o r)[i] = q[i]
      BY <1>1, <2>2, <2>3
    <3> QED BY <2>3, <3>1 DEF ToSet
  <2>6. \A i \in 1 .. Len(r) : r[i] \in ToSet(q \o r)
    <3> TAKE i \in 1 .. Len(r)
    <3>1. /\ Len(q) + i \in 1 .. Len(q) + Len(r) /\ ~(Len(q) + i <= Len(q))
          /\ (Len(q) + i) - Len(q) = i
      BY <1>1, <2>3
    <3>2. (q \o r)[Len(q) + i] = r[i]
      BY <2>2, <3>1
    <3> QED BY <2>3, <3>1, <3>2 DEF ToSet
  <2>7. ToSet(q \o r) \subseteq ToSet(q) \cup ToSet(r)
    BY <2>3, <2>4 DEF ToSet
  <2>8. ToSet(q) \subseteq ToSet(q \o r)
    BY <1>1, <2>5 DEF ToSet
  <2>9. ToSet(r) \subseteq ToSet(q \o r)
    BY <2>3, <2>6 DEF ToSet
  <2> QED BY <2>7, <2>8, <2>9
<1>5. ASSUME NEW r \in Suffixes(q) PROVE ToSet(r) \subseteq ToSet(q)
  <2>1. PICK m \in Nat : r \in Seq(S) /\ \A i \in 1 .. Len(r) : m + i \in 1 .. Len(q) /\ r[i] = q[m + i]
    BY SuffixOf
  <2>2. DOMAIN r = 1 .. Len(r)
    BY <2>1, LenProperties
  <2> QED BY <1>1, <2>1, <2>2 DEF ToSet
<1> QED BY <1>2, <1>3, <1>4, <1>5

\* A sequence without one of its elements.
LEMMA RestOf ==
    ASSUME NEW S, NEW q \in Seq(S), NEW k \in 1 .. Len(q)
    PROVE  ToSet(RemoveAt(q, k)) \cup {q[k]} = ToSet(q)
<1> DEFINE r == RemoveAt(q, k)
<1>1. /\ r \in Seq(S) /\ Len(r) = Len(q) - 1
      /\ \A i \in 1 .. Len(q) - 1 : r[i] = q[IF i < k THEN i ELSE i + 1]
  BY Removed
<1> HIDE DEF r
<1>2. DOMAIN r = 1 .. Len(q) - 1 /\ DOMAIN q = 1 .. Len(q) /\ Len(q) \in Nat /\ k \in Nat
  BY <1>1, LenProperties
<1>3. ASSUME NEW i \in 1 .. Len(q) - 1 PROVE r[i] \in ToSet(q)
  <2>1. (IF i < k THEN i ELSE i + 1) \in 1 .. Len(q)
    BY <1>2
  <2> QED BY <1>1, <1>2, <2>1 DEF ToSet
<1>4. ASSUME NEW i \in 1 .. Len(q), i # k PROVE q[i] \in ToSet(r)
  <2>1. CASE i < k
    BY <1>1, <1>2, <2>1 DEF ToSet
  <2>2. CASE i > k
    <3>1. i - 1 \in 1 .. Len(q) - 1 /\ ~(i - 1 < k) /\ (i - 1) + 1 = i
      BY <1>2, <2>2
    <3>2. r[i - 1] = q[i]
      BY <1>1, <3>1
    <3> QED BY <1>2, <3>1, <3>2 DEF ToSet
  <2> QED BY <1>2, <1>4, <2>1, <2>2
<1> QED BY <1>2, <1>3, <1>4 DEF r, ToSet

\* The contents of the messages of a kind.
Contents(M, k) == {m.content : m \in {e \in M : e.kind = k}}

LEMMA CarriedIs ==
    ASSUME NEW q, NEW k
    PROVE  Carried(q, k) = Contents(ToSet(q), k)
  BY DEF Carried, Contents, ToSet

LEMMA CarriedLaws ==
    ASSUME NEW S, NEW q \in Seq(S), NEW k
    PROVE  /\ \A x : /\ Carried(q, k) \subseteq Carried(Append(q, x), k)
                     /\ x.kind = k => x.content \in Carried(Append(q, x), k)
                     /\ Carried(Append(q, x), k) \subseteq Carried(q, k) \cup {x.content}
                     /\ x.kind # k => Carried(Append(q, x), k) = Carried(q, k)
           /\ q # <<>> => /\ Carried(Tail(q), k) \subseteq Carried(q, k)
                          /\ Carried(q, k) \subseteq Carried(Tail(q), k) \cup {Head(q).content}
                          /\ Head(q).kind # k => Carried(q, k) = Carried(Tail(q), k)
                          /\ Head(q).kind = k => Head(q).content \in Carried(q, k)
           /\ \A T : \A r \in Seq(T) : Carried(q \o r, k) = Carried(q, k) \cup Carried(r, k)
           /\ \A r \in Suffixes(q) : Carried(r, k) \subseteq Carried(q, k)
           /\ Carried(<<>>, k) = {}
<1>1. \A x : ToSet(Append(q, x)) = ToSet(q) \cup {x}
  BY Members
<1>2. q # <<>> => ToSet(q) = ToSet(Tail(q)) \cup {Head(q)}
  BY Members
<1>3. \A T : \A r \in Seq(T) : ToSet(q \o r) = ToSet(q) \cup ToSet(r)
  BY Members
<1>4. \A r \in Suffixes(q) : ToSet(r) \subseteq ToSet(q)
  BY Members
<1>5. ToSet(<<>>) = {}
  BY DEF ToSet
<1>6. \A r : Carried(r, k) = Contents(ToSet(r), k)
  BY CarriedIs
<1>7. ASSUME NEW x
      PROVE  /\ Carried(q, k) \subseteq Carried(Append(q, x), k)
             /\ x.kind = k => x.content \in Carried(Append(q, x), k)
             /\ Carried(Append(q, x), k) \subseteq Carried(q, k) \cup {x.content}
             /\ x.kind # k => Carried(Append(q, x), k) = Carried(q, k)
  <2>1. Carried(Append(q, x), k) = Contents(ToSet(q) \cup {x}, k)
    BY <1>1, <1>6
  <2>2. Carried(q, k) = Contents(ToSet(q), k)
    BY <1>6
  <2> QED BY <2>1, <2>2 DEF Contents
<1>8. ASSUME q # <<>>
      PROVE  /\ Carried(Tail(q), k) \subseteq Carried(q, k)
             /\ Carried(q, k) \subseteq Carried(Tail(q), k) \cup {Head(q).content}
             /\ Head(q).kind # k => Carried(q, k) = Carried(Tail(q), k)
             /\ Head(q).kind = k => Head(q).content \in Carried(q, k)
  <2>1. Carried(q, k) = Contents(ToSet(Tail(q)) \cup {Head(q)}, k)
    BY <1>2, <1>6, <1>8
  <2>2. Carried(Tail(q), k) = Contents(ToSet(Tail(q)), k)
    BY <1>6
  <2> QED BY <2>1, <2>2 DEF Contents
<1>9. ASSUME NEW T, NEW r \in Seq(T) PROVE Carried(q \o r, k) = Carried(q, k) \cup Carried(r, k)
  BY <1>3, <1>6 DEF Contents
<1>10. \A r \in Suffixes(q) : Carried(r, k) \subseteq Carried(q, k)
  BY <1>4, <1>6 DEF Contents
<1>11. Carried(<<>>, k) = {}
  BY <1>5, <1>6 DEF Contents
<1> QED BY <1>7, <1>8, <1>9, <1>10, <1>11

LEMMA CarriedConcat ==
    ASSUME NEW S, NEW q \in Seq(S), NEW T, NEW r \in Seq(T), NEW k
    PROVE  Carried(q \o r, k) = Carried(q, k) \cup Carried(r, k)
  BY CarriedLaws

-----------------------------------------------------------------------------
(* What a step of a node does with the commands it has.                    *)

\* After a step of node n.
Row(n, t, w, r, f) ==
    /\ toNode' = [toNode EXCEPT ![n] = t]
    /\ waiting' = [waiting EXCEPT ![n] = w]
    /\ running' = [running EXCEPT ![n] = r]
    /\ fromNode' = [fromNode EXCEPT ![n] = f]

\* Messages that are no status of any work.
NoWork(z) == \A i \in DOMAIN z : z[i].kind = "status" => IsStop(z[i].content)

Quiet(n) ==
    \E t \in {toNode[n], Tail(toNode[n])}, z \in Seq(FromNode(n)) :
        /\ t = toNode[n] \/ (toNode[n] # <<>> /\
              (Head(toNode[n]).kind = "command" => IsStop(Head(toNode[n]).content)))
        /\ NoWork(z)
        /\ Row(n, t, waiting[n], running[n], fromNode[n] \o z)
Arrives(n, c) ==
    /\ toNode[n] # <<>> /\ Head(toNode[n]) = Message("command", c)
    /\ Row(n, Tail(toNode[n]), Append(waiting[n], c), running[n], fromNode[n])
Starts(n, c) ==
    /\ waiting[n] # <<>> /\ c = Head(waiting[n])
    /\ Row(n, toNode[n], Tail(waiting[n]), Append(running[n], c), fromNode[n])
Fails(n, c) ==
    /\ waiting[n] # <<>> /\ c = Head(waiting[n])
    /\ Row(n, toNode[n], Tail(waiting[n]), running[n], fromNode[n] \o Status(c))
Waits(n, c) ==
    /\ waiting[n] # <<>> /\ c = Head(waiting[n])
    /\ Row(n, toNode[n], Append(Tail(waiting[n]), c), running[n], fromNode[n])
Errs(n, c) ==
    /\ waiting[n] # <<>> /\ c = Head(waiting[n]) /\ c.class \in Uninstantiable
    /\ Row(n, toNode[n], Append(Tail(waiting[n]), c), running[n], fromNode[n] \o Status(c))
Ends(n, c) ==
    \E i \in 1 .. Len(running[n]) :
        /\ c = running[n][i]
        /\ Row(n, toNode[n], waiting[n], RemoveAt(running[n], i), fromNode[n] \o Status(c))
Handles(n, c) ==
    Arrives(n, c) \/ Starts(n, c) \/ Fails(n, c) \/ Waits(n, c) \/ Errs(n, c) \/ Ends(n, c)

LEMMA NodeRow ==
    ASSUME SystemInv, NEW n \in Node, NodeStep(n)
    PROVE  /\ UNCHANGED <<vars, builder, table, asking, sent, toBuilder, statusOf, toDispatcher,
                          sessionVars, losses, lost, doubled>>
           /\ Quiet(n) \/ \E c \in WorkOf(received) : Handles(n, c)
<1>1. /\ toNode[n] \in Seq(ToNode(n)) /\ fromNode[n] \in Seq(FromNode(n))
      /\ waiting[n] \in Seq(WorkOf(received)) /\ running[n] \in Seq(WorkOf(received))
      /\ stopping[n] \in (received \ WorkOf(received)) \cup {Nothing}
  BY DEF SystemInv, Channels, Workers
<1>2. /\ toNode = [toNode EXCEPT ![n] = toNode[n]]
      /\ fromNode = [fromNode EXCEPT ![n] = fromNode[n]]
      /\ waiting = [waiting EXCEPT ![n] = waiting[n]]
      /\ running = [running EXCEPT ![n] = running[n]]
  BY DEF SystemInv, Channels, Workers
<1>3. fromNode[n] \o <<>> = fromNode[n] /\ <<>> \in Seq(FromNode(n)) /\ NoWork(<<>>)
  BY <1>1, ConcatEmptySeq, EmptySeq DEF NoWork
<1>4. CASE Receive(n)
  <2> DEFINE m == Head(toNode[n])
  <2>1. /\ toNode[n] # <<>> /\ toNode' = [toNode EXCEPT ![n] = Tail(@)]
        /\ \/ m.kind = "connected" /\ Connected(n, m.content)
           \/ m.kind = "command" /\ CommandArrives(n, m.content)
           \/ m.kind = "command" /\ StopArrives(n, m.content)
        /\ UNCHANGED <<vars, builderVars, toBuilder, statusOf, toDispatcher,
                       sessionVars, lossVars>>
    BY <1>4 DEF Receive, Reads
  <2>2. m \in ToNode(n)
    BY <1>1, <2>1, HeadTailProperties
  <2> HIDE DEF m
  <2>3. CASE m.kind = "connected" /\ Connected(n, m.content)
    <3> DEFINE z == <<Message("register", m.content), Message("subscribe", m.content)>>
    <3>1. z \in Seq(FromNode(n)) /\ NoWork(z)
      <4>1. m.content \in Own(n)
        BY <2>2, <2>3 DEF ToNode
      <4>2. Message("register", m.content) \in FromNode(n) /\ Message("subscribe", m.content) \in FromNode(n)
        BY <4>1 DEF Message, FromNode
      <4>3. DOMAIN z = {1, 2} /\ z[1].kind = "register" /\ z[2].kind = "subscribe"
        BY DEF Message
      <4>4. z \in Seq(FromNode(n))
        BY <4>2
      <4> QED BY <4>3, <4>4 DEF NoWork
    <3>2. fromNode' = [fromNode EXCEPT ![n] = fromNode[n] \o z] /\ UNCHANGED <<waiting, running>>
      BY <2>3 DEF Connected, Tell, workerVars
    <3> HIDE DEF z
    <3>3. Row(n, Tail(toNode[n]), waiting[n], running[n], fromNode[n] \o z)
      BY <1>2, <2>1, <3>2 DEF Row
    <3>4. Quiet(n)
      BY <2>1, <2>3, <3>1, <3>3 DEF Quiet, m
    <3> QED BY <2>1, <3>4 DEF builderVars, lossVars
  <2>4. CASE m.kind = "command" /\ CommandArrives(n, m.content)
    <3>1. m.content \in WorkOf(received) /\ m = Message("command", m.content)
      BY <2>2, <2>4 DEF CommandArrives, ToNode, WorkOf, Message
    <3>2. Arrives(n, m.content)
      BY <1>2, <2>1, <2>4, <3>1 DEF Arrives, Row, CommandArrives, m
    <3> QED BY <2>1, <3>1, <3>2 DEF Handles, builderVars, lossVars
  <2>5. CASE m.kind = "command" /\ StopArrives(n, m.content)
    <3>1. IsStop(m.content) /\ UNCHANGED <<waiting, running, fromNode>>
      BY <2>5 DEF StopArrives
    <3>2. Row(n, Tail(toNode[n]), waiting[n], running[n], fromNode[n] \o <<>>)
      BY <1>2, <1>3, <2>1, <3>1 DEF Row
    <3>3. Quiet(n)
      BY <1>3, <2>1, <3>1, <3>2 DEF Quiet, m
    <3> QED BY <2>1, <3>3 DEF builderVars, lossVars
  <2> QED BY <2>1, <2>3, <2>4, <2>5
<1>5. CASE StartNext(n)
  <2> DEFINE c == Head(waiting[n])
  <2>1. /\ waiting[n] # <<>>
        /\ Started(n, c) \/ StartFails(n, c) \/ NotReady(n, c) \/ NotInstantiated(n, c)
        /\ UNCHANGED <<vars, builderVars, toBuilder, statusOf, toDispatcher,
                       toNode, sessionVars, lossVars>>
    BY <1>5 DEF StartNext
  <2>2. c \in WorkOf(received)
    BY <1>1, <2>1, HeadTailProperties
  <2>3. CASE Started(n, c)
    <3>1. Starts(n, c)
      BY <1>2, <2>1, <2>3 DEF Started, Starts, Row
    <3> QED BY <2>1, <2>2, <3>1 DEF Handles, builderVars, lossVars
  <2>4. CASE StartFails(n, c)
    <3>1. Fails(n, c)
      BY <1>2, <2>1, <2>4 DEF StartFails, Fails, Row, Tell
    <3> QED BY <2>1, <2>2, <3>1 DEF Handles, builderVars, lossVars
  <2>5. CASE NotReady(n, c)
    <3>1. Waits(n, c)
      BY <1>2, <2>1, <2>5 DEF NotReady, Waits, Row
    <3> QED BY <2>1, <2>2, <3>1 DEF Handles, builderVars, lossVars
  <2>6. CASE NotInstantiated(n, c)
    <3>1. Errs(n, c)
      BY <1>2, <2>1, <2>6 DEF NotInstantiated, Errs, Row, Tell
    <3> QED BY <2>1, <2>2, <3>1 DEF Handles, builderVars, lossVars
  <2> QED BY <2>1, <2>3, <2>4, <2>5, <2>6
<1>6. CASE ChildEnds(n)
  <2>1. PICK i \in DOMAIN running[n] :
          /\ running' = [running EXCEPT ![n] = RemoveAt(@, i)]
          /\ Tell(n, Status(running[n][i]))
          /\ UNCHANGED <<vars, builderVars, toBuilder, statusOf, toDispatcher, toNode,
                         sessionVars, waiting, lossVars>>
    BY <1>6 DEF ChildEnds, ChildDies
  <2>2. i \in 1 .. Len(running[n]) /\ running[n][i] \in WorkOf(received)
    BY <1>1, ElementOfSeq, LenProperties
  <2>3. Ends(n, running[n][i])
    BY <1>2, <2>1, <2>2 DEF Ends, Row, Tell
  <2> QED BY <2>1, <2>2, <2>3 DEF Handles, builderVars, lossVars
<1>7. CASE StopEnds(n)
  <2> DEFINE z == Status(stopping[n])
  <2>1. /\ stopping[n] # Nothing /\ fromNode' = [fromNode EXCEPT ![n] = fromNode[n] \o z]
        /\ UNCHANGED <<vars, builderVars, toBuilder, statusOf, toDispatcher, toNode,
                       sessionVars, waiting, running, lossVars>>
    BY <1>7 DEF StopEnds, Tell
  <2>2. stopping[n] \in received /\ IsStop(stopping[n])
    BY <1>1, <2>1 DEF WorkOf
  <2>3. z \in Seq(FromNode(n))
    BY <2>2, StatusTypes
  <2>4. NoWork(z)
    BY <2>2 DEF NoWork, Status, Message
  <2> HIDE DEF z
  <2>5. Row(n, toNode[n], waiting[n], running[n], fromNode[n] \o z)
    BY <1>2, <2>1 DEF Row
  <2>6. Quiet(n)
    BY <2>3, <2>4, <2>5 DEF Quiet
  <2> QED BY <2>1, <2>6 DEF builderVars, lossVars
<1>8. CASE Heartbeat(n)
  <2> DEFINE h == NodeInfo(session[n], Running(n) \cup Queued(n))
  <2>1. /\ session[n] # NoSession /\ fromNode' = [fromNode EXCEPT ![n] = fromNode[n] \o <<h>>]
        /\ UNCHANGED <<vars, builderVars, toBuilder, statusOf, toDispatcher, toNode,
                       sessionVars, nodeVars, lossVars>>
    BY <1>8 DEF Heartbeat, Tell
  <2>2. h \in FromNode(n)
    <3>1. Running(n) \cup Queued(n) \subseteq received
      BY QueuedTypes
    <3>2. session[n] \in Own(n)
      BY <2>1 DEF SystemInv, Sessions
    <3> QED BY <3>1, <3>2 DEF NodeInfo, Message, FromNode
  <2>3. h.kind = "nodeInfo"
    BY DEF NodeInfo, Message
  <2> HIDE DEF h
  <2>4. <<h>> \in Seq(FromNode(n)) /\ NoWork(<<h>>)
    BY <2>2, <2>3 DEF NoWork
  <2>5. Row(n, toNode[n], waiting[n], running[n], fromNode[n] \o <<h>>)
    BY <1>2, <2>1 DEF Row, nodeVars, workerVars
  <2>6. Quiet(n)
    BY <2>4, <2>5 DEF Quiet
  <2> QED BY <2>1, <2>6 DEF builderVars, lossVars
<1> QED BY <1>4, <1>5, <1>6, <1>7, <1>8 DEF NodeStep

-----------------------------------------------------------------------------
(* The commands a node has, on their way to it, there, or on their way back. *)

Held(n) == InTransit(n) \cup Queued(n) \cup Running(n)

LEMMA HeldByNode ==
    ASSUME SystemInv, NEW n \in Node, NodeStep(n)
    PROVE  \A k \in Node : WorkOf(Held(k)') = WorkOf(Held(k))
<1> DEFINE t == toNode[n]
           w == waiting[n]
           r == running[n]
           f == fromNode[n]
           Has(u, v, x, y) == Carried(u, "command") \cup Carried(y, "status") \cup ToSet(v) \cup ToSet(x)
<1>1. /\ t \in Seq(ToNode(n)) /\ f \in Seq(FromNode(n)) /\ w \in Seq(WorkOf(received))
      /\ r \in Seq(WorkOf(received))
      /\ DOMAIN toNode = Node /\ DOMAIN fromNode = Node /\ DOMAIN waiting = Node
      /\ DOMAIN running = Node
  BY DEF SystemInv, Channels, Workers
<1>2. Held(n) = Has(t, w, r, f)
  BY DEF Held, InTransit, Queued, Running
<1>3. \A u, v, x, y : Row(n, u, v, x, y) =>
         Held(n)' = Has(u, v, x, y) /\ \A k \in Node \ {n} : Held(k)' = Held(k)
  BY <1>1 DEF Row, Held, InTransit, Queued, Running
<1> HIDE DEF t, w, r, f
<1>4. Quiet(n) \/ \E c \in WorkOf(received) : Handles(n, c)
  BY NodeRow
<1>5. CASE Quiet(n)
  <2>1. PICK u \in {t, Tail(t)}, z \in Seq(FromNode(n)) :
          /\ u = t \/ (t # <<>> /\ (Head(t).kind = "command" => IsStop(Head(t).content)))
          /\ NoWork(z)
          /\ Row(n, u, w, r, f \o z)
    BY <1>5 DEF Quiet, t, w, r, f
  <2>2. WorkOf(Carried(u, "command")) = WorkOf(Carried(t, "command"))
    <3>1. CASE u = t
      BY <3>1
    <3>2. CASE u # t
      <4>1. /\ t # <<>> /\ u = Tail(t)
            /\ Head(t).kind = "command" => IsStop(Head(t).content)
        BY <2>1, <3>2
      <4>2. /\ Carried(u, "command") \subseteq Carried(t, "command")
            /\ Carried(t, "command") \subseteq Carried(u, "command") \cup {Head(t).content}
            /\ Head(t).kind # "command" => Carried(t, "command") = Carried(u, "command")
        BY <1>1, <4>1, CarriedLaws
      <4> QED BY <4>1, <4>2 DEF WorkOf
    <3> QED BY <3>1, <3>2
  <2>3. Carried(f \o z, "status") = Carried(f, "status") \cup Carried(z, "status")
    BY <1>1, <2>1, CarriedLaws
  <2>4. WorkOf(Carried(z, "status")) = {}
    BY <2>1 DEF NoWork, Carried, WorkOf
  <2>5. Held(n)' = Has(u, w, r, f \o z) /\ \A k \in Node \ {n} : Held(k)' = Held(k)
    BY <1>3, <2>1
  <2>6. WorkOf(Has(u, w, r, f \o z)) = WorkOf(Has(t, w, r, f))
    BY <2>2, <2>3, <2>4 DEF WorkOf
  <2> QED BY <1>2, <2>5, <2>6
<1>6. ASSUME NEW c \in WorkOf(received), Handles(n, c)
      PROVE  \A k \in Node : Held(k)' = Held(k)
  <2>1. Carried(f \o Status(c), "status") = Carried(f, "status") \cup {c}
    <3>1. Status(c) \in Seq(FromNode(n))
      BY StatusTypes DEF WorkOf
    <3>2. Carried(Status(c), "status") = {c}
      BY DEF Carried, Status, Message
    <3> DEFINE z == Status(c)
    <3> HIDE DEF z
    <3>3. Carried(f \o z, "status") = Carried(f, "status") \cup Carried(z, "status")
      <4>1. z \in Seq(FromNode(n))
        BY <3>1 DEF z
      <4> QED BY <1>1, <4>1, CarriedConcat
    <3> QED BY <3>2, <3>3 DEF z
  <2>2. ASSUME w # <<>>, c = Head(w)
        PROVE  /\ ToSet(w) = ToSet(Tail(w)) \cup {c}
               /\ ToSet(Append(Tail(w), c)) = ToSet(w)
    <3>1. ToSet(w) = ToSet(Tail(w)) \cup {c}
      BY <1>1, <2>2, Members
    <3>2. Tail(w) \in Seq(WorkOf(received))
      BY <1>1, <2>2, HeadTailProperties
    <3>3. ToSet(Append(Tail(w), c)) = ToSet(Tail(w)) \cup {c}
      BY <3>2, Members
    <3> QED BY <3>1, <3>3
  <2> DEFINE r1 == Append(r, c)
  <2>9. ToSet(r1) = ToSet(r) \cup {c}
    BY <1>1, Members
  <2> HIDE DEF r1
  <2>3. CASE Arrives(n, c)
    <3>1. /\ t # <<>> /\ Head(t) = Message("command", c)
          /\ Row(n, Tail(t), Append(w, c), r, f)
      BY <2>3 DEF Arrives, t, w, r, f
    <3>2. Carried(t, "command") = Carried(Tail(t), "command") \cup {c}
      <4>1. Head(t).content = c /\ Head(t).kind = "command"
        BY <3>1 DEF Message
      <4> QED BY <1>1, <3>1, <4>1, CarriedLaws
    <3>3. ToSet(Append(w, c)) = ToSet(w) \cup {c}
      BY <1>1, Members
    <3>4. Held(n)' = Has(Tail(t), Append(w, c), r, f) /\ \A k \in Node \ {n} : Held(k)' = Held(k)
      BY <1>3, <3>1
    <3> QED BY <1>2, <3>2, <3>3, <3>4
  <2>4. CASE Starts(n, c)
    <3>1. w # <<>> /\ c = Head(w) /\ Row(n, t, Tail(w), r1, f)
      BY <2>4 DEF Starts, t, w, r, f, r1
    <3>2. Held(n)' = Has(t, Tail(w), r1, f) /\ \A k \in Node \ {n} : Held(k)' = Held(k)
      BY <1>3, <3>1
    <3> QED BY <1>2, <2>2, <2>9, <3>1, <3>2
  <2>5. CASE Fails(n, c)
    <3>1. w # <<>> /\ c = Head(w) /\ Row(n, t, Tail(w), r, f \o Status(c))
      BY <2>5 DEF Fails, t, w, r, f
    <3>2. Held(n)' = Has(t, Tail(w), r, f \o Status(c)) /\ \A k \in Node \ {n} : Held(k)' = Held(k)
      BY <1>3, <3>1
    <3> QED BY <1>2, <2>1, <2>2, <3>1, <3>2
  <2>6. CASE Waits(n, c)
    <3>1. w # <<>> /\ c = Head(w) /\ Row(n, t, Append(Tail(w), c), r, f)
      BY <2>6 DEF Waits, t, w, r, f
    <3>2. Held(n)' = Has(t, Append(Tail(w), c), r, f) /\ \A k \in Node \ {n} : Held(k)' = Held(k)
      BY <1>3, <3>1
    <3> QED BY <1>2, <2>2, <3>1, <3>2
  <2>7. CASE Errs(n, c)
    <3>1. w # <<>> /\ c = Head(w) /\ Row(n, t, Append(Tail(w), c), r, f \o Status(c))
      BY <2>7 DEF Errs, t, w, r, f
    <3>2. Held(n)' = Has(t, Append(Tail(w), c), r, f \o Status(c)) /\ \A k \in Node \ {n} : Held(k)' = Held(k)
      BY <1>3, <3>1
    <3> QED BY <1>2, <2>1, <2>2, <3>1, <3>2
  <2>8. CASE Ends(n, c)
    <3>1. PICK i \in 1 .. Len(r) : c = r[i] /\ Row(n, t, w, RemoveAt(r, i), f \o Status(c))
      BY <2>8 DEF Ends, t, w, r, f
    <3>2. PICK q : q = RemoveAt(r, i)
      OBVIOUS
    <3>3. ToSet(q) \cup {c} = ToSet(r)
      BY <1>1, <3>1, <3>2, RestOf
    <3>4. Held(n)' = Has(t, w, q, f \o Status(c)) /\ \A k \in Node \ {n} : Held(k)' = Held(k)
      BY <1>3, <3>1, <3>2
    <3> QED BY <1>2, <2>1, <3>3, <3>4
  <2> QED BY <1>6, <2>3, <2>4, <2>5, <2>6, <2>7, <2>8 DEF Handles
<1> QED BY <1>4, <1>5, <1>6

\* What breaks with a connection, or dies with a node, is lost or was kept.
LEMMA HeldByLoss ==
    ASSUME SystemInv, NEW n \in Node, Loss(n)
    PROVE  /\ UNCHANGED <<vars, builder, table, asking, sent, toBuilder, statusOf, toDispatcher, doubled>>
           /\ \A k \in Node : Held(k)' \subseteq Held(k) /\ WorkOf(Held(k)) \subseteq Held(k)' \cup lost'
           /\ lost \subseteq lost' /\ lost' \subseteq lost \cup Held(n)
<1>1. /\ toNode[n] \in Seq(ToNode(n)) /\ fromNode[n] \in Seq(FromNode(n))
      /\ DOMAIN toNode = Node /\ DOMAIN fromNode = Node /\ DOMAIN waiting = Node
      /\ DOMAIN running = Node
  BY DEF SystemInv, Channels, Workers
<1>2. ASSUME NEW kept \in Seq(FromNode(n)), NEW s, Reconnect(n, kept, s)
      PROVE  /\ Carried(toNode'[n], "command") = {}
             /\ Carried(fromNode'[n], "status") = Carried(kept, "status")
             /\ \A k \in Node \ {n} : fromNode'[k] = fromNode[k] /\ toNode'[k] = toNode[k]
             /\ UNCHANGED <<vars, builder, table, asking, sent, toBuilder, statusOf, toDispatcher, doubled>>
  <2>1. toNode'[n] = <<>> /\ fromNode'[n] = Append(kept, Message("connect", s))
    BY <1>1, <1>2 DEF Reconnect
  <2>2. Carried(<<>>, "command") = {}
    BY DEF Carried
  <2>3. Carried(Append(kept, Message("connect", s)), "status") = Carried(kept, "status")
    <3>1. Message("connect", s).kind # "status"
      BY DEF Message
    <3> QED BY <3>1, CarriedLaws
  <2> QED BY <1>1, <1>2, <2>1, <2>2, <2>3 DEF Reconnect, builderVars
<1>3. CASE ConnectionBreaks(n)
  <2>1. PICK kept \in Suffixes(fromNode[n]) :
          /\ Reconnect(n, kept, session[n])
          /\ lost' = lost \cup WorkOf(InTransit(n) \ Carried(kept, "status"))
    BY <1>3 DEF ConnectionBreaks
  <2>2. kept \in Seq(FromNode(n)) /\ Carried(kept, "status") \subseteq Carried(fromNode[n], "status")
    BY <1>1, SuffixOf, CarriedLaws
  <2>3. UNCHANGED <<waiting, running>>
    BY <1>3 DEF ConnectionBreaks, nodeVars, workerVars
  <2>4. /\ Held(n)' = Carried(kept, "status") \cup Queued(n) \cup Running(n)
        /\ \A k \in Node \ {n} : Held(k)' = Held(k)
    BY <1>2, <2>1, <2>2, <2>3 DEF Held, InTransit, Queued, Running
  <2>5. Held(n) = InTransit(n) \cup Queued(n) \cup Running(n)
        /\ Carried(fromNode[n], "status") \subseteq InTransit(n)
    BY DEF Held, InTransit
  <2>6. UNCHANGED <<vars, builder, table, asking, sent, toBuilder, statusOf, toDispatcher, doubled>>
    BY <1>2, <2>1, <2>2
  <2> QED BY <2>1, <2>2, <2>4, <2>5, <2>6 DEF WorkOf
<1>4. CASE NodeDies(n) \/ NodeAborts(n)
  <2>1. /\ Reconnect(n, <<>>, NoSession)
        /\ waiting' = [waiting EXCEPT ![n] = <<>>]
        /\ running' = [running EXCEPT ![n] = <<>>]
        /\ lost' = lost \cup WorkOf(InTransit(n) \cup Queued(n) \cup Running(n))
    BY <1>4 DEF NodeDies, NodeAborts, Restart
  <2>2. <<>> \in Seq(FromNode(n)) /\ Carried(<<>>, "status") = {} /\ ToSet(<<>>) = {}
    BY EmptySeq DEF Carried, ToSet
  <2>3. Held(n)' = {} /\ \A k \in Node \ {n} : Held(k)' = Held(k)
    BY <1>1, <1>2, <2>1, <2>2 DEF Held, InTransit, Queued, Running
  <2>4. UNCHANGED <<vars, builder, table, asking, sent, toBuilder, statusOf, toDispatcher, doubled>>
    BY <1>2, <2>1, <2>2
  <2>5. lost' = lost \cup WorkOf(Held(n))
    BY <2>1 DEF Held
  <2> QED BY <2>3, <2>4, <2>5 DEF WorkOf
<1> QED BY <1>3, <1>4 DEF Loss

\* A message the bus reads moves at most one command out of a node's hands, whose
\* status the dispatcher and, if it listens, the builder will read.
LEMMA HeldByBus ==
    ASSUME SystemInv, NEW n \in Node, BusHearsNode(n)
    PROVE  /\ UNCHANGED <<vars, builder, table, asking, sent, statusOf, doubled>>
           /\ \A k \in Node \ {n} : Held(k)' = Held(k)
           /\ lost \subseteq lost'
           /\ Carried(toBuilder, "status") \subseteq Carried(toBuilder, "status")'
           /\ \A kind \in {"command", "status"} :
                 Carried(toDispatcher, kind) \subseteq Carried(toDispatcher, kind)'
           /\ Carried(toDispatcher, "command")' = Carried(toDispatcher, "command")
           /\ \/ /\ Held(n)' = Held(n) /\ lost' = lost
                 /\ Carried(toBuilder, "status")' = Carried(toBuilder, "status")
              \/ \E c \in Held(n) :
                    /\ Held(n)' \subseteq Held(n) /\ Held(n) \subseteq Held(n)' \cup {c}
                    /\ c \in Carried(toDispatcher, "status")'
                    /\ ~IsStop(c) => c \in Carried(toBuilder, "status")' \cup lost'
                    /\ Carried(toBuilder, "status")' \subseteq Carried(toBuilder, "status") \cup {c}
                    /\ lost' \subseteq lost \cup {c}
<1> DEFINE m == Head(fromNode[n])
           f == fromNode[n]
<1>1. /\ toNode[n] \in Seq(ToNode(n)) /\ f \in Seq(FromNode(n))
      /\ toDispatcher \in Seq(ToDispatcher) /\ toBuilder \in Seq(ToBuilder)
      /\ DOMAIN toNode = Node /\ DOMAIN fromNode = Node
  BY DEF SystemInv, Channels
<1>2. /\ f # <<>>
      /\ fromNode' = [fromNode EXCEPT ![n] = Tail(@)]
      /\ \/ m.kind = "connect" /\ ConnectNode(n, m.content)
         \/ m.kind = "status" /\ PublishStatus(m)
         \/ m.kind = "subscribe" /\ AddSubscriber(n, m.content)
         \/ /\ m.kind \in {"register", "nodeInfo"}
            /\ toDispatcher' = Append(toDispatcher, m)
            /\ UNCHANGED <<known, open, link, targets, toNode, toBuilder, lost>>
      /\ UNCHANGED <<vars, builder, table, asking, sent, statusOf, doubled, waiting, running>>
  BY DEF BusHearsNode, builderVars, nodeVars, workerVars
<1>3. \A k \in Node : Held(k) = Carried(toNode[k], "command") \cup Carried(fromNode[k], "status")
                                  \cup Queued(k) \cup Running(k)
  BY DEF Held, InTransit
<1>4. \A k \in Node : Held(k)' = Carried(toNode'[k], "command") \cup Carried(fromNode'[k], "status")
                                  \cup Queued(k) \cup Running(k)
  BY <1>2 DEF Held, InTransit, Queued, Running
<1>5. fromNode'[n] = Tail(f) /\ \A k \in Node \ {n} : fromNode'[k] = fromNode[k]
  BY <1>1, <1>2
<1>6. /\ m.kind # "status" => Carried(Tail(f), "status") = Carried(f, "status")
      /\ Carried(Tail(f), "status") \subseteq Carried(f, "status")
      /\ Carried(f, "status") \subseteq Carried(Tail(f), "status") \cup {m.content}
      /\ m.kind = "status" => m.content \in Carried(f, "status")
  BY <1>1, <1>2, CarriedLaws
<1>7. \A kind : /\ Carried(toDispatcher, kind) \subseteq Carried(Append(toDispatcher, m), kind)
                /\ m.kind # kind => Carried(Append(toDispatcher, m), kind) = Carried(toDispatcher, kind)
                /\ m.kind = kind => m.content \in Carried(Append(toDispatcher, m), kind)
  BY <1>1, CarriedLaws
<1>8. /\ Carried(toBuilder, "status") \subseteq Carried(Append(toBuilder, m), "status")
      /\ Carried(Append(toBuilder, m), "status") \subseteq Carried(toBuilder, "status") \cup {m.content}
      /\ m.kind = "status" => m.content \in Carried(Append(toBuilder, m), "status")
  BY <1>1, CarriedLaws
<1> HIDE DEF m, f
<1>9. ASSUME m.kind = "connect", ConnectNode(n, m.content)
      PROVE  /\ UNCHANGED <<toDispatcher, toBuilder, lost>>
             /\ \A k \in Node : Carried(toNode'[k], "command") = Carried(toNode[k], "command")
  <2>1. \A s : Carried(Append(toNode[n], Message("connected", s)), "command") = Carried(toNode[n], "command")
    <3> TAKE s
    <3>1. Message("connected", s).kind # "command"
      BY DEF Message
    <3> QED BY <1>1, <3>1, CarriedLaws
  <2>2. CASE UNCHANGED <<known, open, link, targets, toNode, toDispatcher, toBuilder, lost>>
    BY <2>2
  <2>3. CASE \E s : /\ toNode' = [toNode EXCEPT ![n] = Append(@, Message("connected", s))]
                    /\ UNCHANGED <<targets, toDispatcher, toBuilder, lost>>
    BY <1>1, <2>1, <2>3
  <2> QED BY <1>9, <2>2, <2>3 DEF ConnectNode
<1>10. ASSUME m.kind # "status",
              \A k \in Node : Carried(toNode'[k], "command") = Carried(toNode[k], "command")
       PROVE  \A k \in Node : Held(k)' = Held(k)
  <2>1. Carried(fromNode'[n], "status") = Carried(fromNode[n], "status")
    BY <1>5, <1>6, <1>10 DEF f
  <2>2. \A k \in Node : Carried(fromNode'[k], "status") = Carried(fromNode[k], "status")
    BY <1>5, <2>1
  <2> QED BY <1>3, <1>4, <1>10, <2>2
<1>11. CASE m.kind = "connect" /\ ConnectNode(n, m.content)
  <2>1. \A k \in Node : Held(k)' = Held(k)
    BY <1>9, <1>11, <1>10
  <2> QED BY <1>2, <1>9, <1>11, <2>1
<1>12. CASE m.kind = "status" /\ PublishStatus(m)
  <2>1. /\ toDispatcher' = Append(toDispatcher, m) /\ UNCHANGED toNode
        /\ \/ toBuilder' = Append(toBuilder, m) /\ UNCHANGED lost
           \/ lost' = lost \cup WorkOf({m.content}) /\ UNCHANGED toBuilder
    BY <1>12 DEF PublishStatus
  <2>2. \A k \in Node \ {n} : Held(k)' = Held(k)
    BY <1>3, <1>4, <1>5, <2>1
  <2>3. /\ m.content \in Held(n) /\ Held(n)' \subseteq Held(n)
        /\ Held(n) \subseteq Held(n)' \cup {m.content}
    BY <1>3, <1>4, <1>5, <1>6, <1>12, <2>1 DEF f
  <2>4. WorkOf({m.content}) = {c \in {m.content} : ~IsStop(c)}
    BY DEF WorkOf
  <2>5. m.content \in Carried(toDispatcher, "status")'
        /\ Carried(toDispatcher, "command")' = Carried(toDispatcher, "command")
        /\ Carried(toDispatcher, "status") \subseteq Carried(toDispatcher, "status")'
    BY <1>7, <1>12, <2>1
  <2> QED BY <1>2, <1>8, <1>12, <2>1, <2>2, <2>3, <2>4, <2>5
<1>13. CASE m.kind = "subscribe" /\ UNCHANGED <<toNode, toDispatcher, toBuilder, lost>>
  <2>1. \A k \in Node : Held(k)' = Held(k)
    BY <1>13, <1>10
  <2> QED BY <1>2, <1>13, <2>1
<1>14. CASE /\ m.kind \in {"register", "nodeInfo"} /\ toDispatcher' = Append(toDispatcher, m)
            /\ UNCHANGED <<toNode, toBuilder, lost>>
  <2>1. \A k \in Node : Held(k)' = Held(k)
    BY <1>14, <1>10
  <2> QED BY <1>2, <1>7, <1>14, <2>1
<1> QED BY <1>2, <1>11, <1>12, <1>13, <1>14 DEF AddSubscriber

\* Work the dispatcher assigns is on its way to a node, or lost.
LEMMA HeldByDispatch ==
    ASSUME SystemInv, Dispatch
    PROVE  /\ \A n \in Node : Held(n)' = Held(n) \cup SentTo(n)
           /\ WorkOf(Assigned) \subseteq lost' \cup UNION {SentTo(n) : n \in Node}
           /\ lost \subseteq lost' /\ lost' \subseteq lost \cup Assigned
           /\ doubled \subseteq doubled'
           /\ \A n \in Node : SentTo(n) \subseteq Assigned
<1>1. /\ toDispatcher # <<>> /\ toDispatcher' = Tail(toDispatcher)
      /\ toNode' = [n \in Node |-> toNode[n] \o Sequence("command", ByArrival(Copies(n)))]
      /\ lost' = lost \cup WorkOf(Assigned \ UNION {SentTo(n) : n \in Node})
      /\ doubled' = doubled \cup {c \in Assigned : \E n \in Node : <<c, 2>> \in Copies(n)}
      /\ UNCHANGED <<builder, table, asking, sent, toBuilder, statusOf, fromNode,
                     sessionVars, session, workerVars, losses>>
  BY DispatchSends
<1>2. IInv /\ Sessions
  BY DEF SystemInv
<1>3. ASSUME NEW n \in Node
      PROVE  SentTo(n) \subseteq Assigned /\ Held(n)' = Held(n) \cup SentTo(n)
  <2> DEFINE q == Sequence("command", ByArrival(Copies(n)))
             X == Copies(n)
             C == SentTo(n)
             S == [kind : {"command"}, content : C]
  <2>1. /\ C \subseteq Assigned /\ q \in Seq(S)
        /\ \E g \in Bijection(1 .. Len(q), X) :
              \A i \in 1 .. Len(q) : q[i] = Message("command", g[i][1])
        /\ C = {x[1] : x \in X}
    BY <1>2, DispatchedTo, CopiesOf DEF SentTo
  <2>2. toNode'[n] = toNode[n] \o q
    BY <1>1
  <2> HIDE DEF q, C, X
  <2>3. PICK g \in Bijection(1 .. Len(q), X) :
           \A i \in 1 .. Len(q) : q[i] = Message("command", g[i][1])
    BY <2>1
  <2>4. Carried(q, "command") = C
    <3>1. DOMAIN q = 1 .. Len(q)
      BY <2>1, LenProperties
    <3>2. \A i \in 1 .. Len(q) : q[i].kind = "command" /\ q[i].content = g[i][1]
      <4> TAKE i \in 1 .. Len(q)
      <4>1. q[i] = Message("command", g[i][1])
        BY <2>3
      <4> QED BY <4>1 DEF Message
    <3>3. Carried(q, "command") = {g[i][1] : i \in 1 .. Len(q)}
      BY <3>1, <3>2 DEF Carried
    <3>4. (\A i \in 1 .. Len(q) : g[i] \in X) /\ \A x \in X : \E i \in 1 .. Len(q) : g[i] = x
      BY <2>3 DEF Bijection, Injection, Surjection
    <3> QED BY <2>1, <3>3, <3>4
  <2>5. Carried(toNode[n] \o q, "command") = Carried(toNode[n], "command") \cup C
    <3>1. toNode[n] \in Seq(ToNode(n))
      BY DEF SystemInv, Channels
    <3>2. Carried(toNode[n] \o q, "command") = Carried(toNode[n], "command") \cup Carried(q, "command")
      <4> HIDE DEF S
      <4> QED BY <2>1, <3>1, CarriedLaws
    <3> QED BY <2>4, <3>2
  <2>6. Held(n)' = Held(n) \cup C
    BY <1>1, <2>2, <2>5 DEF Held, InTransit, Queued, Running, workerVars
  <2> QED BY <2>1, <2>6 DEF C
<1>4. WorkOf(Assigned) \subseteq lost' \cup UNION {SentTo(n) : n \in Node}
  BY <1>1 DEF WorkOf
<1>5. lost \subseteq lost' /\ lost' \subseteq lost \cup Assigned
  BY <1>1 DEF WorkOf
<1> QED BY <1>1, <1>3, <1>4, <1>5

\* The builder and closed connections take nothing from the nodes.
LEMMA HeldByOthers ==
    ASSUME SystemInv, Builder \/ \E s \in Session : BusClosesSession(s)
    PROVE  /\ UNCHANGED <<queue, ledger, received, lost, doubled>>
           /\ \A n \in Node : Held(n)' = Held(n)
           /\ Carried(toDispatcher, "status")' = Carried(toDispatcher, "status")
           /\ \/ /\ UNCHANGED <<sent, builder>>
                 /\ Carried(toDispatcher, "command")' = Carried(toDispatcher, "command")
              \/ builder' # "running"
              \/ \E k \in Class : Request(k)
<1> DEFINE Frame == UNCHANGED <<vars, fromNode, toNode, sessionVars, nodeVars, lossVars>>
<1>1. Frame => /\ UNCHANGED <<queue, ledger, received, lost, doubled>>
               /\ \A n \in Node : Held(n)' = Held(n)
  BY DEF vars, nodeVars, workerVars, lossVars, Held, InTransit, Queued, Running
<1>2. toDispatcher \in Seq(ToDispatcher)
  BY DEF SystemInv, Channels
<1>3. ASSUME NEW m, toDispatcher' = Append(toDispatcher, m), m.kind # "status"
      PROVE  /\ Carried(toDispatcher, "status")' = Carried(toDispatcher, "status")
             /\ m.kind # "command" => Carried(toDispatcher, "command")' = Carried(toDispatcher, "command")
  BY <1>2, <1>3, CarriedLaws
<1>4. ASSUME StopAllCommands
      PROVE  Carried(toDispatcher, "status")' = Carried(toDispatcher, "status")
  <2>1. PICK r \in Seq([kind : {"command"}, content : sent' \ WorkOf(sent')]) :
           toDispatcher' = toDispatcher \o r
    BY <1>4, StopsSent DEF SystemInv
  <2>2. Carried(r, "status") = {}
    <3> DEFINE S == [kind : {"command"}, content : sent' \ WorkOf(sent')]
    <3>1. \A i \in DOMAIN r : r[i] \in S
      <4>1. r \in Seq(S)
        OBVIOUS
      <4> HIDE DEF S
      <4> QED BY <4>1, ElementOfSeq, LenProperties
    <3> QED BY <3>1 DEF Carried
  <2>3. Carried(toDispatcher \o r, "status") = Carried(toDispatcher, "status") \cup Carried(r, "status")
    BY <1>2, CarriedConcat
  <2> QED BY <2>1, <2>2, <2>3
<1>5. CASE \E k \in Class : Request(k)
  <2>1. PICK k \in Class : Request(k)
    BY <1>5
  <2>2. PICK c : toDispatcher' = Append(toDispatcher, Message("command", c))
    BY <2>1 DEF Request
  <2>3. Message("command", c).kind = "command"
    BY DEF Message
  <2>4. Frame
    BY <2>1 DEF Request
  <2> HIDE DEF Frame
  <2> QED BY <1>1, <1>3, <2>1, <2>2, <2>3, <2>4
<1>6. CASE Subscribe
  <2>1. Frame /\ UNCHANGED <<sent, builder, toDispatcher>>
    BY <1>6 DEF Subscribe
  <2> HIDE DEF Frame
  <2> QED BY <1>1, <2>1
<1>7. CASE BuilderRaises
  <2>1. Frame /\ StopAllCommands /\ builder' # "running"
    BY <1>7 DEF BuilderRaises
  <2> HIDE DEF Frame
  <2> QED BY <1>1, <1>4, <2>1
<1>8. CASE Signalled
  <2>1. Frame /\ StopAllCommands /\ builder' # "running"
    BY <1>8 DEF Signalled, Exit
  <2> HIDE DEF Frame
  <2> QED BY <1>1, <1>4, <2>1
<1>9. CASE BuilderExits
  <2>1. Frame /\ UNCHANGED toDispatcher /\ builder' # "running"
    BY <1>9 DEF BuilderExits, Exit
  <2> HIDE DEF Frame
  <2> QED BY <1>1, <2>1
<1>10. CASE BuilderHears
  <2>1. Frame
    BY <1>10 DEF BuilderHears
  <2>2. PICK c : BuilderNotes(c)
    BY <1>10 DEF BuilderHears
  <2>3. \/ UNCHANGED <<builder, sent, toDispatcher>>
        \/ StopAllCommands /\ builder' # "running"
        \/ UNCHANGED <<sent, toDispatcher>> /\ builder' # "running"
    BY <2>2 DEF BuilderNotes, Exit
  <2> HIDE DEF Frame
  <2> QED BY <1>1, <1>4, <2>1, <2>3
<1>11. CASE \E s \in Session : BusClosesSession(s)
  <2>1. PICK s \in Session : BusClosesSession(s)
    BY <1>11
  <2>2. /\ toDispatcher' = Append(toDispatcher, Message("disconnected", s))
        /\ UNCHANGED <<vars, builderVars, fromNode, toNode, nodeVars, lossVars>>
    BY <2>1 DEF BusClosesSession
  <2>3. Message("disconnected", s).kind = "disconnected"
    BY DEF Message
  <2>4. /\ UNCHANGED <<queue, ledger, received, lost, doubled, sent, builder>>
        /\ \A n \in Node : Held(n)' = Held(n)
    BY <2>2 DEF vars, nodeVars, workerVars, lossVars, builderVars, Held, InTransit, Queued, Running
  <2> QED BY <1>3, <2>2, <2>3, <2>4
<1> QED BY <1>5, <1>6, <1>7, <1>8, <1>9, <1>10, <1>11 DEF Builder

-----------------------------------------------------------------------------
(* Charges.                                                                *)

\* Why a slot may be charged for c.
Real(c) == c \in lost \cup Carried(toDispatcher, "status") \cup UNION {Held(n) : n \in Node}

LEMMA ChargesStep ==
    ASSUME SystemInv, ChargesAreReal, [SystemNext]_systemVars
    PROVE  ChargesAreReal'
<1>1. \A c \in WorkOf(DOMAIN ledger.owner) : Real(c)
  BY DEF ChargesAreReal, Real, Held
<1>2. (\A c \in WorkOf(DOMAIN ledger'.owner) : Real(c)') => ChargesAreReal'
  BY DEF ChargesAreReal, Real, Held
<1> SUFFICES ASSUME NEW c \in WorkOf(DOMAIN ledger'.owner) PROVE Real(c)'
  BY <1>2
<1>3. ~IsStop(c) /\ c \in DOMAIN ledger'.owner
  BY DEF WorkOf
<1>4. c \in DOMAIN ledger.owner => Real(c)
  BY <1>1, <1>3 DEF WorkOf
<1>5. ASSUME UNCHANGED ledger, lost \subseteq lost',
             Carried(toDispatcher, "status") \subseteq Carried(toDispatcher, "status")',
             \A n \in Node : c \in Held(n) =>
                c \in lost' \cup Carried(toDispatcher, "status")' \cup Held(n)'
      PROVE  Real(c)'
  BY <1>3, <1>4, <1>5 DEF Real
<1>6. CASE Builder \/ \E s \in Session : BusClosesSession(s)
  BY <1>5, <1>6, HeldByOthers
<1>7. CASE \E n \in Node : BusHearsNode(n)
  <2>1. PICK n \in Node : BusHearsNode(n)
    BY <1>7
  <2>2. /\ UNCHANGED vars /\ lost \subseteq lost'
        /\ Carried(toDispatcher, "status") \subseteq Carried(toDispatcher, "status")'
        /\ \A k \in Node \ {n} : Held(k)' = Held(k)
        /\ \/ Held(n)' = Held(n)
           \/ \E d \in Held(n) : /\ Held(n) \subseteq Held(n)' \cup {d}
                                 /\ d \in Carried(toDispatcher, "status")'
    BY <2>1, HeldByBus
  <2>3. \A k \in Node : c \in Held(k) => c \in Carried(toDispatcher, "status")' \cup Held(k)'
    BY <2>2
  <2> QED BY <1>5, <2>2, <2>3 DEF vars
<1>8. CASE \E n \in Node : NodeStep(n)
  <2>1. PICK n \in Node : NodeStep(n)
    BY <1>8
  <2>2. UNCHANGED <<vars, toDispatcher, lost>>
    BY <2>1, NodeRow
  <2>3. \A k \in Node : c \in Held(k) => c \in Held(k)'
    BY <1>3, <2>1, HeldByNode DEF WorkOf
  <2> QED BY <1>5, <2>2, <2>3 DEF vars
<1>9. CASE \E n \in Node : Loss(n)
  <2>1. PICK n \in Node : Loss(n)
    BY <1>9
  <2>2. /\ UNCHANGED <<vars, toDispatcher>> /\ lost \subseteq lost'
        /\ \A k \in Node : WorkOf(Held(k)) \subseteq Held(k)' \cup lost'
    BY <2>1, HeldByLoss
  <2>3. \A k \in Node : c \in Held(k) => c \in Held(k)' \cup lost'
    BY <1>3, <2>2 DEF WorkOf
  <2> QED BY <1>5, <2>2, <2>3 DEF vars
<1>10. CASE Dispatch
  <2> DEFINE m == Head(toDispatcher)
  <2>1. /\ \A n \in Node : Held(n)' = Held(n) \cup SentTo(n)
        /\ WorkOf(Assigned) \subseteq lost' \cup UNION {SentTo(n) : n \in Node}
        /\ lost \subseteq lost'
    BY <1>10, HeldByDispatch
  <2>2. CASE c \in Assigned
    BY <1>3, <2>1, <2>2 DEF Real, WorkOf
  <2>3. CASE c \notin Assigned
    <3>1. c \in DOMAIN ledger.owner
      BY <1>3, <2>3 DEF Assigned
    <3>2. Outcome(m)
      BY <1>10, DispatchOutcome DEF SystemInv
    <3>3. m.kind = "status" => c # m.content
      BY <1>3, <2>3, <3>2 DEF Outcome
    <3>4. toDispatcher' = Tail(toDispatcher) /\ toDispatcher # <<>> /\ toDispatcher \in Seq(ToDispatcher)
      BY <1>10, DispatchSends DEF SystemInv, Channels
    <3>5. /\ Carried(toDispatcher, "status") \subseteq Carried(toDispatcher', "status") \cup {m.content}
          /\ m.kind # "status" => Carried(toDispatcher, "status") = Carried(toDispatcher', "status")
      BY <3>4, CarriedLaws
    <3>6. c \in Carried(toDispatcher, "status") => c \in Carried(toDispatcher', "status")
      BY <3>3, <3>5
    <3>7. Real(c)
      BY <1>4, <3>1
    <3> QED BY <2>1, <3>6, <3>7 DEF Real
  <2> QED BY <2>2, <2>3
<1>11. CASE UNCHANGED systemVars
  <2>1. UNCHANGED <<ledger, lost, toDispatcher, toNode, fromNode, waiting, running>>
    BY <1>11 DEF systemVars, vars, netVars, nodeVars, workerVars, lossVars
  <2> QED BY <1>5, <2>1 DEF Held, InTransit, Queued, Running
<1> QED BY <1>6, <1>7, <1>8, <1>9, <1>10, <1>11 DEF SystemNext

\* A slot that stays charged, stays charged for a reason: for a command that a node
\* has or is about to get, whose answer is yet to be read, or that was lost.
THEOREM NoPhantomCharges == SystemSpec => []ChargesAreReal
<1>1. SystemInit => ChargesAreReal
  BY DEF SystemInit, Init, EmptyLedger, ChargesAreReal, WorkOf
<1>2. SystemInv /\ ChargesAreReal /\ [SystemNext]_systemVars => ChargesAreReal'
  BY ChargesStep
<1> QED BY <1>1, <1>2, SystemInvariance, PTL DEF SystemSpec

-----------------------------------------------------------------------------
(* The places of one command.                                              *)

\* Where x is in q.
Spots(q, x) == {i \in DOMAIN q : q[i] = x}

LEMMA SpotsOf ==
    ASSUME NEW S, NEW q \in Seq(S), NEW x
    PROVE  /\ Len(q) \in Nat /\ Spots(q, x) \subseteq 1 .. Len(q)
           /\ q # <<>> /\ Head(q) = x => 1 \in Spots(q, x)
<1>1. Len(q) \in Nat /\ DOMAIN q = 1 .. Len(q)
  BY LenProperties
<1>2. ASSUME q # <<>>, Head(q) = x PROVE 1 \in Spots(q, x)
  <2>1. Len(q) # 0 /\ Head(q) = q[1]
    BY <1>2, EmptySeq
  <2> QED BY <1>1, <1>2, <2>1 DEF Spots
<1> QED BY <1>1, <1>2 DEF Spots

LEMMA SpotsAppend ==
    ASSUME NEW S, NEW q \in Seq(S), NEW x, NEW y
    PROVE  /\ \A i \in Spots(Append(q, y), x) : i \in Spots(q, x) \/ (y = x /\ i = Len(q) + 1)
           /\ y = x => Len(q) + 1 \in Spots(Append(q, y), x)
<1>1. q \in Seq(S \cup {y}) /\ Len(q) \in Nat /\ DOMAIN q = 1 .. Len(q)
  BY SeqMonotonic, LenProperties
<1>2. /\ Append(q, y) \in Seq(S \cup {y}) /\ Len(Append(q, y)) = Len(q) + 1
      /\ \A i \in 1 .. Len(q) : Append(q, y)[i] = q[i]
      /\ Append(q, y)[Len(q) + 1] = y
  BY <1>1, AppendProperties
<1>3. DOMAIN Append(q, y) = 1 .. Len(q) + 1
  BY <1>2, LenProperties
<1> QED BY <1>1, <1>2, <1>3 DEF Spots

LEMMA SpotsTail ==
    ASSUME NEW S, NEW q \in Seq(S), q # <<>>, NEW x
    PROVE  \A i \in Spots(Tail(q), x) : i \in Nat \ {0} /\ i + 1 \in Spots(q, x)
<1>1. /\ Tail(q) \in Seq(S) /\ Len(Tail(q)) = Len(q) - 1
      /\ \A i \in 1 .. Len(Tail(q)) : Tail(q)[i] = q[i + 1]
  BY HeadTailProperties
<1>2. Len(q) \in Nat /\ DOMAIN q = 1 .. Len(q) /\ DOMAIN Tail(q) = 1 .. Len(q) - 1
  BY <1>1, LenProperties
<1> TAKE i \in Spots(Tail(q), x)
<1>3. i \in 1 .. Len(q) - 1 /\ Tail(q)[i] = x
  BY <1>2 DEF Spots
<1>4. i + 1 \in 1 .. Len(q) /\ q[i + 1] = x
  BY <1>1, <1>2, <1>3
<1> QED BY <1>2, <1>3, <1>4 DEF Spots

LEMMA SpotsConcat ==
    ASSUME NEW S, NEW q \in Seq(S), NEW T, NEW r \in Seq(T), NEW x
    PROVE  \A i \in Spots(q \o r, x) : i \in Spots(q, x) \/ (i \in Nat /\ i - Len(q) \in Spots(r, x))
<1>1. q \in Seq(S \cup T) /\ r \in Seq(S \cup T)
  BY SeqMonotonic
<1>2. /\ q \o r \in Seq(S \cup T) /\ Len(q \o r) = Len(q) + Len(r)
      /\ \A i \in 1 .. Len(q) + Len(r) :
            (q \o r)[i] = IF i <= Len(q) THEN q[i] ELSE r[i - Len(q)]
  BY <1>1, ConcatProperties
<1>3. /\ Len(q) \in Nat /\ DOMAIN q = 1 .. Len(q) /\ Len(r) \in Nat /\ DOMAIN r = 1 .. Len(r)
      /\ DOMAIN (q \o r) = 1 .. Len(q) + Len(r)
  BY <1>2, LenProperties
<1> TAKE i \in Spots(q \o r, x)
<1>4. i \in 1 .. Len(q) + Len(r) /\ (q \o r)[i] = x
  BY <1>3 DEF Spots
<1>5. CASE i <= Len(q)
  <2>1. q[i] = x /\ i \in 1 .. Len(q)
    BY <1>2, <1>3, <1>4, <1>5
  <2> QED BY <1>3, <2>1 DEF Spots
<1>6. CASE i > Len(q)
  <2>1. r[i - Len(q)] = x /\ i - Len(q) \in 1 .. Len(r) /\ i \in Nat
    BY <1>2, <1>3, <1>4, <1>6
  <2> QED BY <1>3, <2>1 DEF Spots
<1> QED BY <1>3, <1>4, <1>5, <1>6

LEMMA SpotsRest ==
    ASSUME NEW S, NEW q \in Seq(S), NEW k \in 1 .. Len(q), NEW x
    PROVE  \A i \in Spots(RemoveAt(q, k), x) :
              /\ i \in Nat /\ k \in Nat
              /\ (i < k /\ i \in Spots(q, x)) \/ (i >= k /\ i + 1 \in Spots(q, x))
<1>1. /\ RemoveAt(q, k) \in Seq(S) /\ Len(RemoveAt(q, k)) = Len(q) - 1
      /\ \A i \in 1 .. Len(q) - 1 : RemoveAt(q, k)[i] = q[IF i < k THEN i ELSE i + 1]
  BY Removed
<1>2. Len(q) \in Nat /\ DOMAIN q = 1 .. Len(q) /\ DOMAIN RemoveAt(q, k) = 1 .. Len(q) - 1
  BY <1>1, LenProperties
<1> TAKE i \in Spots(RemoveAt(q, k), x)
<1>3. i \in 1 .. Len(q) - 1 /\ q[IF i < k THEN i ELSE i + 1] = x
  BY <1>1, <1>2 DEF Spots
<1>4. (IF i < k THEN i ELSE i + 1) \in 1 .. Len(q)
  BY <1>2, <1>3
<1> QED BY <1>2, <1>3, <1>4 DEF Spots

\* r has x only if q has it, and has it once if q has it once.
Later(r, q, x) ==
    /\ Spots(r, x) # {} => Spots(q, x) # {}
    /\ (\A i, j \in Spots(q, x) : i = j) => \A i, j \in Spots(r, x) : i = j

\* So it is when r has x where q had it, some places further on.
LEMMA Shifted ==
    ASSUME NEW r, NEW q, NEW x, NEW k \in Nat,
           \A i \in Spots(r, x) : i \in Nat /\ i + k \in Spots(q, x)
    PROVE  Later(r, q, x)
<1>1. ASSUME \A i, j \in Spots(q, x) : i = j, NEW i \in Spots(r, x), NEW j \in Spots(r, x)
      PROVE  i = j
  <2>1. i \in Nat /\ j \in Nat /\ i + k = j + k
    BY <1>1
  <2> QED BY <2>1
<1> QED BY <1>1 DEF Later

LEMMA LaterLaws ==
    ASSUME NEW S, NEW q \in Seq(S), NEW x
    PROVE  /\ Later(q, q, x) /\ Later(<<>>, q, x)
           /\ q # <<>> => Later(Tail(q), q, x)
           /\ \A y : y # x => Later(Append(q, y), q, x)
           /\ \A y : q # <<>> /\ y # x => Later(Append(Tail(q), y), q, x)
           /\ \A r \in Suffixes(q) : Later(r, q, x)
           /\ \A k \in 1 .. Len(q) : Later(RemoveAt(q, k), q, x)
<1>2. Later(q, q, x)
  BY DEF Later
<1>3. Later(<<>>, q, x)
  BY DEF Later, Spots
<1>4. ASSUME q # <<>> PROVE Later(Tail(q), q, x)
  <2>1. \A i \in Spots(Tail(q), x) : i \in Nat /\ i + 1 \in Spots(q, x)
    BY <1>4, SpotsTail
  <2> QED BY <2>1, Shifted
<1>5. ASSUME NEW y, y # x PROVE Later(Append(q, y), q, x)
  <2>1. \A i \in Spots(Append(q, y), x) : i \in Spots(q, x)
    BY <1>5, SpotsAppend
  <2> QED BY <2>1 DEF Later
<1>6. ASSUME NEW y, q # <<>>, y # x PROVE Later(Append(Tail(q), y), q, x)
  <2>1. Tail(q) \in Seq(S)
    BY <1>6, HeadTailProperties
  <2>2. \A i \in Spots(Append(Tail(q), y), x) : i \in Spots(Tail(q), x)
    BY <1>6, <2>1, SpotsAppend
  <2> QED BY <1>4, <1>6, <2>2 DEF Later
<1>7. ASSUME NEW r \in Suffixes(q) PROVE Later(r, q, x)
  <2>1. PICK m \in Nat : r \in Seq(S) /\ \A i \in 1 .. Len(r) : m + i \in 1 .. Len(q) /\ r[i] = q[m + i]
    BY SuffixOf
  <2>2. DOMAIN r = 1 .. Len(r) /\ DOMAIN q = 1 .. Len(q)
    BY <2>1, LenProperties
  <2>3. ASSUME NEW i \in Spots(r, x) PROVE i \in Nat /\ i + m \in Spots(q, x)
    <3>1. i \in 1 .. Len(r) /\ r[i] = x /\ Len(r) \in Nat
      BY <2>1, <2>2, LenProperties DEF Spots
    <3>2. m + i = i + m /\ i \in Nat
      BY <3>1
    <3> QED BY <2>1, <2>2, <3>1, <3>2 DEF Spots
  <2> QED BY <2>3, Shifted
<1>8. ASSUME NEW k \in 1 .. Len(q) PROVE Later(RemoveAt(q, k), q, x)
  <2>1. \A i \in Spots(RemoveAt(q, k), x) :
           /\ i \in Nat /\ k \in Nat
           /\ (i < k /\ i \in Spots(q, x)) \/ (i >= k /\ i + 1 \in Spots(q, x))
    BY SpotsRest
  <2>2. ASSUME \A i, j \in Spots(q, x) : i = j,
               NEW i \in Spots(RemoveAt(q, k), x), NEW j \in Spots(RemoveAt(q, k), x)
        PROVE  i = j
    BY <2>1, <2>2
  <2> QED BY <2>1, <2>2 DEF Later
<1> QED BY <1>2, <1>3, <1>4, <1>5, <1>6, <1>7, <1>8

LEMMA LaterConcat ==
    ASSUME NEW S, NEW q \in Seq(S), NEW T, NEW r \in Seq(T), NEW x, x \notin ToSet(r)
    PROVE  Later(q \o r, q, x)
<1>1. Spots(r, x) = {}
  BY DEF Spots, ToSet
<1>2. \A i \in Spots(q \o r, x) : i \in Spots(q, x)
  BY <1>1, SpotsConcat
<1> QED BY <1>2 DEF Later

\* c is at position i of a place: in a channel or a table, of node n or of nobody.
In(c, place, n, i) ==
    \/ place = "toDispatcher" /\ n = Nothing /\ i \in Spots(toDispatcher, Message("command", c))
    \/ place = "queue" /\ n = Nothing /\ i = 0 /\ c \in queue
    \/ place = "toNode" /\ n \in Node /\ i \in Spots(toNode[n], Message("command", c))
    \/ place = "waiting" /\ n \in Node /\ i \in Spots(waiting[n], c)
    \/ place = "running" /\ n \in Node /\ i \in Spots(running[n], c)
    \/ place = "fromNode" /\ n \in Node /\ i \in Spots(fromNode[n], Message("status", c))
    \/ place = "toBuilder" /\ n = Nothing /\ i \in Spots(toBuilder, Message("status", c))
    \/ place = "lost" /\ n = Nothing /\ i = 0 /\ c \in lost

Once(c) ==
    \A p, n, i, q, m, j : In(c, p, n, i) /\ In(c, q, m, j) => p = q /\ n = m /\ i = j

NodePlaces == {"toNode", "waiting", "running", "fromNode"}

\* c does not move, or leaves the system.
LEMMA Stays ==
    ASSUME NEW c, Once(c),
           Later(toDispatcher', toDispatcher, Message("command", c)),
           Later(toBuilder', toBuilder, Message("status", c)),
           c \in queue' => c \in queue, c \in lost' => c \in lost,
           \A n \in Node : /\ Later(toNode'[n], toNode[n], Message("command", c))
                           /\ Later(waiting'[n], waiting[n], c)
                           /\ Later(fromNode'[n], fromNode[n], Message("status", c))
                           /\ Later(running'[n], running[n], c)
    PROVE  Once(c)'
<1> DEFINE Kept(p, n) ==
             /\ (\E i : In(c, p, n, i)') => \E i : In(c, p, n, i)
             /\ (\A i, j : In(c, p, n, i) /\ In(c, p, n, j) => i = j) =>
                   \A i, j : In(c, p, n, i)' /\ In(c, p, n, j)' => i = j
<1>1. ASSUME NEW p, NEW n PROVE Kept(p, n)
  <2>1. CASE p = "toDispatcher" /\ n = Nothing
    BY <2>1 DEF In, Later
  <2>2. CASE p = "queue" /\ n = Nothing
    BY <2>2 DEF In
  <2>3. CASE p = "toNode" /\ n \in Node
    BY <2>3 DEF In, Later
  <2>4. CASE p = "waiting" /\ n \in Node
    BY <2>4 DEF In, Later
  <2>5. CASE p = "running" /\ n \in Node
    BY <2>5 DEF In, Later
  <2>6. CASE p = "fromNode" /\ n \in Node
    BY <2>6 DEF In, Later
  <2>7. CASE p = "toBuilder" /\ n = Nothing
    BY <2>7 DEF In, Later
  <2>8. CASE p = "lost" /\ n = Nothing
    BY <2>8 DEF In
  <2> QED BY <2>1, <2>2, <2>3, <2>4, <2>5, <2>6, <2>7, <2>8 DEF In
<1>2. ASSUME NEW p, NEW n, NEW i, NEW q, NEW m, NEW j, In(c, p, n, i)', In(c, q, m, j)'
      PROVE  p = q /\ n = m /\ i = j
  <2>1. (\E a : In(c, p, n, a)) /\ \E a : In(c, q, m, a)
    BY <1>1, <1>2
  <2>2. p = q /\ n = m
    BY <2>1 DEF Once
  <2>3. \A a, b : In(c, p, n, a) /\ In(c, p, n, b) => a = b
    BY DEF Once
  <2>4. i = j
    BY <1>1, <1>2, <2>2, <2>3
  <2> QED BY <2>2, <2>4
<1> QED BY <1>2 DEF Once

\* c moves, to one place.
LEMMA Moves ==
    ASSUME NEW c, NEW p, NEW n, NEW i, \A q, m, j : In(c, q, m, j)' => q = p /\ m = n /\ j = i
    PROVE  Once(c)'
  BY DEF Once

\* A node has a command once: it queues one that it reads, starts the head of its
\* queue or puts it last, and reports one that failed or ended.
LEMMA OnceByNode ==
    ASSUME SystemInv, NEW n \in Node, NodeStep(n),
           NEW c, ~IsStop(c), c.class \notin Uninstantiable, Once(c)
    PROVE  Once(c)'
<1> DEFINE t == toNode[n]
           w == waiting[n]
           r == running[n]
           f == fromNode[n]
           cmd == Message("command", c)
           status == Message("status", c)
<1>1. /\ t \in Seq(ToNode(n)) /\ f \in Seq(FromNode(n)) /\ w \in Seq(WorkOf(received))
      /\ r \in Seq(WorkOf(received))
      /\ DOMAIN toNode = Node /\ DOMAIN fromNode = Node /\ DOMAIN waiting = Node
      /\ DOMAIN running = Node
  BY DEF SystemInv, Channels, Workers
<1>2. /\ UNCHANGED <<toDispatcher, queue, toBuilder, lost>>
      /\ Quiet(n) \/ \E d \in WorkOf(received) : Handles(n, d)
  BY NodeRow DEF vars
<1>3. \A u, v, x, y : Row(n, u, v, x, y) =>
         /\ toNode'[n] = u /\ waiting'[n] = v /\ running'[n] = x /\ fromNode'[n] = y
         /\ \A k \in Node \ {n} : /\ toNode'[k] = toNode[k] /\ waiting'[k] = waiting[k]
                                  /\ running'[k] = running[k] /\ fromNode'[k] = fromNode[k]
  BY <1>1 DEF Row
<1>4. Later(toDispatcher, toDispatcher, cmd) /\ Later(toBuilder, toBuilder, status)
  BY LaterLaws DEF SystemInv, Channels
<1>5. \A k \in Node : /\ Later(toNode[k], toNode[k], cmd) /\ Later(waiting[k], waiting[k], c)
                      /\ Later(fromNode[k], fromNode[k], status)
                      /\ Later(running[k], running[k], c)
  BY LaterLaws DEF SystemInv, Channels, Workers
<1>6. ASSUME NEW u, NEW v, NEW x, NEW y, Row(n, u, v, x, y),
             Later(u, t, cmd), Later(v, w, c), Later(y, f, status), Later(x, r, c)
      PROVE  Once(c)'
  <2>1. \A k \in Node : /\ Later(toNode'[k], toNode[k], cmd) /\ Later(waiting'[k], waiting[k], c)
                        /\ Later(fromNode'[k], fromNode[k], status)
                        /\ Later(running'[k], running[k], c)
    BY <1>3, <1>5, <1>6
  <2> QED BY <1>2, <1>4, <2>1, Stays
<1>7. ASSUME NEW p \in NodePlaces, NEW i, In(c, p, n, i)
      PROVE  /\ \A k \in Spots(t, cmd) : p = "toNode" /\ k = i
             /\ \A k \in Spots(w, c) : p = "waiting" /\ k = i
             /\ \A k \in Spots(r, c) : p = "running" /\ k = i
             /\ \A k \in Spots(f, status) : p = "fromNode" /\ k = i
  <2>1. \A q, k : In(c, q, n, k) => p = q /\ k = i
    BY <1>7 DEF Once
  <2> QED BY <2>1 DEF In
<1> DEFINE Here == \E p \in NodePlaces : \E i : In(c, p, n, i)
           Only(q, j) ==
             /\ \A k \in Spots(toNode'[n], cmd) : q = "toNode" /\ k = j
             /\ \A k \in Spots(waiting'[n], c) : q = "waiting" /\ k = j
             /\ \A k \in Spots(running'[n], c) : q = "running" /\ k = j
             /\ \A k \in Spots(fromNode'[n], status) : q = "fromNode" /\ k = j
<1>8. ASSUME Here, \E u, v, x, y : Row(n, u, v, x, y), NEW q, NEW j, Only(q, j)
      PROVE  Once(c)'
  <2>1. \A k \in Node \ {n} : /\ toNode'[k] = toNode[k] /\ waiting'[k] = waiting[k]
                               /\ running'[k] = running[k] /\ fromNode'[k] = fromNode[k]
    BY <1>3, <1>8
  <2>2. PICK p \in NodePlaces : \E i : In(c, p, n, i)
    BY <1>8
  <2>3. ASSUME NEW o, NEW m, NEW k, In(c, o, m, k)' PROVE o = q /\ m = n /\ k = j
    <3>1. CASE o \in NodePlaces /\ m = n
      BY <1>8, <2>3, <3>1 DEF In, NodePlaces
    <3>2. CASE ~(o \in NodePlaces /\ m = n)
      <4>1. In(c, o, m, k)
        BY <1>2, <2>1, <2>3, <3>2 DEF In, NodePlaces
      <4>2. o = p /\ m = n
        BY <2>2, <4>1 DEF Once
      <4> QED BY <2>2, <3>2, <4>2
    <3> QED BY <3>1, <3>2
  <2> QED BY <2>3, Moves
<1> HIDE DEF cmd, status
<1>9. CASE Quiet(n)
  <2> HIDE DEF t, w, r, f
  <2>1. PICK u \in {t, Tail(t)}, z \in Seq(FromNode(n)) :
          /\ u = t \/ t # <<>>
          /\ NoWork(z)
          /\ Row(n, u, w, r, f \o z)
    BY <1>9 DEF Quiet, t, w, r, f
  <2>2. Later(u, t, cmd)
    BY <1>1, <2>1, LaterLaws
  <2>3. status \notin ToSet(z)
    BY <2>1 DEF NoWork, ToSet, Message, status
  <2>4. Later(f \o z, f, status)
    BY <1>1, <2>1, <2>3, LaterConcat
  <2>5. Later(w, w, c) /\ Later(r, r, c)
    BY <1>1, LaterLaws
  <2> QED BY <1>6, <2>1, <2>2, <2>4, <2>5
<1>10. ASSUME NEW d \in WorkOf(received), d # c, Handles(n, d) PROVE Once(c)'
  <2> HIDE DEF t, w, r, f
  <2>1. Message("command", d) # cmd /\ Message("status", d) # status
    BY <1>10 DEF Message, cmd, status
  <2>2. /\ Later(t, t, cmd)
        /\ t # <<>> => Later(Tail(t), t, cmd)
        /\ Later(w, w, c) /\ Later(Append(w, d), w, c)
        /\ w # <<>> => Later(Tail(w), w, c) /\ Later(Append(Tail(w), d), w, c)
    BY <1>1, <1>10, LaterLaws
  <2>3. Later(f, f, status) /\ Later(f \o Status(d), f, status)
    <3>1. Status(d) \in Seq(FromNode(n))
      BY StatusTypes DEF WorkOf
    <3>2. status \notin ToSet(Status(d))
      BY <2>1 DEF Status, ToSet
    <3> QED BY <1>1, <3>1, <3>2, LaterLaws, LaterConcat
  <2> DEFINE t1 == Tail(t)
             w1 == Append(w, d)
             w2 == Tail(w)
             w3 == Append(Tail(w), d)
             r1 == Append(r, d)
             f1 == f \o Status(d)
  <2>4. /\ Later(t, t, cmd)
        /\ t # <<>> => Later(t1, t, cmd)
        /\ Later(w, w, c) /\ Later(w1, w, c)
        /\ w # <<>> => Later(w2, w, c) /\ Later(w3, w, c)
        /\ Later(f, f, status) /\ Later(f1, f, status)
        /\ Later(r, r, c) /\ Later(r1, r, c)
        /\ \A i \in 1 .. Len(r) : Later(RemoveAt(r, i), r, c)
    BY <1>1, <1>10, <2>2, <2>3, LaterLaws
  <2> HIDE DEF t1, w1, w2, w3, r1, f1
  <2>5. CASE Arrives(n, d)
    <3>1. t # <<>> /\ Row(n, t1, w1, r, f)
      BY <2>5 DEF Arrives, t, w, r, f, t1, w1, w2, w3, r1, f1
    <3> QED BY <1>6, <2>4, <3>1
  <2>6. CASE Starts(n, d)
    <3>1. w # <<>> /\ Row(n, t, w2, r1, f)
      BY <2>6 DEF Starts, t, w, r, f, t1, w1, w2, w3, r1, f1
    <3> QED BY <1>6, <2>4, <3>1
  <2>7. CASE Fails(n, d)
    <3>1. w # <<>> /\ Row(n, t, w2, r, f1)
      BY <2>7 DEF Fails, t, w, r, f, t1, w1, w2, w3, r1, f1
    <3> QED BY <1>6, <2>4, <3>1
  <2>8. CASE Waits(n, d)
    <3>1. w # <<>> /\ Row(n, t, w3, r, f)
      BY <2>8 DEF Waits, t, w, r, f, t1, w1, w2, w3, r1, f1
    <3> QED BY <1>6, <2>4, <3>1
  <2>9. CASE Errs(n, d)
    <3>1. w # <<>> /\ Row(n, t, w3, r, f1)
      BY <2>9 DEF Errs, t, w, r, f, t1, w1, w2, w3, r1, f1
    <3> QED BY <1>6, <2>4, <3>1
  <2>10. CASE Ends(n, d)
    <3>1. PICK i \in 1 .. Len(r) : Row(n, t, w, RemoveAt(r, i), f1)
      BY <2>10 DEF Ends, t, w, r, f, f1
    <3>2. PICK r2 : r2 = RemoveAt(r, i)
      OBVIOUS
    <3> QED BY <1>6, <2>4, <3>1, <3>2
  <2> QED BY <1>10, <2>5, <2>6, <2>7, <2>8, <2>9, <2>10 DEF Handles
<1>11. CASE c \in WorkOf(received) /\ Handles(n, c)
  <2>1. /\ \A k \in Spots(Append(w, c), c) : k \in Spots(w, c) \/ k = Len(w) + 1
        /\ \A k \in Spots(t, cmd) : k \in Nat
        /\ t # <<>> => \A k \in Spots(Tail(t), cmd) : k \in Nat \ {0} /\ k + 1 \in Spots(t, cmd)
        /\ w # <<>> => \A k \in Spots(Tail(w), c) : k \in Nat \ {0} /\ k + 1 \in Spots(w, c)
    BY <1>1, SpotsOf, SpotsAppend, SpotsTail
  <2>2. \A k \in Spots(f \o Status(c), status) : k \in Spots(f, status) \/ k = Len(f) + 1
    <3>1. Status(c) \in Seq(FromNode(n))
      BY <1>11, StatusTypes DEF WorkOf
    <3>2. \A k \in Spots(Status(c), status) : k = 1
      BY DEF Spots, Status
    <3>3. Len(f) \in Nat
      BY <1>1, LenProperties
    <3> DEFINE z == Status(c)
    <3> HIDE DEF z, f
    <3>4. \A k \in Spots(f \o z, status) : k \in Spots(f, status) \/ (k \in Nat /\ k - Len(f) \in Spots(z, status))
      <4>1. z \in Seq(FromNode(n))
        BY <3>1 DEF z
      <4> QED BY <1>1, <4>1, SpotsConcat
    <3>5. \A k \in Spots(z, status) : k = 1
      BY <3>2 DEF z
    <3>6. \A k \in Spots(f \o z, status) : k \in Spots(f, status) \/ k = Len(f) + 1
      <4> TAKE k \in Spots(f \o z, status)
      <4>1. CASE k \in Nat /\ k - Len(f) \in Spots(z, status)
        <5>1. k - Len(f) = 1
          BY <3>5, <4>1
        <5> QED BY <3>3, <4>1, <5>1
      <4> QED BY <3>4, <4>1
    <3> QED BY <3>6 DEF z
  <2>3. ASSUME w # <<>>, c = Head(w)
        PROVE  /\ In(c, "waiting", n, 1)
               /\ \A k \in Spots(t, cmd) : FALSE
               /\ \A k \in Spots(Tail(w), c) : FALSE
               /\ \A k \in Spots(r, c) : FALSE
               /\ \A k \in Spots(f, status) : FALSE
    <3>1. 1 \in Spots(w, c)
      BY <1>1, <2>3, SpotsOf
    <3>2. In(c, "waiting", n, 1) /\ "waiting" \in NodePlaces
      BY <3>1 DEF In, NodePlaces
    <3>3. \A k \in Spots(w, c) : k = 1
      BY <1>7, <3>2
    <3>4. \A k \in Spots(Tail(w), c) : FALSE
      <4> SUFFICES ASSUME NEW k \in Spots(Tail(w), c) PROVE FALSE
        OBVIOUS
      <4>1. k \in Nat \ {0} /\ k + 1 = 1
        BY <2>1, <2>3, <3>3
      <4> QED BY <4>1
    <3> QED BY <1>7, <3>2, <3>4
  <2>4. \A k \in Spots(Append(Tail(w), c), c) : k \in Spots(Tail(w), c) \/ k = Len(Tail(w)) + 1 \/ w = <<>>
    <3>1. CASE w # <<>>
      <4>1. Tail(w) \in Seq(WorkOf(received))
        BY <1>1, <3>1, HeadTailProperties
      <4> QED BY <4>1, SpotsAppend
    <3> QED BY <3>1
  <2>5. {"toNode", "waiting", "running", "fromNode"} = NodePlaces
    BY DEF NodePlaces
  <2> DEFINE t1 == Tail(t)
             w1 == Append(w, c)
             w2 == Tail(w)
             w3 == Append(Tail(w), c)
             r1 == Append(r, c)
             f1 == f \o Status(c)
  <2>6. /\ \A k \in Spots(w1, c) : k \in Spots(w, c) \/ k = Len(w) + 1
        /\ \A k \in Spots(w3, c) : k \in Spots(w2, c) \/ k = Len(w2) + 1 \/ w = <<>>
        /\ \A k \in Spots(f1, status) : k \in Spots(f, status) \/ k = Len(f) + 1
        /\ \A k \in Spots(r1, c) : k \in Spots(r, c) \/ k = Len(r) + 1
        /\ t # <<>> => \A k \in Spots(t1, cmd) : k \in Nat \ {0} /\ k + 1 \in Spots(t, cmd)
    BY <1>1, <2>1, <2>2, <2>4, SpotsAppend
  <2>7. ASSUME w # <<>>, c = Head(w)
        PROVE  /\ In(c, "waiting", n, 1)
               /\ \A k \in Spots(t, cmd) : FALSE
               /\ \A k \in Spots(w2, c) : FALSE
               /\ \A k \in Spots(r, c) : FALSE
               /\ \A k \in Spots(f, status) : FALSE
    BY <2>3, <2>7
  <2> HIDE DEF t, w, r, f, t1, w1, w2, w3, r1, f1
  <2>8. CASE Arrives(n, c)
    <3>1. t # <<>> /\ Head(t) = cmd /\ Row(n, t1, w1, r, f)
      BY <2>8 DEF Arrives, t, w, r, f, t1, w1, w2, w3, r1, f1, cmd
    <3>2. 1 \in Spots(t, cmd)
      BY <1>1, <3>1, SpotsOf
    <3>3. In(c, "toNode", n, 1)
      BY <3>2 DEF In, t, cmd
    <3>4. /\ \A k \in Spots(t, cmd) : k = 1
          /\ \A k \in Spots(w, c) : FALSE
          /\ \A k \in Spots(r, c) : FALSE
          /\ \A k \in Spots(f, status) : FALSE
      BY <1>7, <2>5, <3>3
    <3>5. \A k \in Spots(t1, cmd) : FALSE
      <4> SUFFICES ASSUME NEW k \in Spots(t1, cmd) PROVE FALSE
        OBVIOUS
      <4>1. k \in Nat \ {0} /\ k + 1 = 1
        BY <2>6, <3>1, <3>4
      <4> QED BY <4>1
    <3>6. PICK j : \A k \in Spots(w1, c) : k = j
      BY <2>6, <3>4
    <3>7. Only("waiting", j)
      BY <1>3, <3>1, <3>4, <3>5, <3>6
    <3>9. Here
      BY <2>5, <3>3
    <3> HIDE DEF Here, Only
    <3> QED BY <1>8, <3>1, <3>7, <3>9
  <2>9. CASE Starts(n, c)
    <3>1. w # <<>> /\ c = Head(w) /\ Row(n, t, w2, r1, f)
      BY <2>9 DEF Starts, t, w, r, f, t1, w1, w2, w3, r1, f1
    <3>2. PICK j : \A k \in Spots(r1, c) : k = j
      BY <2>6, <2>7, <3>1
    <3>3. Only("running", j)
      BY <1>3, <2>7, <3>1, <3>2
    <3>9. Here
      BY <2>5, <2>7, <3>1
    <3> HIDE DEF Here, Only
    <3> QED BY <1>8, <3>1, <3>3, <3>9
  <2>10. CASE Fails(n, c)
    <3>1. w # <<>> /\ c = Head(w) /\ Row(n, t, w2, r, f1)
      BY <2>10 DEF Fails, t, w, r, f, t1, w1, w2, w3, r1, f1
    <3>2. PICK j : \A k \in Spots(f1, status) : k = j
      BY <2>6, <2>7, <3>1
    <3>3. Only("fromNode", j)
      BY <1>3, <2>7, <3>1, <3>2
    <3>9. Here
      BY <2>5, <2>7, <3>1
    <3> HIDE DEF Here, Only
    <3> QED BY <1>8, <3>1, <3>3, <3>9
  <2>11. CASE Waits(n, c)
    <3>1. w # <<>> /\ c = Head(w) /\ Row(n, t, w3, r, f)
      BY <2>11 DEF Waits, t, w, r, f, t1, w1, w2, w3, r1, f1
    <3>2. PICK j : \A k \in Spots(w3, c) : k = j
      BY <2>6, <2>7, <3>1
    <3>3. Only("waiting", j)
      BY <1>3, <2>7, <3>1, <3>2
    <3>9. Here
      BY <2>5, <2>7, <3>1
    <3> HIDE DEF Here, Only
    <3> QED BY <1>8, <3>1, <3>3, <3>9
  <2>12. ~Errs(n, c)
    BY DEF Errs
  <2>13. CASE Ends(n, c)
    <3>1. PICK i \in 1 .. Len(r) : c = r[i] /\ Row(n, t, w, RemoveAt(r, i), f1)
      BY <2>13 DEF Ends, t, w, r, f, f1
    <3>2. In(c, "running", n, i) /\ i \in Spots(r, c)
      <4>1. i \in Spots(r, c)
        BY <1>1, <3>1, LenProperties DEF Spots
      <4> QED BY <4>1 DEF In, r
    <3>3. /\ \A k \in Spots(t, cmd) : FALSE
          /\ \A k \in Spots(w, c) : FALSE
          /\ \A k \in Spots(r, c) : k = i
          /\ \A k \in Spots(f, status) : FALSE
      BY <1>7, <2>5, <3>2
    <3>4. PICK j : \A k \in Spots(f1, status) : k = j
      BY <2>6, <3>3
    <3>6. PICK r2 : r2 = RemoveAt(r, i)
      OBVIOUS
    <3>7. \A k \in Spots(r2, c) : FALSE
      <4> SUFFICES ASSUME NEW k \in Spots(RemoveAt(r, i), c) PROVE FALSE
        BY <3>6
      <4>1. /\ k \in Nat /\ i \in Nat
            /\ (k < i /\ k \in Spots(r, c)) \/ (k >= i /\ k + 1 \in Spots(r, c))
        BY <1>1, SpotsRest
      <4>2. CASE k < i /\ k \in Spots(r, c)
        BY <3>3, <4>1, <4>2
      <4>3. CASE k >= i /\ k + 1 \in Spots(r, c)
        <5>1. k + 1 = i
          BY <3>3, <4>3
        <5> QED BY <4>1, <4>3, <5>1
      <4> QED BY <4>1, <4>2, <4>3
    <3>5. Only("fromNode", j)
      BY <1>3, <3>1, <3>3, <3>4, <3>6, <3>7
    <3>9. Here
      BY <2>5, <3>2
    <3> HIDE DEF Here, Only
    <3> QED BY <1>8, <3>1, <3>5, <3>6, <3>9
  <2> QED BY <1>11, <2>8, <2>9, <2>10, <2>11, <2>12, <2>13 DEF Handles
<1> QED BY <1>2, <1>9, <1>10, <1>11

\* Where c is, it is nowhere else.
LEMMA Elsewhere ==
    ASSUME NEW c, Once(c), NEW p, NEW n, NEW i, In(c, p, n, i)
    PROVE  /\ \A k \in Spots(toDispatcher, Message("command", c)) : p = "toDispatcher" /\ k = i
           /\ c \in queue => p = "queue"
           /\ \A k \in Spots(toBuilder, Message("status", c)) : p = "toBuilder" /\ k = i
           /\ c \in lost => p = "lost"
           /\ \A m \in Node :
                 /\ \A k \in Spots(toNode[m], Message("command", c)) : p = "toNode" /\ m = n /\ k = i
                 /\ \A k \in Spots(waiting[m], c) : p = "waiting" /\ m = n /\ k = i
                 /\ \A k \in Spots(running[m], c) : p = "running" /\ m = n /\ k = i
                 /\ \A k \in Spots(fromNode[m], Message("status", c)) : p = "fromNode" /\ m = n /\ k = i
<1>1. \A q, m, j : In(c, q, m, j) => q = p /\ m = n /\ j = i
  BY DEF Once
<1>2. /\ \A k \in Spots(toDispatcher, Message("command", c)) : p = "toDispatcher" /\ k = i
      /\ \A k \in Spots(toBuilder, Message("status", c)) : p = "toBuilder" /\ k = i
  <2>1. \A k \in Spots(toDispatcher, Message("command", c)) : In(c, "toDispatcher", Nothing, k)
    BY DEF In
  <2>2. \A k \in Spots(toBuilder, Message("status", c)) : In(c, "toBuilder", Nothing, k)
    BY DEF In
  <2> QED BY <1>1, <2>1, <2>2
<1>3. (c \in queue => p = "queue") /\ (c \in lost => p = "lost")
  <2>1. (c \in queue => In(c, "queue", Nothing, 0)) /\ (c \in lost => In(c, "lost", Nothing, 0))
    BY DEF In
  <2> QED BY <1>1, <2>1
<1>4. ASSUME NEW m \in Node
      PROVE  /\ \A k \in Spots(toNode[m], Message("command", c)) : p = "toNode" /\ m = n /\ k = i
             /\ \A k \in Spots(waiting[m], c) : p = "waiting" /\ m = n /\ k = i
             /\ \A k \in Spots(running[m], c) : p = "running" /\ m = n /\ k = i
             /\ \A k \in Spots(fromNode[m], Message("status", c)) : p = "fromNode" /\ m = n /\ k = i
  <2>1. \A k \in Spots(toNode[m], Message("command", c)) : In(c, "toNode", m, k)
    BY DEF In
  <2>2. \A k \in Spots(waiting[m], c) : In(c, "waiting", m, k)
    BY DEF In
  <2>3. \A k \in Spots(running[m], c) : In(c, "running", m, k)
    BY DEF In
  <2>4. \A k \in Spots(fromNode[m], Message("status", c)) : In(c, "fromNode", m, k)
    BY DEF In
  <2> QED BY <1>1, <2>1, <2>2, <2>3, <2>4
<1> QED BY <1>2, <1>3, <1>4

\* The bus moves a status from its node to the builder, or loses it.
LEMMA OnceByBus ==
    ASSUME SystemInv, NEW n \in Node, BusHearsNode(n), NEW c, ~IsStop(c), Once(c)
    PROVE  Once(c)'
<1> DEFINE m == Head(fromNode[n])
           cmd == Message("command", c)
           status == Message("status", c)
<1>1. /\ \A k \in Node : /\ toNode[k] \in Seq(ToNode(k)) /\ fromNode[k] \in Seq(FromNode(k))
                         /\ waiting[k] \in Seq(WorkOf(received))
                         /\ running[k] \in Seq(WorkOf(received))
      /\ toDispatcher \in Seq(ToDispatcher) /\ toBuilder \in Seq(ToBuilder)
      /\ DOMAIN toNode = Node /\ DOMAIN fromNode = Node
  BY DEF SystemInv, Channels, Workers
<1>2. /\ fromNode[n] # <<>>
      /\ fromNode' = [fromNode EXCEPT ![n] = Tail(@)]
      /\ \/ m.kind = "connect" /\ ConnectNode(n, m.content)
         \/ m.kind = "status" /\ PublishStatus(m)
         \/ /\ m.kind = "subscribe"
            /\ UNCHANGED <<toNode, toDispatcher, toBuilder, lost>>
         \/ /\ m.kind \in {"register", "nodeInfo"}
            /\ toDispatcher' = Append(toDispatcher, m)
            /\ UNCHANGED <<toNode, toBuilder, lost>>
      /\ UNCHANGED <<queue, waiting, running>>
  BY DEF BusHearsNode, AddSubscriber, builderVars, nodeVars, workerVars, vars
<1>3. fromNode'[n] = Tail(fromNode[n]) /\ \A k \in Node \ {n} : fromNode'[k] = fromNode[k]
  BY <1>1, <1>2
<1>4. m \in FromNode(n)
  BY <1>1, <1>2, HeadTailProperties
<1>5. m = Message(m.kind, m.content) /\ m.kind # "command"
  BY <1>4 DEF FromNode, Message
<1>6. cmd.kind = "command" /\ status.kind = "status" /\ status.content = c
  BY DEF Message
<1> HIDE DEF cmd, status, m
<1>7. \A k \in Node : Later(toNode[k], toNode[k], cmd) /\ Later(toNode'[k], toNode[k], cmd)
  <2>1. \A k \in Node : Later(toNode[k], toNode[k], cmd)
    BY <1>1, LaterLaws
  <2>2. \A s : Later(Append(toNode[n], Message("connected", s)), toNode[n], cmd)
    <3> TAKE s
    <3>1. Message("connected", s) # cmd
      BY <1>6 DEF Message
    <3> QED BY <1>1, <3>1, LaterLaws
  <2>3. CASE UNCHANGED toNode
    BY <2>1, <2>3
  <2>4. CASE \E s : toNode' = [toNode EXCEPT ![n] = Append(@, Message("connected", s))]
    BY <1>1, <2>1, <2>2, <2>4
  <2> QED BY <1>2, <2>3, <2>4 DEF ConnectNode, PublishStatus
<1>8. Later(toDispatcher, toDispatcher, cmd) /\ Later(toDispatcher', toDispatcher, cmd)
  <2>1. /\ Later(toDispatcher, toDispatcher, cmd)
        /\ m # cmd => Later(Append(toDispatcher, m), toDispatcher, cmd)
    BY <1>1, LaterLaws
  <2>2. m # cmd
    BY <1>5, <1>6
  <2>3. toDispatcher' = toDispatcher \/ toDispatcher' = Append(toDispatcher, m)
    BY <1>2 DEF ConnectNode, PublishStatus
  <2> QED BY <2>1, <2>2, <2>3
<1>9. /\ m.kind # "status" => UNCHANGED <<toBuilder, lost>>
      /\ m.kind = "status" => \/ toBuilder' = Append(toBuilder, m) /\ UNCHANGED lost
                              \/ lost' = lost \cup WorkOf({m.content}) /\ UNCHANGED toBuilder
  BY <1>2 DEF ConnectNode, PublishStatus
<1>10. CASE m # status
  <2>1. m.kind = "status" => m.content # c
    BY <1>5, <1>10 DEF status
  <2>2. Later(toBuilder, toBuilder, status) /\ Later(Append(toBuilder, m), toBuilder, status)
    BY <1>1, <1>10, LaterLaws
  <2>3. Later(toBuilder', toBuilder, status)
    BY <1>9, <2>2
  <2>4. c \in lost' => c \in lost
    BY <1>9, <2>1 DEF WorkOf
  <2>5. \A k \in Node : /\ Later(waiting[k], waiting[k], c) /\ Later(fromNode[k], fromNode[k], status)
                        /\ Later(running[k], running[k], c)
    BY <1>1, LaterLaws
  <2>6. Later(Tail(fromNode[n]), fromNode[n], status)
    BY <1>1, <1>2, LaterLaws
  <2>7. \A k \in Node : Later(fromNode'[k], fromNode[k], status)
    BY <1>3, <2>5, <2>6
  <2> QED BY <1>2, <1>7, <1>8, <2>3, <2>4, <2>5, <2>7, Stays DEF cmd, status
<1>11. CASE m = status
  <2>1. 1 \in Spots(fromNode[n], status)
    BY <1>1, <1>2, <1>11, SpotsOf DEF m
  <2>2. In(c, "fromNode", n, 1)
    BY <2>1 DEF In, status
  <2>3. /\ \A k \in Spots(toDispatcher, cmd) : FALSE
        /\ c \notin queue /\ c \notin lost
        /\ \A k \in Spots(toBuilder, status) : FALSE
        /\ \A l \in Node : /\ \A k \in Spots(toNode[l], cmd) : FALSE
                           /\ \A k \in Spots(waiting[l], c) : FALSE
                           /\ \A k \in Spots(running[l], c) : FALSE
                           /\ \A k \in Spots(fromNode[l], status) : l = n /\ k = 1
    BY <2>2, Elsewhere DEF cmd, status
  <2>4. \A k \in Spots(toDispatcher', cmd) : FALSE
    BY <1>8, <2>3 DEF Later
  <2>5. \A l \in Node : \A k \in Spots(toNode'[l], cmd) : FALSE
    BY <1>7, <2>3 DEF Later
  <2>6. \A l \in Node : \A k \in Spots(fromNode'[l], status) : FALSE
    <3> TAKE l \in Node
    <3>1. CASE l = n
      <4> SUFFICES ASSUME NEW k \in Spots(Tail(fromNode[n]), status) PROVE FALSE
        BY <1>3, <3>1
      <4>1. k \in Nat \ {0} /\ k + 1 \in Spots(fromNode[n], status)
        BY <1>1, <1>2, SpotsTail
      <4>2. k + 1 = 1
        BY <2>3, <4>1
      <4> QED BY <4>1, <4>2
    <3>2. CASE l # n
      BY <1>3, <2>3, <3>2
    <3> QED BY <3>1, <3>2
  <2>7. ASSUME NEW p, NEW l, NEW i, In(c, p, l, i)'
        PROVE  \/ p = "toBuilder" /\ l = Nothing /\ i \in Spots(toBuilder', status)
               \/ p = "lost" /\ l = Nothing /\ i = 0 /\ c \in lost'
    BY <1>2, <2>3, <2>4, <2>5, <2>6, <2>7 DEF In, cmd, status
  <2>8. CASE toBuilder' = Append(toBuilder, m) /\ UNCHANGED lost
    <3>1. \A i \in Spots(toBuilder', status) : i = Len(toBuilder) + 1
      BY <1>1, <2>3, <2>8, SpotsAppend
    <3> QED BY <2>3, <2>7, <2>8, <3>1, Moves
  <2>9. CASE UNCHANGED toBuilder
    BY <2>3, <2>7, <2>9, Moves
  <2> QED BY <1>6, <1>9, <1>11, <2>8, <2>9
<1> QED BY <1>10, <1>11

\* Nothing the builder or a closed connection does moves a command, except that one
\* the builder answers is gone.
LEMMA MovedByOthers ==
    ASSUME SystemInv, Builder \/ \E s \in Session : BusClosesSession(s),
           NEW c, ~IsStop(c), c \in sent
    PROVE  /\ UNCHANGED <<queue, fromNode, toNode, waiting, running, lost>>
           /\ Later(toDispatcher', toDispatcher, Message("command", c))
           /\ Later(toBuilder', toBuilder, Message("status", c))
<1> DEFINE cmd == Message("command", c)
           status == Message("status", c)
           Frame == UNCHANGED <<queue, fromNode, toNode, waiting, running, lost>>
           Result == Frame /\ Later(toDispatcher', toDispatcher, cmd)
                           /\ Later(toBuilder', toBuilder, status)
<1>1. toDispatcher \in Seq(ToDispatcher) /\ toBuilder \in Seq(ToBuilder)
  BY DEF SystemInv, Channels
<1> HIDE DEF cmd, status
<1>2. /\ Later(toDispatcher, toDispatcher, cmd)
      /\ \A m : m # cmd => Later(Append(toDispatcher, m), toDispatcher, cmd)
      /\ Later(toBuilder, toBuilder, status) /\ Later(<<>>, toBuilder, status)
      /\ toBuilder # <<>> => Later(Tail(toBuilder), toBuilder, status)
  BY <1>1, LaterLaws
<1>5. ASSUME StopAllCommands PROVE Later(toDispatcher', toDispatcher, cmd)
  <2> DEFINE S == [kind : {"command"}, content : sent' \ WorkOf(sent')]
  <2>1. PICK r \in Seq(S) : sent \subseteq sent' /\ toDispatcher' = toDispatcher \o r
    BY <1>5, StopsSent DEF SystemInv
  <2>2. c \in WorkOf(sent')
    BY <2>1 DEF WorkOf
  <2>3. cmd \notin S
    BY <2>2 DEF cmd, Message
  <2> HIDE DEF S
  <2>4. \A i \in DOMAIN r : r[i] \in S
    BY <2>1, ElementOfSeq, LenProperties
  <2>5. cmd \notin ToSet(r)
    BY <2>3, <2>4 DEF ToSet
  <2> QED BY <1>1, <2>1, <2>5, LaterConcat
<1>6. ASSUME \E k \in Class : Request(k) PROVE Result
  <2>1. PICK k \in Class : Request(k)
    BY <1>6
  <2> DEFINE d == [id |-> Cardinality(sent) + 1, class |-> k, target |-> NoTarget]
  <2>2. toDispatcher' = Append(toDispatcher, Message("command", d)) /\ Frame /\ UNCHANGED toBuilder
    BY <2>1 DEF Request, vars, nodeVars, workerVars, lossVars
  <2>3. c # d
    <3>1. Cardinality(sent) \in Nat
      BY FS_CardinalityType DEF SystemInv, Numbers
    <3>2. d \in Command /\ d.id = Cardinality(sent) + 1
      BY <3>1 DEF Command, NoTarget
    <3> HIDE DEF d
    <3> QED BY <3>2, Fresh DEF SystemInv
  <2> HIDE DEF d, Frame
  <2>4. Message("command", d) # cmd
    BY <2>3 DEF Message, cmd
  <2> QED BY <1>2, <2>2, <2>4
<1>7. ASSUME Subscribe PROVE Result
  <2>1. Frame /\ UNCHANGED <<toDispatcher, toBuilder>>
    BY <1>7 DEF Subscribe, vars, nodeVars, workerVars, lossVars
  <2> HIDE DEF Frame
  <2> QED BY <1>2, <2>1
<1>8. ASSUME BuilderRaises PROVE Result
  <2>1. Frame /\ UNCHANGED toBuilder /\ StopAllCommands
    BY <1>8 DEF BuilderRaises, vars, nodeVars, workerVars, lossVars
  <2> HIDE DEF Frame
  <2> QED BY <1>2, <1>5, <2>1
<1>9. ASSUME Signalled PROVE Result
  <2>1. Frame /\ toBuilder' = <<>> /\ StopAllCommands
    BY <1>9 DEF Signalled, Exit, vars, nodeVars, workerVars, lossVars
  <2> HIDE DEF Frame
  <2> QED BY <1>2, <1>5, <2>1
<1>10. ASSUME BuilderExits PROVE Result
  <2>1. Frame /\ toBuilder' = <<>> /\ UNCHANGED toDispatcher
    BY <1>10 DEF BuilderExits, Exit, vars, nodeVars, workerVars, lossVars
  <2> HIDE DEF Frame
  <2> QED BY <1>2, <2>1
<1>11. ASSUME BuilderHears PROVE Result
  <2>1. Frame /\ toBuilder # <<>>
    BY <1>11 DEF BuilderHears, vars, nodeVars, workerVars, lossVars
  <2>2. PICK d : BuilderNotes(d)
    BY <1>11 DEF BuilderHears
  <2>3. /\ toBuilder' = Tail(toBuilder) \/ toBuilder' = <<>>
        /\ toDispatcher' = toDispatcher \/ StopAllCommands
    BY <2>2 DEF BuilderNotes, Exit
  <2> HIDE DEF Frame
  <2> QED BY <1>2, <1>5, <2>1, <2>3
<1>12. ASSUME \E s \in Session : BusClosesSession(s) PROVE Result
  <2>1. PICK s \in Session : BusClosesSession(s)
    BY <1>12
  <2>2. /\ toDispatcher' = Append(toDispatcher, Message("disconnected", s))
        /\ Frame /\ UNCHANGED toBuilder
    BY <2>1 DEF BusClosesSession, vars, nodeVars, workerVars, lossVars
  <2>3. Message("disconnected", s) # cmd
    BY DEF Message, cmd
  <2> HIDE DEF Frame
  <2> QED BY <1>2, <2>2, <2>3
<1>13. Result
  <2> HIDE DEF Result
  <2> QED BY <1>6, <1>7, <1>8, <1>9, <1>10, <1>11, <1>12 DEF Builder
<1> QED BY <1>13 DEF cmd, status

LEMMA OnceByOthers ==
    ASSUME SystemInv, Builder \/ \E s \in Session : BusClosesSession(s),
           NEW c, ~IsStop(c), c \in sent, Once(c)
    PROVE  Once(c)'
<1>1. \A k \in Node : /\ Later(toNode[k], toNode[k], Message("command", c))
                      /\ Later(waiting[k], waiting[k], c) /\ Later(running[k], running[k], c)
                      /\ Later(fromNode[k], fromNode[k], Message("status", c))
  BY LaterLaws DEF SystemInv, Channels, Workers
<1>2. /\ UNCHANGED <<queue, fromNode, toNode, waiting, running, lost>>
      /\ Later(toDispatcher', toDispatcher, Message("command", c))
      /\ Later(toBuilder', toBuilder, Message("status", c))
  BY MovedByOthers
<1> QED BY <1>1, <1>2, Stays

\* What is lost is nowhere else.
LEMMA OnceByLoss ==
    ASSUME SystemInv, NEW n \in Node, Loss(n), NEW c, ~IsStop(c), Once(c)
    PROVE  Once(c)'
<1> DEFINE cmd == Message("command", c)
           status == Message("status", c)
<1>1. /\ \A k \in Node : /\ toNode[k] \in Seq(ToNode(k)) /\ fromNode[k] \in Seq(FromNode(k))
                         /\ waiting[k] \in Seq(WorkOf(received))
                         /\ running[k] \in Seq(WorkOf(received))
      /\ toDispatcher \in Seq(ToDispatcher) /\ toBuilder \in Seq(ToBuilder)
      /\ DOMAIN toNode = Node /\ DOMAIN fromNode = Node /\ DOMAIN waiting = Node
      /\ DOMAIN running = Node
  BY DEF SystemInv, Channels, Workers
<1>2. UNCHANGED <<queue, toDispatcher, toBuilder>>
  BY HeldByLoss DEF vars
<1> HIDE DEF cmd, status
<1>3. /\ Later(toDispatcher, toDispatcher, cmd) /\ Later(toBuilder, toBuilder, status)
      /\ \A k \in Node : /\ Later(toNode[k], toNode[k], cmd) /\ Later(waiting[k], waiting[k], c)
                         /\ Later(<<>>, toNode[k], cmd) /\ Later(<<>>, waiting[k], c)
                         /\ Later(fromNode[k], fromNode[k], status)
                         /\ Later(running[k], running[k], c) /\ Later(<<>>, running[k], c)
  BY <1>1, LaterLaws
<1>4. ASSUME NEW kept \in Suffixes(fromNode[n]), NEW s,
             fromNode' = [fromNode EXCEPT ![n] = Append(kept, Message("connect", s))]
      PROVE  /\ \A i \in Spots(fromNode'[n], status) : i \in Spots(kept, status)
             /\ \A k \in Node : Later(fromNode'[k], fromNode[k], status)
  <2>1. kept \in Seq(FromNode(n)) /\ Later(kept, fromNode[n], status)
    BY <1>1, SuffixOf, LaterLaws
  <2>2. Message("connect", s) # status
    BY DEF Message, status
  <2>3. \A i \in Spots(Append(kept, Message("connect", s)), status) : i \in Spots(kept, status)
    BY <2>1, <2>2, SpotsAppend
  <2>4. Later(Append(kept, Message("connect", s)), fromNode[n], status)
    BY <2>1, <2>3 DEF Later
  <2> QED BY <1>1, <1>3, <1>4, <2>3, <2>4
<1>5. <<>> \in Suffixes(fromNode[n])
  BY DEF Suffixes
<1>6. ASSUME \A k \in Node : Later(fromNode'[k], fromNode[k], status),
             \A k \in Node : toNode'[k] = toNode[k] \/ toNode'[k] = <<>>,
             \A k \in Node : waiting'[k] = waiting[k] \/ waiting'[k] = <<>>,
             \A k \in Node : running'[k] = running[k] \/ running'[k] = <<>>,
             c \in lost' => c \in lost
      PROVE  Once(c)'
  <2>1. \A k \in Node : /\ Later(toNode'[k], toNode[k], cmd) /\ Later(waiting'[k], waiting[k], c)
                        /\ Later(running'[k], running[k], c)
    BY <1>3, <1>6
  <2>2. Later(toDispatcher', toDispatcher, cmd) /\ Later(toBuilder', toBuilder, status)
        /\ (c \in queue' => c \in queue)
    BY <1>2, <1>3
  <2> QED BY <1>6, <2>1, <2>2, Stays DEF cmd, status
<1>7. ASSUME NEW p \in NodePlaces, NEW i, In(c, p, n, i),
             \A k \in Node \ {n} : /\ toNode'[k] = toNode[k] /\ waiting'[k] = waiting[k]
                                   /\ running'[k] = running[k] /\ fromNode'[k] = fromNode[k],
             \A k \in Spots(toNode'[n], cmd) : FALSE, \A k \in Spots(waiting'[n], c) : FALSE,
             \A k \in Spots(running'[n], c) : FALSE, \A k \in Spots(fromNode'[n], status) : FALSE
      PROVE  Once(c)'
  <2>1. ASSUME NEW q, NEW m, NEW j, In(c, q, m, j)' PROVE q = "lost" /\ m = Nothing /\ j = 0
    <3>1. /\ \A k \in Spots(toDispatcher, cmd) : FALSE
          /\ c \notin queue
          /\ \A k \in Spots(toBuilder, status) : FALSE
          /\ \A l \in Node \ {n} : /\ \A k \in Spots(toNode[l], cmd) : FALSE
                                   /\ \A k \in Spots(waiting[l], c) : FALSE
                                   /\ \A k \in Spots(running[l], c) : FALSE
                                   /\ \A k \in Spots(fromNode[l], status) : FALSE
      BY <1>7, Elsewhere DEF cmd, status, NodePlaces
    <3> QED BY <1>2, <1>7, <2>1, <3>1 DEF In, cmd, status
  <2> QED BY <2>1, Moves
<1>8. Spots(<<>>, cmd) = {} /\ Spots(<<>>, c) = {} /\ Spots(<<>>, status) = {}
  BY DEF Spots
<1>9. /\ c \in Carried(toNode[n], "command") => \E i : In(c, "toNode", n, i)
      /\ c \in Carried(fromNode[n], "status") => \E i : In(c, "fromNode", n, i)
      /\ c \in Queued(n) => \E i : In(c, "waiting", n, i)
      /\ c \in Running(n) => \E i : In(c, "running", n, i)
  <2>1. ASSUME c \in Carried(toNode[n], "command") PROVE \E i : In(c, "toNode", n, i)
    <3>1. PICK i \in DOMAIN toNode[n] : toNode[n][i].kind = "command" /\ toNode[n][i].content = c
      BY <2>1 DEF Carried
    <3>2. toNode[n][i] \in ToNode(n)
      BY <1>1, <3>1, ElementOfSeq, LenProperties
    <3>3. toNode[n][i] = cmd
      BY <3>1, <3>2 DEF ToNode, cmd, Message
    <3> QED BY <3>1, <3>3 DEF In, Spots, cmd
  <2>2. ASSUME c \in Carried(fromNode[n], "status") PROVE \E i : In(c, "fromNode", n, i)
    <3>1. PICK i \in DOMAIN fromNode[n] : fromNode[n][i].kind = "status" /\ fromNode[n][i].content = c
      BY <2>2 DEF Carried
    <3>2. fromNode[n][i] \in FromNode(n)
      BY <1>1, <3>1, ElementOfSeq, LenProperties
    <3>3. fromNode[n][i] = status
      BY <3>1, <3>2 DEF FromNode, status, Message
    <3> QED BY <3>1, <3>3 DEF In, Spots, status
  <2>3. ASSUME c \in Queued(n) PROVE \E i : In(c, "waiting", n, i)
    BY <2>3 DEF Queued, ToSet, In, Spots
  <2>4. ASSUME c \in Running(n) PROVE \E i : In(c, "running", n, i)
    BY <2>4 DEF Running, ToSet, In, Spots
  <2> QED BY <2>1, <2>2, <2>3, <2>4
<1>10. CASE ConnectionBreaks(n)
  <2>1. PICK kept \in Suffixes(fromNode[n]) :
          /\ Reconnect(n, kept, session[n])
          /\ lost' = lost \cup WorkOf(InTransit(n) \ Carried(kept, "status"))
    BY <1>10 DEF ConnectionBreaks
  <2>2. UNCHANGED <<waiting, running>>
    BY <1>10 DEF ConnectionBreaks, nodeVars, workerVars
  <2>3. /\ fromNode' = [fromNode EXCEPT ![n] = Append(kept, Message("connect", session[n]))]
        /\ toNode'[n] = <<>> /\ \A k \in Node \ {n} : toNode'[k] = toNode[k]
    BY <1>1, <2>1 DEF Reconnect
  <2>4. /\ \A i \in Spots(fromNode'[n], status) : i \in Spots(kept, status)
        /\ \A k \in Node : Later(fromNode'[k], fromNode[k], status)
    BY <1>4, <2>3
  <2>5. CASE c \notin InTransit(n) \ Carried(kept, "status")
    <3>1. c \in lost' => c \in lost
      BY <2>1, <2>5 DEF WorkOf
    <3> QED BY <1>6, <2>2, <2>3, <2>4, <3>1
  <2>6. CASE c \in InTransit(n) \ Carried(kept, "status")
    <3>1. PICK p \in {"toNode", "fromNode"} : \E i : In(c, p, n, i)
      BY <1>9, <2>6 DEF InTransit
    <3>2. p \in NodePlaces
      BY DEF NodePlaces
    <3>3. PICK i : In(c, p, n, i)
      BY <3>1
    <3>4. \A k \in Spots(waiting[n], c) : FALSE
      BY <3>3, Elsewhere
    <3>5. \A k \in Spots(running[n], c) : FALSE
      BY <3>3, Elsewhere
    <3>6. \A k \in Spots(kept, status) : FALSE
      BY <2>6 DEF Carried, Spots, status, Message
    <3>7. \A k \in Spots(toNode'[n], cmd) : FALSE
      BY <1>8, <2>3
    <3>8. \A k \in Spots(fromNode'[n], status) : FALSE
      BY <2>4, <3>6
    <3>9. \A k \in Node \ {n} : fromNode'[k] = fromNode[k]
      BY <1>1, <2>3
    <3> QED BY <1>7, <2>2, <2>3, <3>2, <3>3, <3>4, <3>5, <3>7, <3>8, <3>9
  <2> QED BY <2>5, <2>6
<1>11. CASE NodeDies(n) \/ NodeAborts(n)
  <2>1. /\ Reconnect(n, <<>>, NoSession)
        /\ waiting' = [waiting EXCEPT ![n] = <<>>]
        /\ running' = [running EXCEPT ![n] = <<>>]
        /\ lost' = lost \cup WorkOf(InTransit(n) \cup Queued(n) \cup Running(n))
    BY <1>11 DEF NodeDies, NodeAborts, Restart
  <2>2. fromNode' = [fromNode EXCEPT ![n] = Append(<<>>, Message("connect", NoSession))]
        /\ toNode' = [toNode EXCEPT ![n] = <<>>]
    BY <2>1 DEF Reconnect
  <2>3. /\ toNode'[n] = <<>> /\ waiting'[n] = <<>> /\ running'[n] = <<>>
        /\ \A k \in Node \ {n} : /\ toNode'[k] = toNode[k] /\ waiting'[k] = waiting[k]
                                 /\ running'[k] = running[k] /\ fromNode'[k] = fromNode[k]
    BY <1>1, <2>1, <2>2
  <2>4. /\ \A i \in Spots(fromNode'[n], status) : i \in Spots(<<>>, status)
        /\ \A k \in Node : Later(fromNode'[k], fromNode[k], status)
    BY <1>4, <1>5, <2>2
  <2>5. CASE c \notin InTransit(n) \cup Queued(n) \cup Running(n)
    <3>1. c \in lost' => c \in lost
      BY <2>1, <2>5 DEF WorkOf
    <3> QED BY <1>6, <2>3, <2>4, <3>1
  <2>6. CASE c \in InTransit(n) \cup Queued(n) \cup Running(n)
    <3>1. PICK p \in NodePlaces : \E i : In(c, p, n, i)
      BY <1>9, <2>6 DEF InTransit, NodePlaces
    <3> QED BY <1>7, <1>8, <2>3, <2>4, <3>1
  <2> QED BY <2>5, <2>6
<1> QED BY <1>10, <1>11 DEF Loss

\* A session is that of one node, so only one gets a command.
LEMMA OneGets ==
    ASSUME SystemInv, Dispatch, NEW c, NEW n \in Node, NEW k \in Node,
           c \in SentTo(n), c \in SentTo(k)
    PROVE  n = k
<1>1. ASSUME NEW l \in Node, c \in SentTo(l) PROVE ledger'.owner[c] \in Own(l)
  <2>1. PICK x \in Copies(l) : x[1] = c
    BY <1>1 DEF SentTo
  <2>2. c \in Assigned /\ x[2] \in 1 .. targets[l][ledger'.owner[c]]
    BY <2>1, CopiesOf
  <2>3. ledger'.owner[c] \in Session
    BY <2>2, DispatchOutcome DEF SystemInv
  <2>4. targets[l][ledger'.owner[c]] \in Nat
    BY <2>3 DEF SystemInv, Sessions
  <2>5. targets[l][ledger'.owner[c]] > 0
    BY <2>2, <2>4
  <2> QED BY <2>3, <2>5 DEF SystemInv, Sessions
<1> QED BY <1>1 DEF Own

\* The dispatcher puts a command it reads into its queue, or sends it to the one
\* node that owns the session it chose, once, or loses it.
LEMMA OnceByDispatch ==
    ASSUME SystemInv, Dispatch, NEW c, ~IsStop(c), c \notin doubled', Once(c)
    PROVE  Once(c)'
<1> DEFINE m == Head(toDispatcher)
           cmd == Message("command", c)
           status == Message("status", c)
           sentTo(n) == Sequence("command", ByArrival(Copies(n)))
<1>1. /\ \A k \in Node : /\ toNode[k] \in Seq(ToNode(k)) /\ fromNode[k] \in Seq(FromNode(k))
                         /\ waiting[k] \in Seq(WorkOf(received))
                         /\ running[k] \in Seq(WorkOf(received))
      /\ toDispatcher \in Seq(ToDispatcher) /\ toBuilder \in Seq(ToBuilder)
  BY DEF SystemInv, Channels, Workers
<1>2. /\ toDispatcher # <<>> /\ toDispatcher' = Tail(toDispatcher)
      /\ \A n \in Node : toNode'[n] = toNode[n] \o sentTo(n)
      /\ lost' = lost \cup WorkOf(Assigned \ UNION {SentTo(n) : n \in Node})
      /\ \A n \in Node : c \in Assigned => <<c, 2>> \notin Copies(n)
      /\ UNCHANGED <<toBuilder, fromNode, waiting, running>>
  BY DispatchSends DEF workerVars
<1>3. /\ Outcome(m) /\ queue' \cap Assigned = {}
      /\ \A n \in Node : SentTo(n) \subseteq Assigned
  BY DispatchOutcome, CopiesOf DEF SystemInv
<1>4. c \in queue' \cup Assigned => c \in queue \cup Read
  BY <1>3 DEF Outcome, WorkOf
<1>5. ASSUME NEW n \in Node
      PROVE  /\ sentTo(n) \in Seq([kind : {"command"}, content : SentTo(n)])
             /\ \A i, j \in Spots(sentTo(n), cmd) : i = j
             /\ c \notin SentTo(n) => \A i \in Spots(sentTo(n), cmd) : FALSE
  <2> DEFINE q == sentTo(n)
             C == SentTo(n)
             X == Copies(n)
             S == [kind : {"command"}, content : C]
  <2>1. /\ q \in Seq(S)
        /\ \E g \in Bijection(1 .. Len(q), X) : \A i \in 1 .. Len(q) : q[i] = Message("command", g[i][1])
        /\ \A x \in X : x[1] \in C
    BY DispatchedTo DEF SystemInv, SentTo
  <2>7. \A x \in X : x[1] = c => x = <<c, 1>>
    <3> SUFFICES ASSUME NEW x \in Copies(n), x[1] = c PROVE x = <<c, 1>>
      OBVIOUS
    <3> DEFINE k == targets[n][ledger'.owner[c]]
    <3>1. c \in Assigned /\ x = <<c, x[2]>> /\ x[2] \in 1 .. k
      BY CopiesOf
    <3>2. 2 \notin 1 .. k
      BY <1>2, <3>1, CopiesOf
    <3>3. k \in Nat
      <4>1. ledger'.owner[c] \in Session
        BY <3>1, DispatchOutcome DEF SystemInv
      <4> QED BY <4>1 DEF SystemInv, Sessions
    <3> HIDE DEF k
    <3>4. x[2] = 1
      BY <3>1, <3>2, <3>3
    <3> QED BY <3>1, <3>4
  <2> HIDE DEF q, C, S, X
  <2>2. PICK g \in Bijection(1 .. Len(q), X) : \A i \in 1 .. Len(q) : q[i] = Message("command", g[i][1])
    BY <2>1
  <2>8. /\ \A i \in 1 .. Len(q) : g[i] \in X
        /\ \A i, j \in 1 .. Len(q) : g[i] = g[j] => i = j
    BY <2>2 DEF Bijection, Injection, IsInjective
  <2>3. DOMAIN q = 1 .. Len(q)
    BY <2>1, LenProperties
  <2>4. \A i \in Spots(q, cmd) : i \in 1 .. Len(q) /\ g[i][1] = c
    <3> TAKE i \in Spots(q, cmd)
    <3>1. i \in 1 .. Len(q) /\ q[i] = cmd
      BY <2>3 DEF Spots
    <3>2. Message("command", g[i][1]) = Message("command", c)
      BY <2>2, <3>1
    <3> QED BY <3>1, <3>2 DEF Message
  <2>5. \A i, j \in Spots(q, cmd) : i = j
    BY <2>4, <2>7, <2>8
  <2>6. c \notin C => \A i \in Spots(q, cmd) : FALSE
    BY <2>1, <2>4, <2>8
  <2> QED BY <2>1, <2>5, <2>6 DEF q, C, S
<1> HIDE DEF cmd, status, sentTo, m
<1>6. ASSUME NEW n \in Node, NEW i \in Spots(toNode'[n], cmd)
      PROVE  i \in Spots(toNode[n], cmd) \/ (i \in Nat /\ i - Len(toNode[n]) \in Spots(sentTo(n), cmd))
  <2> DEFINE S == [kind : {"command"}, content : SentTo(n)]
  <2>1. sentTo(n) \in Seq(S) /\ toNode'[n] = toNode[n] \o sentTo(n) /\ toNode[n] \in Seq(ToNode(n))
    BY <1>1, <1>2, <1>5
  <2> HIDE DEF S
  <2> QED BY <1>6, <2>1, SpotsConcat
<1>7. CASE c \notin queue \cup Read
  <2>1. c \notin queue' /\ c \notin Assigned
    BY <1>4, <1>7
  <2>2. ASSUME NEW n \in Node PROVE Later(toNode'[n], toNode[n], cmd)
    <3>3. c \notin SentTo(n)
      BY <1>3, <2>1
    <3>4. \A i : i \notin Spots(sentTo(n), cmd)
      BY <1>5, <3>3
    <3>1. \A i \in Spots(toNode'[n], cmd) : i \in Spots(toNode[n], cmd)
      <4> SUFFICES ASSUME NEW i \in Spots(toNode'[n], cmd) PROVE i \in Spots(toNode[n], cmd)
        OBVIOUS
      <4> QED BY <1>6, <3>4
    <3>2. Later(toNode[n], toNode[n], cmd)
      BY <1>1, LaterLaws
    <3> QED BY <3>1, <3>2 DEF Later
  <2>3. c \in lost' => c \in lost
    BY <1>2, <2>1 DEF WorkOf
  <2>4. /\ Later(toDispatcher', toDispatcher, cmd) /\ Later(toBuilder', toBuilder, status)
        /\ \A k \in Node : /\ Later(waiting'[k], waiting[k], c) /\ Later(running'[k], running[k], c)
                           /\ Later(fromNode'[k], fromNode[k], status)
    BY <1>1, <1>2, LaterLaws
  <2> QED BY <1>2, <2>1, <2>2, <2>3, <2>4, Stays DEF cmd, status
<1>8. CASE c \in queue \cup Read
  <2>1. PICK p \in {"queue", "toDispatcher"}, i \in Nat : In(c, p, Nothing, i) /\ (p = "toDispatcher" => i = 1)
    <3>1. CASE c \in queue
      BY <3>1 DEF In
    <3>2. CASE c \in Read
      <4>1. m.kind = "command" /\ m.content = c
        BY <1>3, <3>2 DEF Outcome, Read
      <4>2. m \in ToDispatcher
        BY <1>1, <1>2, HeadTailProperties DEF m
      <4>3. m = cmd
        BY <4>1, <4>2 DEF ToDispatcher, Message, cmd
      <4>4. 1 \in Spots(toDispatcher, cmd)
        BY <1>1, <1>2, <4>3, SpotsOf DEF m
      <4> QED BY <4>4 DEF In, cmd
    <3> QED BY <1>8, <3>1, <3>2
  <2>2. /\ \A k \in Spots(toDispatcher, cmd) : k = 1
        /\ \A k \in Spots(toBuilder, status) : FALSE
        /\ c \notin lost
        /\ \A n \in Node : /\ \A k \in Spots(toNode[n], cmd) : FALSE
                           /\ \A k \in Spots(waiting[n], c) : FALSE
                           /\ \A k \in Spots(running[n], c) : FALSE
                           /\ \A k \in Spots(fromNode[n], status) : FALSE
    BY <2>1, Elsewhere DEF cmd, status
  <2>3. \A k \in Spots(toDispatcher', cmd) : FALSE
    <3> SUFFICES ASSUME NEW k \in Spots(Tail(toDispatcher), cmd) PROVE FALSE
      BY <1>2
    <3>1. k \in Nat \ {0} /\ k + 1 \in Spots(toDispatcher, cmd)
      BY <1>1, <1>2, SpotsTail
    <3>2. k + 1 = 1
      BY <2>2, <3>1
    <3> QED BY <3>1, <3>2
  <2>4. ASSUME NEW q, NEW n, NEW k, In(c, q, n, k)'
        PROVE  \/ q = "queue" /\ n = Nothing /\ k = 0 /\ c \in queue'
               \/ q = "toNode" /\ n \in Node /\ k \in Spots(toNode'[n], cmd)
               \/ q = "lost" /\ n = Nothing /\ k = 0 /\ c \in lost'
    BY <1>2, <2>2, <2>3, <2>4 DEF In, cmd, status
  <2>5. ASSUME NEW n \in Node, NEW k \in Spots(toNode'[n], cmd)
        PROVE  c \in SentTo(n) /\ k \in Nat /\ k - Len(toNode[n]) \in Spots(sentTo(n), cmd)
    <3>1. k \notin Spots(toNode[n], cmd)
      BY <2>2
    <3>2. k \in Nat /\ k - Len(toNode[n]) \in Spots(sentTo(n), cmd)
      BY <1>6, <2>5, <3>1
    <3>3. c \in SentTo(n)
      BY <1>5, <3>2
    <3> QED BY <3>2, <3>3
  <2>6. c \in lost' => c \in Assigned /\ \A n \in Node : c \notin SentTo(n)
    BY <1>2, <2>2 DEF WorkOf
  <2>7. CASE c \in queue'
    <3>1. c \notin Assigned
      BY <1>3, <2>7
    <3>2. \A q, n, k : In(c, q, n, k)' => q = "queue" /\ n = Nothing /\ k = 0
      BY <1>3, <2>4, <2>5, <2>6, <3>1
    <3> QED BY <3>2, Moves
  <2>8. CASE c \notin queue' /\ \E n \in Node : c \in SentTo(n)
    <3>1. PICK n \in Node : c \in SentTo(n)
      BY <2>8
    <3>2. \A k \in Node : c \in SentTo(k) => k = n
      BY <3>1, OneGets
    <3>3. PICK j : \A k \in Spots(toNode'[n], cmd) : k = j
      <4>1. Len(toNode[n]) \in Nat
        BY <1>1, LenProperties
      <4>2. ASSUME NEW k \in Spots(toNode'[n], cmd), NEW l \in Spots(toNode'[n], cmd)
            PROVE  k = l
        <5>1. /\ k \in Nat /\ k - Len(toNode[n]) \in Spots(sentTo(n), cmd)
              /\ l \in Nat /\ l - Len(toNode[n]) \in Spots(sentTo(n), cmd)
          BY <2>5, <4>2
        <5>2. k - Len(toNode[n]) = l - Len(toNode[n])
          BY <1>5, <5>1
        <5> QED BY <4>1, <5>1, <5>2
      <4> QED BY <4>2
    <3>4. \A q, k, l : In(c, q, k, l)' => q = "toNode" /\ k = n /\ l = j
      BY <2>4, <2>5, <2>6, <2>8, <3>1, <3>2, <3>3
    <3> QED BY <3>4, Moves
  <2>9. CASE c \notin queue' /\ ~\E n \in Node : c \in SentTo(n)
    <3>1. \A q, n, k : In(c, q, n, k)' => q = "lost" /\ n = Nothing /\ k = 0
      BY <2>4, <2>5, <2>9
    <3> QED BY <3>1, Moves
  <2> QED BY <2>7, <2>8, <2>9
<1> QED BY <1>7, <1>8

\* The places of c, as Multinode lists them.
LEMMA PlacesAre ==
    ASSUME NEW c
    PROVE  /\ \A p \in Places(c) : \E pl, n, i : p = <<pl, n, i>> /\ In(c, pl, n, i)
           /\ \A pl, n, i : In(c, pl, n, i) => <<pl, n, i>> \in Places(c)
<1> DEFINE inQueue(place, n, q, m) == {<<place, n, i>> : i \in {j \in DOMAIN q : q[j] = m}}
           inSet(place, n, S) == {<<place, n, 0>> : d \in S \cap {c}}
           at(n) == inQueue("toNode", n, toNode[n], Message("command", c))
                      \cup inQueue("waiting", n, waiting[n], c)
                      \cup inQueue("running", n, running[n], c)
                      \cup inQueue("fromNode", n, fromNode[n], Message("status", c))
<1>1. \A p : p \in Places(c) <=>
         \/ p \in inQueue("toDispatcher", Nothing, toDispatcher, Message("command", c))
         \/ p \in inSet("queue", Nothing, queue)
         \/ \E n \in Node : p \in at(n)
         \/ p \in inQueue("toBuilder", Nothing, toBuilder, Message("status", c))
         \/ p \in inSet("lost", Nothing, lost)
  BY DEF Places
<1>2. ASSUME NEW pl, NEW n, NEW q, NEW m
      PROVE  /\ \A p \in inQueue(pl, n, q, m) : \E i \in Spots(q, m) : p = <<pl, n, i>>
             /\ \A i \in Spots(q, m) : <<pl, n, i>> \in inQueue(pl, n, q, m)
  BY DEF Spots
<1>3. ASSUME NEW pl, NEW n, NEW S
      PROVE  /\ \A p \in inSet(pl, n, S) : p = <<pl, n, 0>> /\ c \in S
             /\ c \in S => <<pl, n, 0>> \in inSet(pl, n, S)
  OBVIOUS
<1> HIDE DEF inQueue, inSet
<1>4. ASSUME NEW n \in Node
      PROVE  /\ \A p \in at(n) : \E pl, i : p = <<pl, n, i>> /\ In(c, pl, n, i)
             /\ \A pl \in NodePlaces : \A i : In(c, pl, n, i) => <<pl, n, i>> \in at(n)
  <2>1. ASSUME NEW p \in at(n) PROVE \E pl, i : p = <<pl, n, i>> /\ In(c, pl, n, i)
    <3>1. CASE p \in inQueue("toNode", n, toNode[n], Message("command", c))
      <4>1. PICK i \in Spots(toNode[n], Message("command", c)) : p = <<"toNode", n, i>>
        BY <1>2, <3>1
      <4> QED BY <4>1 DEF In
    <3>2. CASE p \in inQueue("waiting", n, waiting[n], c)
      <4>1. PICK i \in Spots(waiting[n], c) : p = <<"waiting", n, i>>
        BY <1>2, <3>2
      <4> QED BY <4>1 DEF In
    <3>3. CASE p \in inQueue("running", n, running[n], c)
      <4>1. PICK i \in Spots(running[n], c) : p = <<"running", n, i>>
        BY <1>2, <3>3
      <4> QED BY <4>1 DEF In
    <3>4. CASE p \in inQueue("fromNode", n, fromNode[n], Message("status", c))
      <4>1. PICK i \in Spots(fromNode[n], Message("status", c)) : p = <<"fromNode", n, i>>
        BY <1>2, <3>4
      <4> QED BY <4>1 DEF In
    <3> QED BY <2>1, <3>1, <3>2, <3>3, <3>4
  <2>2. ASSUME NEW pl \in NodePlaces, NEW i, In(c, pl, n, i) PROVE <<pl, n, i>> \in at(n)
    <3>1. CASE pl = "toNode" /\ i \in Spots(toNode[n], Message("command", c))
      BY <1>2, <3>1
    <3>2. CASE pl = "waiting" /\ i \in Spots(waiting[n], c)
      BY <1>2, <3>2
    <3>3. CASE pl = "running" /\ i \in Spots(running[n], c)
      BY <1>2, <3>3
    <3>4. CASE pl = "fromNode" /\ i \in Spots(fromNode[n], Message("status", c))
      BY <1>2, <3>4
    <3> QED BY <2>2, <3>1, <3>2, <3>3, <3>4 DEF In, NodePlaces
  <2> QED BY <2>1, <2>2
<1> HIDE DEF at
<1>5. ASSUME NEW p \in Places(c) PROVE \E pl, n, i : p = <<pl, n, i>> /\ In(c, pl, n, i)
  <2>1. CASE p \in inQueue("toDispatcher", Nothing, toDispatcher, Message("command", c))
    <3>1. PICK i \in Spots(toDispatcher, Message("command", c)) : p = <<"toDispatcher", Nothing, i>>
      BY <1>2, <2>1
    <3> QED BY <3>1 DEF In
  <2>2. CASE p \in inSet("queue", Nothing, queue)
    <3>1. p = <<"queue", Nothing, 0>> /\ c \in queue
      BY <1>3, <2>2
    <3> QED BY <3>1 DEF In
  <2>3. CASE \E n \in Node : p \in at(n)
    BY <1>4, <2>3
  <2>4. CASE p \in inQueue("toBuilder", Nothing, toBuilder, Message("status", c))
    <3>1. PICK i \in Spots(toBuilder, Message("status", c)) : p = <<"toBuilder", Nothing, i>>
      BY <1>2, <2>4
    <3> QED BY <3>1 DEF In
  <2>5. CASE p \in inSet("lost", Nothing, lost)
    <3>1. p = <<"lost", Nothing, 0>> /\ c \in lost
      BY <1>3, <2>5
    <3> QED BY <3>1 DEF In
  <2> QED BY <1>1, <1>5, <2>1, <2>2, <2>3, <2>4, <2>5
<1>6. ASSUME NEW pl, NEW n, NEW i, In(c, pl, n, i) PROVE <<pl, n, i>> \in Places(c)
  <2>1. CASE pl = "toDispatcher" /\ n = Nothing /\ i \in Spots(toDispatcher, Message("command", c))
    <3>1. <<pl, n, i>> \in inQueue("toDispatcher", Nothing, toDispatcher, Message("command", c))
      BY <1>2, <2>1
    <3> QED BY <1>1, <3>1
  <2>2. CASE pl = "queue" /\ n = Nothing /\ i = 0 /\ c \in queue
    <3>1. <<pl, n, i>> \in inSet("queue", Nothing, queue)
      BY <1>3, <2>2
    <3> QED BY <1>1, <3>1
  <2>3. CASE pl \in NodePlaces /\ n \in Node
    <3>1. <<pl, n, i>> \in at(n)
      BY <1>4, <1>6, <2>3
    <3> QED BY <1>1, <2>3, <3>1
  <2>4. CASE pl = "toBuilder" /\ n = Nothing /\ i \in Spots(toBuilder, Message("status", c))
    <3>1. <<pl, n, i>> \in inQueue("toBuilder", Nothing, toBuilder, Message("status", c))
      BY <1>2, <2>4
    <3> QED BY <1>1, <3>1
  <2>5. CASE pl = "lost" /\ n = Nothing /\ i = 0 /\ c \in lost
    <3>1. <<pl, n, i>> \in inSet("lost", Nothing, lost)
      BY <1>3, <2>5
    <3> QED BY <1>1, <3>1
  <2> QED BY <1>6, <2>1, <2>2, <2>3, <2>4, <2>5 DEF In, NodePlaces
<1> QED BY <1>5, <1>6

\* What is anywhere was sent by the builder.
LEMMA PlacedIsSent ==
    ASSUME SystemInv, NEW c, NEW p, NEW n, NEW i, In(c, p, n, i)
    PROVE  c \in sent
<1>1. /\ \A k \in Node : /\ toNode[k] \in Seq(ToNode(k)) /\ fromNode[k] \in Seq(FromNode(k))
                         /\ waiting[k] \in Seq(WorkOf(received))
                         /\ running[k] \in Seq(WorkOf(received))
      /\ toDispatcher \in Seq(ToDispatcher) /\ toBuilder \in Seq(ToBuilder)
      /\ queue \subseteq received /\ received \subseteq sent /\ lost \subseteq WorkOf(sent)
  BY DEF SystemInv, Channels, Workers, Books, IInv, QueueInv, TypeOK
<1>2. ASSUME NEW S, NEW q \in Seq(S), NEW x, NEW j \in Spots(q, x) PROVE x \in S
  BY ElementOfSeq, LenProperties DEF Spots
<1>3. CASE p = "toDispatcher" /\ i \in Spots(toDispatcher, Message("command", c))
  <2>1. Message("command", c) \in ToDispatcher
    BY <1>1, <1>2, <1>3
  <2> QED BY <2>1 DEF ToDispatcher, Message
<1>4. CASE n \in Node /\ i \in Spots(toNode[n], Message("command", c))
  <2>1. Message("command", c) \in ToNode(n)
    BY <1>1, <1>2, <1>4
  <2> QED BY <1>1, <2>1 DEF ToNode, Message
<1>5. CASE n \in Node /\ i \in Spots(waiting[n], c) \cup Spots(running[n], c)
  <2>1. c \in WorkOf(received)
    BY <1>1, <1>2, <1>5
  <2> QED BY <1>1, <2>1 DEF WorkOf
<1>6. CASE n \in Node /\ i \in Spots(fromNode[n], Message("status", c))
  <2>1. Message("status", c) \in FromNode(n)
    BY <1>1, <1>2, <1>6
  <2> QED BY <1>1, <2>1 DEF FromNode, Message
<1>7. CASE i \in Spots(toBuilder, Message("status", c))
  <2>1. Message("status", c) \in ToBuilder
    BY <1>1, <1>2, <1>7
  <2> QED BY <2>1 DEF ToBuilder, Message
<1>8. CASE c \in queue \cup lost
  BY <1>1, <1>8 DEF WorkOf
<1> QED BY <1>3, <1>4, <1>5, <1>6, <1>7, <1>8 DEF In

Somewhere(c) ==
    \/ c \in Carried(toDispatcher, "command") \cup queue \cup Carried(toBuilder, "status") \cup lost
    \/ \E n \in Node : c \in Held(n)

LEMMA CarriedSpots ==
    ASSUME NEW S, NEW q \in Seq(S), NEW kind, NEW c,
           \A m \in S : m = Message(m.kind, m.content)
    PROVE  c \in Carried(q, kind) <=> \E i : i \in Spots(q, Message(kind, c))
<1>1. \A i \in DOMAIN q : q[i] = Message(q[i].kind, q[i].content)
  BY ElementOfSeq, LenProperties
<1>2. Message(kind, c).kind = kind /\ Message(kind, c).content = c
  BY DEF Message
<1> QED BY <1>1, <1>2 DEF Carried, Spots

\* A command has a place exactly when it is somewhere.
LEMMA SomewhereIsPlaced ==
    ASSUME SystemInv, NEW c
    PROVE  /\ Places(c) # {} <=> Somewhere(c)
           /\ Somewhere(c) <=> \E pl, n, i : In(c, pl, n, i)
           /\ \A n \in Node : c \in Held(n) <=> \E pl \in NodePlaces : \E i : In(c, pl, n, i)
           /\ c \in Carried(toDispatcher, "command") <=>
                 \E i : i \in Spots(toDispatcher, Message("command", c))
<1>1. /\ \A k \in Node : toNode[k] \in Seq(ToNode(k)) /\ fromNode[k] \in Seq(FromNode(k))
      /\ toDispatcher \in Seq(ToDispatcher) /\ toBuilder \in Seq(ToBuilder)
  BY DEF SystemInv, Channels
<1>2. /\ \A m \in ToDispatcher : m = Message(m.kind, m.content)
      /\ \A m \in ToBuilder : m = Message(m.kind, m.content)
      /\ \A n \in Node : /\ \A m \in ToNode(n) : m = Message(m.kind, m.content)
                         /\ \A m \in FromNode(n) : m = Message(m.kind, m.content)
  BY DEF ToDispatcher, ToBuilder, ToNode, FromNode, Message
<1>3. /\ c \in Carried(toDispatcher, "command") <=> \E i : i \in Spots(toDispatcher, Message("command", c))
      /\ c \in Carried(toBuilder, "status") <=> \E i : i \in Spots(toBuilder, Message("status", c))
  BY <1>1, <1>2, CarriedSpots
<1>4. ASSUME NEW n \in Node
      PROVE  c \in Held(n) <=> \E pl \in NodePlaces : \E i : In(c, pl, n, i)
  <2>1. /\ c \in Carried(toNode[n], "command") <=> \E i : i \in Spots(toNode[n], Message("command", c))
        /\ c \in Carried(fromNode[n], "status") <=> \E i : i \in Spots(fromNode[n], Message("status", c))
    BY <1>1, <1>2, CarriedSpots
  <2>2. /\ c \in Queued(n) <=> \E i : i \in Spots(waiting[n], c)
        /\ c \in Running(n) <=> \E i : i \in Spots(running[n], c)
    BY DEF Queued, Running, ToSet, Spots
  <2>3. (\E pl \in NodePlaces : \E i : In(c, pl, n, i)) <=>
           \/ \E i : i \in Spots(toNode[n], Message("command", c))
           \/ \E i : i \in Spots(waiting[n], c)
           \/ \E i : i \in Spots(running[n], c)
           \/ \E i : i \in Spots(fromNode[n], Message("status", c))
    BY DEF In, NodePlaces
  <2> QED BY <2>1, <2>2, <2>3 DEF Held, InTransit
<1>5. (\E pl, n, i : In(c, pl, n, i)) <=>
         \/ \E i : i \in Spots(toDispatcher, Message("command", c))
         \/ c \in queue \cup lost
         \/ \E i : i \in Spots(toBuilder, Message("status", c))
         \/ \E n \in Node : \E pl \in NodePlaces : \E i : In(c, pl, n, i)
  BY DEF In, NodePlaces
<1>6. Places(c) # {} <=> \E pl, n, i : In(c, pl, n, i)
  BY PlacesAre
<1> QED BY <1>3, <1>4, <1>5, <1>6 DEF Somewhere

\* A command the builder has just made is in its message and nowhere else.
LEMMA OnceByRequest ==
    ASSUME SystemInv, NEW k \in Class, Request(k), NEW c \in sent' \ sent
    PROVE  Once(c)'
<1>1. ~\E p, n, i : In(c, p, n, i)
  BY PlacedIsSent
<1>2. toDispatcher \in Seq(ToDispatcher)
  BY DEF SystemInv, Channels
<1>3. /\ toDispatcher' = Append(toDispatcher, Message("command", c))
      /\ UNCHANGED <<queue, toBuilder, toNode, fromNode, waiting, running, lost>>
  BY DEF Request, vars, nodeVars, workerVars, lossVars
<1>4. \A i \in Spots(toDispatcher', Message("command", c)) :
         i \in Spots(toDispatcher, Message("command", c)) \/ i = Len(toDispatcher) + 1
  BY <1>2, <1>3, SpotsAppend
<1>5. ASSUME NEW p, NEW n, NEW i, In(c, p, n, i)'
      PROVE  p = "toDispatcher" /\ n = Nothing /\ i = Len(toDispatcher) + 1
  <2>1. In(c, p, n, i) \/ (p = "toDispatcher" /\ n = Nothing
                             /\ i \in Spots(toDispatcher', Message("command", c)))
    BY <1>3, <1>5 DEF In
  <2>2. i \notin Spots(toDispatcher, Message("command", c)) \/ p # "toDispatcher" \/ n # Nothing
    BY <1>1 DEF In
  <2> QED BY <1>1, <1>4, <2>1, <2>2
<1>6. \A p, n, i : In(c, p, n, i)' =>
         p = "toDispatcher" /\ n = Nothing /\ i = Len(toDispatcher) + 1
  BY <1>5
<1> QED BY <1>6 DEF Once

\* Only the builder makes commands: a request makes one, of work.
LEMMA SentBySystem ==
    ASSUME SystemInv, SystemNext
    PROVE  /\ sent \subseteq sent'
           /\ WorkOf(sent') = WorkOf(sent) \/ \E k \in Class : Request(k)
<1>1. CASE Builder
  <2>1. ASSUME StopAllCommands PROVE sent \subseteq sent' /\ WorkOf(sent') = WorkOf(sent)
    BY <2>1, StopsSent DEF SystemInv
  <2>2. CASE \E k \in Class : Request(k)
    BY <2>2 DEF Request
  <2>3. CASE Subscribe \/ BuilderExits
    BY <2>3 DEF Subscribe, BuilderExits
  <2>4. CASE BuilderRaises \/ Signalled
    BY <2>1, <2>4 DEF BuilderRaises, Signalled
  <2>5. CASE BuilderHears
    BY <2>1, <2>5 DEF BuilderHears, BuilderNotes
  <2> QED BY <1>1, <2>2, <2>3, <2>4, <2>5 DEF Builder
<1>2. CASE \E n \in Node : BusHearsNode(n)
  BY <1>2, HeldByBus
<1>3. CASE \E s \in Session : BusClosesSession(s)
  BY <1>3 DEF BusClosesSession, builderVars
<1>4. CASE Dispatch
  BY <1>4, DispatchSends
<1>5. CASE \E n \in Node : NodeStep(n)
  BY <1>5, NodeRow
<1>6. CASE \E n \in Node : Loss(n)
  BY <1>6, HeldByLoss
<1> QED BY <1>1, <1>2, <1>3, <1>4, <1>5, <1>6 DEF SystemNext

\* A command that was sent twice is on one node only, and goes to no other.
Apart(c) ==
    /\ c \notin queue \cup Carried(toDispatcher, "command")
    /\ \A n, k \in Node : c \in Held(n) /\ c \in Held(k) => n = k

Single(c) == IF c \in doubled THEN Apart(c) ELSE Once(c)
AllSingle == \A c \in Instantiable(sent) : Single(c)

\* When it is sent, it was in the dispatcher's hands and nowhere else.
LEMMA ApartBySending ==
    ASSUME SystemInv, Dispatch, NEW c \in Assigned, ~IsStop(c), Once(c)
    PROVE  Apart(c)'
<1> DEFINE m == Head(toDispatcher)
           cmd == Message("command", c)
<1>1. /\ toDispatcher \in Seq(ToDispatcher) /\ toDispatcher # <<>>
      /\ toDispatcher' = Tail(toDispatcher)
  BY DispatchSends DEF SystemInv, Channels
<1>2. /\ Outcome(m) /\ c \notin queue'
  BY DispatchOutcome DEF SystemInv
<1>3. /\ c \in queue \cup Read
  BY <1>2 DEF Outcome, WorkOf
<1>4. \A x \in ToDispatcher : x = Message(x.kind, x.content)
  BY DEF ToDispatcher, Message
<1>5. PICK p \in {"queue", "toDispatcher"}, i \in Nat : In(c, p, Nothing, i) /\ (p = "toDispatcher" => i = 1)
  <2>1. CASE c \in queue
    BY <2>1 DEF In
  <2>2. CASE c \in Read
    <3>1. m.kind = "command" /\ m.content = c /\ m \in ToDispatcher
      BY <1>1, <1>2, <2>2, HeadTailProperties DEF Outcome, Read
    <3>2. Head(toDispatcher) = cmd
      BY <1>4, <3>1
    <3>3. 1 \in Spots(toDispatcher, cmd)
      BY <1>1, <3>2, SpotsOf
    <3> QED BY <3>3 DEF In
  <2> QED BY <1>3, <2>1, <2>2
<1> HIDE DEF m, cmd
<1>6. /\ \A k \in Spots(toDispatcher, cmd) : k = 1
      /\ \A n \in Node : /\ \A k \in Spots(toNode[n], cmd) : FALSE
                         /\ \A k \in Spots(waiting[n], c) : FALSE
                         /\ \A k \in Spots(running[n], c) : FALSE
                         /\ \A k \in Spots(fromNode[n], Message("status", c)) : FALSE
  BY <1>5, Elsewhere DEF cmd
<1>7. \A n \in Node : c \notin Held(n)
  <2>1. \A n \in Node : \A pl \in NodePlaces : \A k : ~In(c, pl, n, k)
    BY <1>6 DEF In, NodePlaces, cmd
  <2> QED BY <2>1, SomewhereIsPlaced
<1>8. c \notin Carried(toDispatcher', "command")
  <2>1. Tail(toDispatcher) \in Seq(ToDispatcher)
    BY <1>1, HeadTailProperties
  <2>2. \A k \in Spots(Tail(toDispatcher), cmd) : FALSE
    <3> SUFFICES ASSUME NEW k \in Spots(Tail(toDispatcher), cmd) PROVE FALSE
      OBVIOUS
    <3>1. k \in Nat \ {0} /\ k + 1 \in Spots(toDispatcher, cmd)
      BY <1>1, SpotsTail
    <3>2. k + 1 = 1
      BY <1>6, <3>1
    <3> QED BY <3>1, <3>2
  <2>3. c \notin Carried(Tail(toDispatcher), "command")
    BY <1>4, <2>1, <2>2, CarriedSpots DEF cmd
  <2> QED BY <1>1, <2>3
<1>9. \A n \in Node : c \in Held(n)' => c \in SentTo(n)
  BY <1>7, HeldByDispatch
<1>10. \A n, k \in Node : c \in Held(n)' /\ c \in Held(k)' => n = k
  BY <1>9, OneGets
<1> QED BY <1>2, <1>8, <1>10 DEF Apart

LEMMA ApartStep ==
    ASSUME SystemInv, [SystemNext]_systemVars, NEW c \in WorkOf(sent), Apart(c)
    PROVE  Apart(c)'
<1>1. ~IsStop(c) /\ c \in sent
  BY DEF WorkOf
<1>2. ASSUME queue' = queue, c \in Carried(toDispatcher, "command")' => c \in Carried(toDispatcher, "command"),
             \A n \in Node : c \in Held(n)' => c \in Held(n)
      PROVE  Apart(c)'
  BY <1>2 DEF Apart
<1>3. CASE Builder \/ \E s \in Session : BusClosesSession(s)
  <2>1. /\ queue' = queue /\ \A n \in Node : Held(n)' = Held(n)
    BY <1>3, HeldByOthers
  <2>2. Later(toDispatcher', toDispatcher, Message("command", c))
    BY <1>1, <1>3, MovedByOthers
  <2>3. c \in Carried(toDispatcher, "command")' => c \in Carried(toDispatcher, "command")
    <3>1. c \in Carried(toDispatcher, "command")' => \E i : i \in Spots(toDispatcher', Message("command", c))
      <4>1. toDispatcher' \in Seq(ToDispatcher')
        BY SystemNextTypes DEF SystemInv, Channels
      <4>2. \A x \in ToDispatcher' : x = Message(x.kind, x.content)
        BY DEF ToDispatcher, Message
      <4> QED BY <4>1, <4>2, CarriedSpots
    <3>2. (\E i : i \in Spots(toDispatcher, Message("command", c))) => c \in Carried(toDispatcher, "command")
      BY SomewhereIsPlaced
    <3> QED BY <2>2, <3>1, <3>2 DEF Later
  <2> QED BY <1>2, <2>1, <2>3
<1>4. CASE \E n \in Node : BusHearsNode(n)
  <2>1. PICK n \in Node : BusHearsNode(n)
    BY <1>4
  <2>2. /\ UNCHANGED vars /\ Carried(toDispatcher, "command")' = Carried(toDispatcher, "command")
        /\ \A k \in Node \ {n} : Held(k)' = Held(k)
        /\ Held(n)' \subseteq Held(n)
    BY <2>1, HeldByBus
  <2> QED BY <1>2, <2>2 DEF vars
<1>5. CASE \E n \in Node : NodeStep(n)
  <2>1. PICK n \in Node : NodeStep(n)
    BY <1>5
  <2>2. UNCHANGED <<vars, toDispatcher>>
    BY <2>1, NodeRow
  <2>3. \A k \in Node : c \in Held(k)' => c \in Held(k)
    BY <1>1, <2>1, HeldByNode DEF WorkOf
  <2> QED BY <1>2, <2>2, <2>3 DEF vars
<1>6. CASE \E n \in Node : Loss(n)
  <2>1. PICK n \in Node : Loss(n)
    BY <1>6
  <2>2. UNCHANGED <<vars, toDispatcher>> /\ \A k \in Node : Held(k)' \subseteq Held(k)
    BY <2>1, HeldByLoss
  <2> QED BY <1>2, <2>2 DEF vars
<1>7. CASE Dispatch
  <2> DEFINE m == Head(toDispatcher)
  <2>1. /\ toDispatcher \in Seq(ToDispatcher) /\ toDispatcher # <<>> /\ toDispatcher' = Tail(toDispatcher)
    BY <1>7, DispatchSends DEF SystemInv, Channels
  <2>2. Outcome(m)
    BY <1>7, DispatchOutcome DEF SystemInv
  <2>3. /\ Carried(Tail(toDispatcher), "command") \subseteq Carried(toDispatcher, "command")
        /\ m.kind = "command" => m.content \in Carried(toDispatcher, "command")
    BY <2>1, CarriedLaws
  <2> HIDE DEF m
  <2>4. c \notin queue /\ c \notin Read
    BY <2>2, <2>3 DEF Apart, Outcome, Read
  <2>5. c \notin queue' /\ c \notin Assigned
    BY <1>1, <2>2, <2>4 DEF Outcome, WorkOf
  <2>6. \A n \in Node : c \in Held(n)' => c \in Held(n)
    BY <1>7, <2>5, HeldByDispatch
  <2>7. c \notin Carried(toDispatcher', "command")
    BY <2>1, <2>3 DEF Apart
  <2> QED BY <2>5, <2>6, <2>7 DEF Apart
<1>8. CASE UNCHANGED systemVars
  <2>1. UNCHANGED <<queue, toDispatcher, toNode, fromNode, waiting, running>>
    BY <1>8 DEF systemVars, vars, netVars, nodeVars, workerVars
  <2> QED BY <1>2, <2>1 DEF Held, InTransit, Queued, Running
<1> QED BY <1>3, <1>4, <1>5, <1>6, <1>7, <1>8 DEF SystemNext

\* Only the dispatcher sends anything twice, and nothing makes that undone.
LEMMA DoubledGrows ==
    ASSUME SystemInv, [SystemNext]_systemVars
    PROVE  doubled \subseteq doubled' /\ (doubled' = doubled \/ (Dispatch /\ doubled' \subseteq doubled \cup Assigned))
<1>1. CASE Dispatch
  BY <1>1, DispatchSends
<1>2. CASE Builder \/ \E s \in Session : BusClosesSession(s)
  BY <1>2, HeldByOthers
<1>3. CASE \E n \in Node : BusHearsNode(n)
  BY <1>3, HeldByBus
<1>4. CASE \E n \in Node : NodeStep(n)
  BY <1>4, NodeRow
<1>5. CASE \E n \in Node : Loss(n)
  BY <1>5, HeldByLoss
<1>6. CASE UNCHANGED systemVars
  BY <1>6 DEF systemVars, lossVars
<1> QED BY <1>1, <1>2, <1>3, <1>4, <1>5, <1>6 DEF SystemNext

LEMMA SingleStep ==
    ASSUME SystemInv, AllSingle, [SystemNext]_systemVars
    PROVE  AllSingle'
<1>1. SUFFICES ASSUME NEW c \in Instantiable(sent') PROVE Single(c)'
  BY DEF AllSingle
<1>2. c \in WorkOf(sent') /\ ~IsStop(c) /\ c.class \notin Uninstantiable
  BY DEF Instantiable, WorkOf
<1>3. c \in sent => c \in Instantiable(sent) /\ c \in WorkOf(sent)
  BY <1>2 DEF Instantiable, WorkOf
<1>4. doubled \subseteq doubled' /\ (doubled' = doubled \/ (Dispatch /\ doubled' \subseteq doubled \cup Assigned))
  BY DoubledGrows
<1>5. CASE c \notin sent
  <2>1. SystemNext
    BY <1>2, <1>5 DEF systemVars, builderVars, WorkOf
  <2>2. PICK k \in Class : Request(k)
    BY <1>2, <1>5, <2>1, SentBySystem DEF WorkOf
  <2>3. c \notin doubled'
    <3>1. doubled \subseteq sent
      BY DEF SystemInv, Books
    <3>2. doubled' = doubled
      BY <2>2 DEF Request, lossVars
    <3> QED BY <1>5, <3>1, <3>2
  <2>4. Once(c)'
    BY <1>2, <1>5, <2>2, OnceByRequest DEF WorkOf
  <2> QED BY <2>3, <2>4 DEF Single
<1>6. CASE c \in doubled /\ c \in sent
  <2>1. Apart(c)
    BY <1>3, <1>6 DEF AllSingle, Single
  <2>2. Apart(c)'
    BY <1>3, <1>6, <2>1, ApartStep
  <2> QED BY <1>4, <1>6, <2>2 DEF Single
<1>7. CASE c \notin doubled /\ c \in doubled' /\ c \in sent
  <2>1. Once(c) /\ Dispatch /\ c \in Assigned
    BY <1>3, <1>4, <1>7 DEF AllSingle, Single
  <2>2. Apart(c)'
    BY <1>2, <2>1, ApartBySending
  <2> QED BY <1>7, <2>2 DEF Single
<1>8. CASE c \notin doubled' /\ c \in sent
  <2>1. Once(c)
    BY <1>3, <1>4, <1>8 DEF AllSingle, Single
  <2>2. CASE Builder \/ \E s \in Session : BusClosesSession(s)
    BY <1>2, <1>8, <2>1, <2>2, OnceByOthers DEF Single
  <2>3. CASE \E n \in Node : BusHearsNode(n)
    BY <1>2, <1>8, <2>1, <2>3, OnceByBus DEF Single
  <2>4. CASE Dispatch
    BY <1>2, <1>8, <2>1, <2>4, OnceByDispatch DEF Single
  <2>5. CASE \E n \in Node : NodeStep(n)
    BY <1>2, <1>8, <2>1, <2>5, OnceByNode DEF Single
  <2>6. CASE \E n \in Node : Loss(n)
    BY <1>2, <1>8, <2>1, <2>6, OnceByLoss DEF Single
  <2>7. CASE UNCHANGED systemVars
    <3>1. UNCHANGED <<toDispatcher, queue, toBuilder, lost, toNode, fromNode, waiting, running>>
      BY <2>7 DEF systemVars, vars, netVars, nodeVars, workerVars, lossVars
    <3>2. \A p, n, i : In(c, p, n, i)' => In(c, p, n, i)
      BY <3>1 DEF In
    <3> QED BY <1>8, <2>1, <3>2 DEF Once, Single
  <2> QED BY <2>2, <2>3, <2>4, <2>5, <2>6, <2>7 DEF SystemNext
<1> QED BY <1>5, <1>6, <1>7, <1>8

\* No command is in two places, whatever connections break, nodes die and messages
\* cross: none is sent to two nodes, run twice or answered twice.  Only one that goes
\* to a node that had subscribed twice is, and that too is on one node.
THEOREM CommandsExistOnce == SystemSpec => []ExistsOnce
<1>1. SystemInit => AllSingle
  BY DEF SystemInit, AllSingle, Instantiable, WorkOf
<1>2. SystemInv /\ AllSingle /\ [SystemNext]_systemVars => AllSingle'
  BY SingleStep
<1>3. SystemInv /\ AllSingle => ExistsOnce
  <2> SUFFICES ASSUME SystemInv, AllSingle, NEW c \in Instantiable(sent),
                      NEW p \in Places(c), NEW r \in Places(c)
               PROVE  p = r \/ (c \in doubled /\ ({p[2], r[2]} \subseteq Node => p[2] = r[2]))
    BY DEF ExistsOnce
  <2>1. PICK pl, n, i : p = <<pl, n, i>> /\ In(c, pl, n, i)
    BY PlacesAre
  <2>2. PICK ql, k, j : r = <<ql, k, j>> /\ In(c, ql, k, j)
    BY PlacesAre
  <2>3. CASE c \notin doubled
    BY <2>1, <2>2, <2>3 DEF AllSingle, Single, Once
  <2>4. CASE c \in doubled
    <3>1. Apart(c)
      BY <2>4 DEF AllSingle, Single
    <3>2. ASSUME n \in Node, k \in Node PROVE n = k
      <4>1. pl \in NodePlaces /\ ql \in NodePlaces
        BY <2>1, <2>2, <3>2, MultinodeAssumption DEF In, NodePlaces
      <4>2. c \in Held(n) /\ c \in Held(k)
        BY <2>1, <2>2, <3>2, <4>1, SomewhereIsPlaced
      <4> QED BY <3>1, <3>2, <4>2 DEF Apart
    <3> QED BY <2>1, <2>2, <2>4, <3>2
  <2> QED BY <2>3, <2>4
<1> QED BY <1>1, <1>2, <1>3, SystemInvariance, PTL DEF SystemSpec

-----------------------------------------------------------------------------
(* The commands the builder waits for.                                     *)

Expected == table \cup ({asking} \ {Nothing})

\* While the builder runs, what it waits for is what is somewhere, and what is
\* somewhere is what it waits for, or was sent twice.
Balanced ==
    builder = "running" => \A c \in Instantiable(sent) :
        /\ c \in Expected => Somewhere(c)
        /\ Somewhere(c) => c \in Expected \cup doubled

LEMMA BalancedByBuilder ==
    ASSUME SystemInv, AllSingle, Balanced, Builder, builder' = "running"
    PROVE  Balanced'
<1>1. /\ toDispatcher \in Seq(ToDispatcher) /\ toBuilder \in Seq(ToBuilder)
      /\ builder = "running" => sent = WorkOf(sent)
  BY DEF SystemInv, Channels, Numbers
<1>2. UNCHANGED <<queue, lost, doubled>> /\ \A n \in Node : Held(n)' = Held(n)
  BY HeldByOthers
<1>3. CASE \E k \in Class : Request(k)
  <2>1. PICK k \in Class : Request(k)
    BY <1>3
  <2> DEFINE d == [id |-> Cardinality(sent) + 1, class |-> k, target |-> NoTarget]
  <2>2. /\ builder = "running" /\ asking = Nothing /\ asking' = d /\ sent' = sent \cup {d}
        /\ toDispatcher' = Append(toDispatcher, Message("command", d))
        /\ UNCHANGED <<table, toBuilder>>
    BY <2>1 DEF Request
  <2>3. d # Nothing /\ d \notin sent
    <3>1. Cardinality(sent) \in Nat
      BY FS_CardinalityType DEF SystemInv, Numbers
    <3>2. d \in Command /\ d.id = Cardinality(sent) + 1
      BY <3>1 DEF Command, NoTarget
    <3> HIDE DEF d
    <3> QED BY <3>2, Fresh, MultinodeAssumption DEF SystemInv
  <2> HIDE DEF d
  <2>4. Carried(toDispatcher', "command") = Carried(toDispatcher, "command") \cup {d}
    <3>1. Message("command", d).kind = "command" /\ Message("command", d).content = d
      BY DEF Message
    <3>2. /\ Carried(toDispatcher, "command") \subseteq Carried(Append(toDispatcher, Message("command", d)), "command")
          /\ Carried(Append(toDispatcher, Message("command", d)), "command")
               \subseteq Carried(toDispatcher, "command") \cup {Message("command", d).content}
          /\ Message("command", d).content \in Carried(Append(toDispatcher, Message("command", d)), "command")
      BY <1>1, <3>1, CarriedLaws
    <3> QED BY <2>2, <3>1, <3>2
  <2>5. Expected' = Expected \cup {d}
    BY <2>2, <2>3 DEF Expected
  <2>6. \A c : Somewhere(c)' <=> Somewhere(c) \/ c = d
    BY <1>2, <2>2, <2>4 DEF Somewhere
  <2>7. \A c \in Instantiable(sent') : c = d \/ c \in Instantiable(sent)
    BY <2>2 DEF Instantiable, WorkOf
  <2> QED BY <1>2, <2>2, <2>5, <2>6, <2>7 DEF Balanced
<1>4. CASE Subscribe
  <2>1. /\ asking # Nothing /\ asking' = Nothing /\ table' = table \cup {asking}
        /\ UNCHANGED <<builder, sent, toDispatcher, toBuilder>>
    BY <1>4 DEF Subscribe
  <2>2. Expected' = Expected
    BY <2>1 DEF Expected
  <2>3. \A c : Somewhere(c)' <=> Somewhere(c)
    BY <1>2, <2>1 DEF Somewhere
  <2> QED BY <1>2, <2>1, <2>2, <2>3 DEF Balanced
<1>5. CASE BuilderHears
  <2>1. toBuilder # <<>> /\ asking = Nothing /\ BuilderNotes(Head(toBuilder).content)
    BY <1>5 DEF BuilderHears
  <2>2. Head(toBuilder) \in ToBuilder
    BY <1>1, <2>1, HeadTailProperties
  <2>3. PICK d : Head(toBuilder).content = d
    OBVIOUS
  <2>4. Head(toBuilder) = Message("status", d)
    BY <2>2, <2>3 DEF ToBuilder, Message
  <2>5. /\ d \in table /\ table' = table \ {d} /\ toBuilder' = Tail(toBuilder)
        /\ UNCHANGED <<builder, asking, sent, toDispatcher>>
    BY <2>1, <2>3 DEF BuilderNotes, Exit
  <2>6. \A c : c # d => (c \in Carried(toBuilder', "status") <=> c \in Carried(toBuilder, "status"))
    <3>1. /\ Carried(Tail(toBuilder), "status") \subseteq Carried(toBuilder, "status")
          /\ Carried(toBuilder, "status") \subseteq Carried(Tail(toBuilder), "status") \cup {d}
      BY <1>1, <2>1, <2>3, CarriedLaws
    <3> QED BY <2>5, <3>1
  <2>7. ASSUME NEW c \in Instantiable(sent), c # d
        PROVE  /\ c \in Expected' => Somewhere(c)'
               /\ Somewhere(c)' => c \in Expected' \cup doubled'
    <3>1. Somewhere(c)' <=> Somewhere(c)
      BY <1>2, <2>5, <2>6, <2>7 DEF Somewhere
    <3>2. c \in Expected' <=> c \in Expected
      BY <2>5, <2>7 DEF Expected
    <3> QED BY <1>1, <1>2, <2>5, <2>7, <3>1, <3>2 DEF Balanced
  <2>8. ASSUME d \in Instantiable(sent), d \notin doubled PROVE ~Somewhere(d)'
    <3>1. 1 \in Spots(toBuilder, Message("status", d))
      BY <1>1, <2>1, <2>4, SpotsOf
    <3>2. Once(d) /\ In(d, "toBuilder", Nothing, 1)
      BY <2>8, <3>1 DEF AllSingle, Single, In
    <3>3. /\ \A k \in Spots(toDispatcher, Message("command", d)) : FALSE
          /\ d \notin queue /\ d \notin lost
          /\ \A k \in Spots(toBuilder, Message("status", d)) : k = 1
      BY <3>2, Elsewhere
    <3>4. \A pl, n, i : In(d, pl, n, i) => pl = "toBuilder"
      BY <3>2 DEF Once
    <3>5. d \notin Carried(toDispatcher, "command") /\ \A n \in Node : d \notin Held(n)
      BY <3>3, <3>4, SomewhereIsPlaced DEF NodePlaces
    <3>6. d \notin Carried(toBuilder', "status")
      <4>1. \A m \in ToBuilder : m = Message(m.kind, m.content)
        BY DEF ToBuilder, Message
      <4>2. Tail(toBuilder) \in Seq(ToBuilder)
        BY <1>1, <2>1, HeadTailProperties
      <4>3. \A k \in Spots(Tail(toBuilder), Message("status", d)) : FALSE
        <5> SUFFICES ASSUME NEW k \in Spots(Tail(toBuilder), Message("status", d)) PROVE FALSE
          OBVIOUS
        <5>1. k \in Nat \ {0} /\ k + 1 \in Spots(toBuilder, Message("status", d))
          BY <1>1, <2>1, SpotsTail
        <5>2. k + 1 = 1
          BY <3>3, <5>1
        <5> QED BY <5>1, <5>2
      <4>4. d \notin Carried(Tail(toBuilder), "status")
        BY <4>1, <4>2, <4>3, CarriedSpots
      <4> QED BY <2>5, <4>4
    <3> QED BY <1>2, <2>5, <3>3, <3>5, <3>6 DEF Somewhere
  <2>9. d \notin Expected'
    BY <2>1, <2>5 DEF Expected
  <2>10. Instantiable(sent)' = Instantiable(sent)
    BY <2>5 DEF Instantiable
  <2> QED BY <1>2, <2>7, <2>8, <2>9, <2>10 DEF Balanced
<1>6. CASE BuilderRaises \/ Signalled \/ BuilderExits
  BY <1>6 DEF BuilderRaises, Signalled, BuilderExits, Exit
<1> QED BY <1>3, <1>4, <1>5, <1>6 DEF Builder

\* A step that keeps the builder's books keeps the balance if it moves commands
\* only from place to place.
LEMMA BalancedIfMoved ==
    ASSUME SystemInv, Balanced, UNCHANGED <<builder, table, asking, sent>>,
           doubled \subseteq doubled',
           builder = "running" => \A c \in WorkOf(sent) : Somewhere(c)' <=> Somewhere(c)
    PROVE  Balanced'
<1>1. Expected' = Expected /\ Instantiable(sent)' = Instantiable(sent)
  BY DEF Expected, Instantiable
<1>2. Instantiable(sent) \subseteq WorkOf(sent)
  BY DEF Instantiable, WorkOf
<1> QED BY <1>1, <1>2 DEF Balanced

LEMMA BalancedByDispatch ==
    ASSUME SystemInv, Balanced, Dispatch
    PROVE  Balanced'
<1> DEFINE m == Head(toDispatcher)
<1>1. /\ toDispatcher # <<>> /\ toDispatcher' = Tail(toDispatcher)
      /\ UNCHANGED <<builder, table, asking, sent, toBuilder>>
  BY DispatchSends
<1>2. /\ \A n \in Node : Held(n)' = Held(n) \cup SentTo(n)
      /\ WorkOf(Assigned) \subseteq lost' \cup UNION {SentTo(n) : n \in Node}
      /\ lost \subseteq lost' /\ lost' \subseteq lost \cup Assigned
      /\ doubled \subseteq doubled'
      /\ \A n \in Node : SentTo(n) \subseteq Assigned
  BY HeldByDispatch
<1>3. /\ Outcome(m) /\ toDispatcher \in Seq(ToDispatcher)
  BY DispatchOutcome DEF SystemInv, Channels
<1>4. m \in ToDispatcher
  BY <1>1, <1>3, HeadTailProperties
<1>5. /\ Carried(Tail(toDispatcher), "command") \subseteq Carried(toDispatcher, "command")
      /\ Carried(toDispatcher, "command") \subseteq Carried(Tail(toDispatcher), "command") \cup {m.content}
      /\ m.kind # "command" => Carried(toDispatcher, "command") = Carried(Tail(toDispatcher), "command")
      /\ m.kind = "command" => m.content \in Carried(toDispatcher, "command")
  BY <1>1, <1>3, CarriedLaws
<1> HIDE DEF m
<1>6. Read \subseteq Carried(toDispatcher, "command")
  BY <1>3, <1>5 DEF Outcome, Read
<1>7. m.kind = "command" => m.content \in Read
  BY <1>3 DEF Outcome, Read
<1>8. ASSUME builder = "running", NEW c \in WorkOf(sent), Somewhere(c)' PROVE Somewhere(c)
  <2>1. ~IsStop(c)
    BY DEF WorkOf
  <2>2. c \in queue' \cup Assigned => c \in queue \cup Read
    BY <1>3, <2>1 DEF Outcome, WorkOf
  <2>3. c \in queue \cup Read => Somewhere(c)
    BY <1>6 DEF Somewhere
  <2> QED BY <1>1, <1>2, <1>5, <1>8, <2>2, <2>3 DEF Somewhere
<1>9. ASSUME builder = "running", NEW c \in WorkOf(sent), Somewhere(c) PROVE Somewhere(c)'
  <2>1. ~IsStop(c)
    BY DEF WorkOf
  <2>2. m.kind = "command" => ~IsStop(m.content)
    <3>1. sent = WorkOf(sent)
      BY <1>9 DEF SystemInv, Numbers
    <3> QED BY <1>4, <3>1 DEF ToDispatcher, WorkOf
  <2>3. queue \cup Read \subseteq queue' \cup Assigned
    BY <1>3, <2>2 DEF Outcome
  <2>4. c \in Assigned => Somewhere(c)'
    BY <1>2, <2>1 DEF Somewhere, WorkOf
  <2>5. c \in queue \cup Read => Somewhere(c)'
    BY <2>3, <2>4 DEF Somewhere
  <2>6. c \in Carried(toDispatcher, "command") => c \in Read \cup Carried(toDispatcher', "command")
    BY <1>1, <1>5, <1>7
  <2> QED BY <1>1, <1>2, <1>9, <2>5, <2>6 DEF Somewhere
<1> QED BY <1>1, <1>2, <1>8, <1>9, BalancedIfMoved

LEMMA BalancedStep ==
    ASSUME SystemInv, AllSingle, Balanced, [SystemNext]_systemVars
    PROVE  Balanced'
<1>1. CASE Builder
  BY <1>1, BalancedByBuilder DEF Balanced
<1>0. doubled \subseteq doubled'
  BY DoubledGrows
<1>2. CASE Dispatch
  BY <1>2, BalancedByDispatch
<1>3. CASE \E n \in Node : BusHearsNode(n)
  <2>1. PICK n \in Node : BusHearsNode(n)
    BY <1>3
  <2>2. /\ UNCHANGED <<vars, builder, table, asking, sent>>
        /\ \A k \in Node \ {n} : Held(k)' = Held(k)
        /\ lost \subseteq lost'
        /\ Carried(toBuilder, "status") \subseteq Carried(toBuilder, "status")'
        /\ Carried(toDispatcher, "command")' = Carried(toDispatcher, "command")
        /\ \/ /\ Held(n)' = Held(n) /\ lost' = lost
              /\ Carried(toBuilder, "status")' = Carried(toBuilder, "status")
           \/ \E c \in Held(n) :
                 /\ Held(n)' \subseteq Held(n) /\ Held(n) \subseteq Held(n)' \cup {c}
                 /\ ~IsStop(c) => c \in Carried(toBuilder, "status")' \cup lost'
                 /\ Carried(toBuilder, "status")' \subseteq Carried(toBuilder, "status") \cup {c}
                 /\ lost' \subseteq lost \cup {c}
    BY <2>1, HeldByBus
  <2>3. ASSUME NEW c \in WorkOf(sent) PROVE Somewhere(c)' <=> Somewhere(c)
    <3>1. ~IsStop(c) /\ queue' = queue
      BY <2>2 DEF WorkOf, vars
    <3> QED BY <2>2, <3>1 DEF Somewhere
  <2> QED BY <2>2, <2>3, <1>0, BalancedIfMoved
<1>4. CASE \E s \in Session : BusClosesSession(s)
  <2>1. PICK s \in Session : BusClosesSession(s)
    BY <1>4
  <2>2. /\ toDispatcher' = Append(toDispatcher, Message("disconnected", s))
        /\ UNCHANGED <<builder, table, asking, sent, toBuilder, queue, lost>>
    BY <2>1 DEF BusClosesSession, builderVars, lossVars, vars
  <2>3. \A n \in Node : Held(n)' = Held(n)
    BY <1>4, HeldByOthers
  <2>4. Carried(toDispatcher, "command")' = Carried(toDispatcher, "command")
    <3>1. Message("disconnected", s).kind # "command"
      BY DEF Message
    <3> QED BY <2>2, <3>1, CarriedLaws DEF SystemInv, Channels
  <2>5. \A c : Somewhere(c)' <=> Somewhere(c)
    BY <2>2, <2>3, <2>4 DEF Somewhere
  <2> QED BY <2>2, <2>5, <1>0, BalancedIfMoved
<1>5. CASE \E n \in Node : NodeStep(n)
  <2>1. PICK n \in Node : NodeStep(n)
    BY <1>5
  <2>2. UNCHANGED <<builder, table, asking, sent, toBuilder, toDispatcher, queue, lost>>
    BY <2>1, NodeRow DEF vars
  <2>3. \A c \in WorkOf(sent) : \A k \in Node : c \in Held(k)' <=> c \in Held(k)
    BY <2>1, HeldByNode DEF WorkOf
  <2>4. \A c \in WorkOf(sent) : Somewhere(c)' <=> Somewhere(c)
    BY <2>2, <2>3 DEF Somewhere
  <2> QED BY <2>2, <2>4, <1>0, BalancedIfMoved
<1>6. CASE \E n \in Node : Loss(n)
  <2>1. PICK n \in Node : Loss(n)
    BY <1>6
  <2>2. /\ UNCHANGED <<builder, table, asking, sent, toBuilder, toDispatcher, queue>>
        /\ \A k \in Node : Held(k)' \subseteq Held(k) /\ WorkOf(Held(k)) \subseteq Held(k)' \cup lost'
        /\ lost \subseteq lost' /\ lost' \subseteq lost \cup Held(n)
    BY <2>1, HeldByLoss DEF vars
  <2>3. \A c \in WorkOf(sent) : \A k \in Node : c \in Held(k) => c \in Held(k)' \cup lost'
    BY <2>2 DEF WorkOf
  <2>4. \A c \in WorkOf(sent) : Somewhere(c)' <=> Somewhere(c)
    BY <2>2, <2>3 DEF Somewhere
  <2> QED BY <2>2, <2>4, <1>0, BalancedIfMoved
<1>7. CASE UNCHANGED systemVars
  <2>1. UNCHANGED <<builder, table, asking, sent, toBuilder, toDispatcher, queue, lost, toNode,
                    fromNode, waiting, running>>
    BY <1>7 DEF systemVars, vars, builderVars, netVars, nodeVars, workerVars, lossVars
  <2>2. \A c : Somewhere(c)' <=> Somewhere(c)
    BY <2>1 DEF Somewhere, Held, InTransit, Queued, Running
  <2> QED BY <2>1, <2>2, <1>0, BalancedIfMoved
<1> QED BY <1>1, <1>2, <1>3, <1>4, <1>5, <1>6, <1>7 DEF SystemNext

\* While the builder runs, what it waits for is on its way, at a node, on its way
\* back, or lost: nothing is forgotten between two places; and nothing that was
\* answered is still about, unless it had been sent twice.
THEOREM NothingForgotten == SystemSpec => []NoneForgotten
<1>1. SystemInit => AllSingle /\ Balanced
  BY DEF SystemInit, AllSingle, Balanced, Instantiable, WorkOf
<1>2. SystemInv /\ AllSingle /\ Balanced /\ [SystemNext]_systemVars => AllSingle' /\ Balanced'
  BY SingleStep, BalancedStep
<1>3. SystemInv /\ Balanced => NoneForgotten
  <2> DEFINE placed == {c \in Instantiable(sent) : Places(c) # {}}
  <2> SUFFICES ASSUME SystemInv, Balanced, builder = "running"
               PROVE  Instantiable(Expected) \subseteq placed /\ placed \ doubled \subseteq Instantiable(Expected)
    BY DEF NoneForgotten, Expected
  <2>1. \A c : Places(c) # {} <=> Somewhere(c)
    BY SomewhereIsPlaced
  <2>2. Expected \subseteq WorkOf(sent)
    BY DEF SystemInv, Books, Expected
  <2>3. \A c \in Expected : c \in Instantiable(sent) <=> c \in Instantiable(Expected)
    BY <2>2 DEF Instantiable, WorkOf
  <2>4. Instantiable(Expected) \subseteq Expected
    BY DEF Instantiable, WorkOf
  <2> QED BY <2>1, <2>3, <2>4 DEF Balanced
<1> QED BY <1>1, <1>2, <1>3, SystemInvariance, PTL DEF SystemSpec

================================================================================
