------------------------------- MODULE Multinode -------------------------------
(***************************************************************************)
(* A multinode rMake server: the dispatcher (module Dispatcher), the       *)
(* message bus, the worker nodes and the builder process of one job.       *)
(*                                                                         *)
(* The builder sends commands; the dispatcher assigns them to nodes; a     *)
(* node queues them, runs each in a child process and reports its status,  *)
(* which the bus hands to the dispatcher and to the builder.  All messages *)
(* go over the bus, one TCP connection per client: first in, first out     *)
(* between a client and the bus, and nothing is promised beyond that.      *)
(* A message nobody is subscribed to is dropped.                           *)
(*                                                                         *)
(* Nodes may lose their connection and reconnect, or die and be started    *)
(* again.  The dispatcher and the builder run on the bus's own host and    *)
(* keep theirs.  Their messages reach the bus at once: a bus that is slow  *)
(* to read them is a dispatcher or a builder that is slow to send them.    *)
(*                                                                         *)
(* The events that commands publish (TROVE_BUILT and the like) are the     *)
(* subject of DepHandler and are left out here.                            *)
(***************************************************************************)
EXTENDS Dispatcher, SequencesExt

CONSTANTS
    Node,           \* worker node hosts
    NodeOf,         \* NodeOf[s]: the node that the bus gives session s to
    NoSession,      \* no session id yet
    Nothing,        \* no command
    Uninstantiable, \* classes of commands whose constructor raises on the nodes
    Unforkable,     \* classes of commands that may fail to start
    Endings,        \* bound: how the builder may end, of {"raises", "signal", "returns"}
    MaxRequests,    \* bound: commands the builder sends, stop commands apart
    MaxLosses       \* bound: connections lost and nodes that die

ASSUME MultinodeAssumption ==
    /\ NodeOf \in [Session -> Node]
    /\ NoSession \notin Session
    /\ Nothing \notin Command \cup Node
    /\ Uninstantiable \subseteq Class
    /\ Unforkable \subseteq Class
    /\ Endings \subseteq {"raises", "signal", "returns"}
    /\ MaxRequests \in Nat
    /\ MaxLosses \in Nat

VARIABLES
    builder,        \* "running", "stopping" after an exception, "exited"
    table,          \* BuilderNodeClient._commands
    asking,         \* the command sent that is not in the table yet, or Nothing
    sent,           \* history: every command the builder has sent
    toBuilder,      \* messages from the bus to the builder
    statusOf,       \* commands whose status the builder is subscribed to
    toDispatcher,   \* messages from the bus to the dispatcher
    fromNode,       \* messages from each node to the bus
    toNode,         \* messages from the bus to each node
    known,          \* the keys of MessageBus._sessions
    open,           \* those with a connection, which may be dead by now
    link,           \* link[n]: the session of n's present connection
    targets,        \* targets[n][s]: n's subscriptions to the commands of session s
    session,        \* session[n]: the session id that n has been told
    waiting,        \* waiting[n]: Worker._queuedCommands
    due,            \* due[n]: n has read a message and has yet to look at its queue
    running,        \* running[n]: Worker.commands
    stuck,          \* stuck[n]: chroots of ChrootQueue that no running command holds
    stopping,       \* stopping[n]: the stop command n is busy with, or Nothing
    losses,         \* bound: connections lost and nodes that died so far
    lost,           \* history: commands that were dropped, or whose status was
    doubled         \* history: commands sent to a node that had subscribed twice

builderVars == <<builder, table, asking, sent>>
sessionVars == <<known, open, link, targets>>
workerVars == <<waiting, due, running, stuck, stopping>>
nodeVars == <<session, workerVars>>
netVars == <<toBuilder, statusOf, toDispatcher, fromNode, toNode>>
lossVars == <<losses, lost, doubled>>
systemVars == <<vars, builderVars, netVars, sessionVars, nodeVars, lossVars>>

-----------------------------------------------------------------------------
(* Messages.                                                               *)

Message(kind, content) == [kind |-> kind, content |-> content]
NodeInfo(s, ids) == Message("nodeInfo", [session |-> s, ids |-> ids])

\* The commands that q carries, or the statuses of commands.
Carried(q, kind) == {q[i].content : i \in {j \in DOMAIN q : q[j].kind = kind}}

\* The commands in the node's queue, and those it runs.
Queued(n) == ToSet(waiting[n])
Running(n) == ToSet(running[n])

\* Numbered copies of commands in the order of the commands' arrival, but stop
\* commands first.
Before(c, d) == IF IsStop(c) = IsStop(d) THEN c.id < d.id ELSE IsStop(c)
Earlier(x, y) == Before(x[1], y[1]) \/ (x[1] = y[1] /\ x[2] < y[2])
Rank(x, X) == Cardinality({y \in X : Earlier(y, x)}) + 1
ByArrival(X) == [i \in 1 .. Cardinality(X) |-> (CHOOSE x \in X : Rank(x, X) = i)[1]]

Sequence(kind, q) == [i \in DOMAIN q |-> Message(kind, q[i])]

-----------------------------------------------------------------------------
(* The builder: BuilderNodeClient.                                         *)

\* buildTrove, actOnTrove, resolveTrove and loadTroves send the command ...
Request(k) ==
    LET c == [id |-> Cardinality(sent) + 1, class |-> k, target |-> NoTarget]
    IN  /\ builder = "running"
        /\ asking = Nothing
        /\ Cardinality(WorkOf(sent)) < MaxRequests
        /\ asking' = c
        /\ sent' = sent \cup {c}
        /\ toDispatcher' = Append(toDispatcher, Message("command", c))
        /\ UNCHANGED <<vars, builder, table, toBuilder, statusOf, fromNode, toNode,
                       sessionVars, nodeVars, lossVars>>

\* ... subscribe to its status, and then note the command in the table.
Subscribe ==
    /\ asking # Nothing
    /\ asking' = Nothing
    /\ table' = table \cup {asking}
    /\ statusOf' = statusOf \cup {asking}
    /\ UNCHANGED <<vars, builder, sent, toBuilder, toDispatcher, fromNode, toNode,
                   sessionVars, nodeVars, lossVars>>

\* stopAllCommands: a stop command for each command of the table, and a flush.
\* The order of the dictionary does not matter, since the stop commands have
\* nothing in common: this takes the order of the commands.
StopAllCommands ==
    LET of == ByArrival(table \X {1})
        stops == [i \in DOMAIN of |-> [id |-> Cardinality(sent) + i, class |-> of[i].class,
                                       target |-> of[i].id]]
    IN  /\ sent' = sent \cup ToSet(stops)
        /\ toDispatcher' = toDispatcher \o Sequence("command", stops)

\* The session of a builder that has exited is closed: nobody reads its messages.
Exit ==
    /\ builder' = "exited"
    /\ asking' = Nothing
    /\ toBuilder' = <<>>
    /\ statusOf' = {}

\* build() raises: buildAndExit stops all commands before it exits.
BuilderRaises ==
    /\ "raises" \in Endings
    /\ builder = "running"
    /\ asking = Nothing
    /\ builder' = "stopping"
    /\ StopAllCommands
    /\ UNCHANGED <<vars, asking, table, toBuilder, statusOf, fromNode, toNode, sessionVars,
                   nodeVars, lossVars>>

\* SIGTERM, from "rmake stop": at any time, also while a command is being sent
\* or an exception is being handled.
Signalled ==
    /\ "signal" \in Endings
    /\ builder # "exited"
    /\ StopAllCommands
    /\ Exit
    /\ UNCHANGED <<vars, table, fromNode, toNode, sessionVars, nodeVars, lossVars>>

\* The process ends when build() returns, and after stopAllCommands.
BuilderExits ==
    /\ builder = "stopping" \/ (builder = "running" /\ "returns" \in Endings)
    /\ asking = Nothing
    /\ Exit
    /\ UNCHANGED <<vars, table, sent, toDispatcher, fromNode, toNode, sessionVars, nodeVars,
                   lossVars>>

\* Mutant: the status of a command leaves it in the table.
BuilderForgetsStatus(c) ==
    /\ toBuilder' = Tail(toBuilder)
    /\ UNCHANGED <<builder, asking, table, sent, statusOf, toDispatcher>>

\* messageReceived: a command that completed or errored leaves the table.  For
\* one that is not there self._commands[commandId] raises KeyError, before the
\* test that would have ignored the message: build() is over, or the flush.
BuilderNotes(c) ==
    \/ /\ c \in table
       /\ table' = table \ {c}
       /\ toBuilder' = Tail(toBuilder)
       /\ UNCHANGED <<builder, asking, sent, statusOf, toDispatcher>>
    \/ /\ c \notin table
       /\ builder = "running"
       /\ builder' = "stopping"
       /\ StopAllCommands
       /\ toBuilder' = Tail(toBuilder)
       /\ UNCHANGED <<asking, table, statusOf>>
    \/ /\ c \notin table
       /\ builder = "stopping"
       /\ Exit
       /\ UNCHANGED <<table, sent, toDispatcher>>

\* The builder reads a message, in its loop or in the flush of stopAllCommands.
BuilderHears ==
    /\ toBuilder # <<>>
    /\ asking = Nothing
    /\ BuilderNotes(Head(toBuilder).content)
    /\ UNCHANGED <<vars, fromNode, toNode, sessionVars, nodeVars, lossVars>>

Builder ==
    \/ \E k \in Class : Request(k)
    \/ Subscribe
    \/ BuilderRaises
    \/ Signalled
    \/ BuilderExits
    \/ BuilderHears

-----------------------------------------------------------------------------
(* The message bus: MessageBus.                                            *)

\* completeConnection: a node that asks for a session whose connection the bus
\* has seen close gets it back, any other a new one.  A second request on the
\* same connection is ignored.
ConnectNode(n, requested) ==
    \/ /\ link[n] # NoSession
       /\ UNCHANGED <<known, open, link, targets, toNode, toDispatcher, toBuilder, lost>>
    \/ \E s \in Session :
        /\ link[n] = NoSession
        /\ IF requested \in known \ open
           THEN s = requested
           ELSE NodeOf[s] = n /\ s \notin known
        /\ known' = known \cup {s}
        /\ open' = open \cup {s}
        /\ link' = [link EXCEPT ![n] = s]
        /\ toNode' = [toNode EXCEPT ![n] = Append(@, Message("connected", s))]
        /\ UNCHANGED <<targets, toDispatcher, toBuilder, lost>>

\* Mutant: a status goes to the builder only.
PublishStatusToBuilder(m) ==
    /\ IF m.content \in statusOf
       THEN toBuilder' = Append(toBuilder, m) /\ UNCHANGED lost
       ELSE lost' = lost \cup WorkOf({m.content}) /\ UNCHANGED toBuilder
    /\ UNCHANGED <<known, open, link, targets, toNode, toDispatcher>>

\* A status goes to the dispatcher, and to the builder if it is subscribed.
PublishStatus(m) ==
    /\ toDispatcher' = Append(toDispatcher, m)
    /\ IF m.content \in statusOf
       THEN toBuilder' = Append(toBuilder, m) /\ UNCHANGED lost
       ELSE lost' = lost \cup WorkOf({m.content}) /\ UNCHANGED toBuilder
    /\ UNCHANGED <<known, open, link, targets, toNode>>

\* addSubscriber, which does not look whether the node is subscribed.
AddSubscriber(n, s) ==
    /\ targets' = [targets EXCEPT ![n][s] = @ + 1]
    /\ UNCHANGED <<known, open, link, toNode, toDispatcher, toBuilder, lost>>

\* receivedMessage for a message of node n.
BusHearsNode(n) ==
    LET m == Head(fromNode[n])
    IN  /\ fromNode[n] # <<>>
        /\ fromNode' = [fromNode EXCEPT ![n] = Tail(@)]
        /\ \/ m.kind = "connect" /\ ConnectNode(n, m.content)
           \/ m.kind = "status" /\ PublishStatus(m)
           \/ m.kind = "subscribe" /\ AddSubscriber(n, m.content)
           \/ /\ m.kind \in {"register", "nodeInfo"}
              /\ toDispatcher' = Append(toDispatcher, m)
              /\ UNCHANGED <<known, open, link, targets, toNode, toBuilder, lost>>
        /\ UNCHANGED <<vars, builderVars, statusOf, nodeVars, losses, doubled>>

\* Mutant: nobody is told that a session was closed.
BusClosesSessionSilently(s) ==
    /\ s \in open
    /\ \A n \in Node : link[n] # s
    /\ open' = open \ {s}
    /\ UNCHANGED <<vars, builderVars, toBuilder, statusOf, toDispatcher, fromNode, toNode,
                   known, link, targets, nodeVars, lossVars>>

\* closeSession, once the bus notices that the connection is dead.
BusClosesSession(s) ==
    /\ s \in open
    /\ \A n \in Node : link[n] # s
    /\ open' = open \ {s}
    /\ toDispatcher' = Append(toDispatcher, Message("disconnected", s))
    /\ UNCHANGED <<vars, builderVars, toBuilder, statusOf, fromNode, toNode,
                   known, link, targets, nodeVars, lossVars>>

-----------------------------------------------------------------------------
(* The dispatcher: DispatcherNodeClient.messageReceived and assignCommand. *)

\* The commands this step of the dispatcher sends to the nodes, and the copies of
\* them that go to node n: one for each of its subscriptions (iterSubscribers).
Assigned == DOMAIN ledger'.owner \ DOMAIN ledger.owner
Copies(n) == UNION {{c} \X (1 .. targets[n][ledger'.owner[c]]) : c \in Assigned}
SentTo(n) == {x[1] : x \in Copies(n)}

\* A command goes to the node that is subscribed to those of its session, or
\* to nobody.
SendAssigned ==
    /\ toNode' = [n \in Node |-> toNode[n] \o Sequence("command", ByArrival(Copies(n)))]
    /\ lost' = lost \cup WorkOf(Assigned \ UNION {SentTo(n) : n \in Node})
    /\ doubled' = doubled \cup {c \in Assigned : \E n \in Node : <<c, 2>> \in Copies(n)}

\* nodeUpdated and nodeDisconnected of a session that is not registered.
Ignore(m) ==
    /\ m.kind \in {"nodeInfo", "disconnected"}
    /\ (IF m.kind = "nodeInfo" THEN m.content.session ELSE m.content) \notin nodes
    /\ ~crashed
    /\ UNCHANGED vars

Dispatch ==
    LET m == Head(toDispatcher)
    IN  /\ toDispatcher # <<>>
        /\ toDispatcher' = Tail(toDispatcher)
        /\ \/ \E k \in Class :
                 m = Message("command", NewCommand(k, NoTarget)) /\ CommandReceived(k)
           \/ \E t \in received :
                 m = Message("command", NewCommand(t.class, t.id)) /\ StopReceived(t)
           \/ \E s \in Session, ld \in Load :
                 m = Message("register", s) /\ NodeRegistered(s, ld)
           \/ \E s \in Session, ld \in Load :
                 /\ m.kind = "nodeInfo"
                 /\ m.content.session = s
                 /\ NodeUpdated(s, ld, ledger.assigned[s] \cap m.content.ids)
           \/ \E c \in received : m = Message("status", c) /\ CommandDone(c)
           \/ \E s \in Session : m = Message("disconnected", s) /\ NodeDisconnected(s)
           \/ Ignore(m)
        /\ SendAssigned
        /\ UNCHANGED <<builderVars, toBuilder, statusOf, fromNode, sessionVars,
                       nodeVars, losses>>

-----------------------------------------------------------------------------
(* A worker node: rMakeWorkerNodeServer, its client and Worker.            *)

Tell(n, messages) == fromNode' = [fromNode EXCEPT ![n] = @ \o messages]
Status(c) == <<Message("status", c)>>

\* Mutant: a node registers only once.
ConnectedOnce(n, s) ==
    /\ session' = [session EXCEPT ![n] = s]
    /\ Tell(n, IF session[n] = NoSession
               THEN <<Message("register", s), Message("subscribe", s)>>
               ELSE <<Message("subscribe", s)>>)
    /\ UNCHANGED workerVars

\* ConnectedResponse: the node registers, and only then subscribes to the
\* commands of its session.
Connected(n, s) ==
    /\ session' = [session EXCEPT ![n] = s]
    /\ Tell(n, <<Message("register", s), Message("subscribe", s)>>)
    /\ UNCHANGED workerVars

\* Mutant: stop commands are queued as well.
AnyCommandArrives(n, c) ==
    /\ waiting' = [waiting EXCEPT ![n] = Append(@, c)]
    /\ due' = [due EXCEPT ![n] = TRUE]
    /\ UNCHANGED <<session, running, stuck, stopping, fromNode>>

\* receivedBuildCommand and its like: queueCommand.
CommandArrives(n, c) ==
    /\ ~IsStop(c)
    /\ waiting' = [waiting EXCEPT ![n] = Append(@, c)]
    /\ due' = [due EXCEPT ![n] = TRUE]
    /\ UNCHANGED <<session, running, stuck, stopping, fromNode>>

\* getCommandById: the running commands that c is to stop.
Targets(n, c) == {i \in DOMAIN running[n] : running[n][i].id = c.target}

\* stopCommand kills the process of a running command.  A command that is not
\* running, or still in the node's queue, is unknown: nothing happens.
StopArrives(n, c) ==
    /\ IsStop(c)
    /\ Cardinality(Targets(n, c)) < 2
    /\ stopping' = IF Targets(n, c) # {}
                   THEN [stopping EXCEPT ![n] = c]
                   ELSE stopping
    /\ due' = [due EXCEPT ![n] = waiting[n] # <<>>]
    /\ UNCHANGED <<session, waiting, running, stuck, fromNode>>

\* node.slots of the node, whatever its session.
HasFreeSlot(n) ==
    \A s \in Session : NodeOf[s] = n => Len(running[n]) < Slots[s]

\* After each message _serveLoopHook looks at the queue before the next child is
\* collected.
HookPending(n) == due[n] /\ waiting[n] # <<>> /\ HasFreeSlot(n)

\* A node reads no message while it waits for the process it has killed, and one
\* at a time before it looks at the queue, unless it has events of a running
\* command to send: emitEvents reads on until they are written.
Reads(n) ==
    /\ toNode[n] # <<>>
    /\ stopping[n] = Nothing
    /\ HookPending(n) => running[n] # <<>>

Receive(n) ==
    LET m == Head(toNode[n])
    IN  /\ Reads(n)
        /\ toNode' = [toNode EXCEPT ![n] = Tail(@)]
        /\ \/ m.kind = "connected" /\ Connected(n, m.content)
           \/ m.kind = "command" /\ CommandArrives(n, m.content)
           \/ m.kind = "command" /\ StopArrives(n, m.content)
        /\ UNCHANGED <<vars, builderVars, toBuilder, statusOf, toDispatcher,
                       sessionVars, lossVars>>

\* reserveRoot: ChrootQueue has a free slot for c.  No limit means no limit.
InChroot(n) == {i \in DOMAIN running[n] : RequiresChroot(running[n][i])}
ChrootFree(n, c) ==
    \A s \in Session : NodeOf[s] = n /\ RequiresChroot(c) /\ ChrootLimit[s] > 0 =>
        Cardinality(InChroot(n)) + stuck[n] < ChrootLimit[s]

\* runCommand for the head c of the queue: the command runs in a child.
Started(n, c) ==
    /\ c.class \notin Uninstantiable
    /\ ChrootFree(n, c)
    /\ running' = [running EXCEPT ![n] = Append(@, c)]
    /\ waiting' = [waiting EXCEPT ![n] = Tail(@)]
    /\ UNCHANGED <<stuck, fromNode>>

\* Mutant: a command that failed to start is queued again.
StartFailsRequeued(n, c) ==
    /\ c.class \in Unforkable \ Uninstantiable
    /\ ChrootFree(n, c)
    /\ stuck' = [stuck EXCEPT ![n] = @ + Cardinality(ChrootsOf({c}))]
    /\ waiting' = [waiting EXCEPT ![n] = Append(Tail(@), c)]
    /\ Tell(n, Status(c))
    /\ UNCHANGED running

\* An exception after the constructor: the command has failed, and the chroot
\* it may have reserved stays reserved.
StartFails(n, c) ==
    /\ c.class \in Unforkable \ Uninstantiable
    /\ ChrootFree(n, c)
    /\ stuck' = [stuck EXCEPT ![n] = @ + Cardinality(ChrootsOf({c}))]
    /\ waiting' = [waiting EXCEPT ![n] = Tail(@)]
    /\ Tell(n, Status(c))
    /\ UNCHANGED running

\* Mutant: a command that is not ready is dropped.
NotReadyDropped(n, c) ==
    /\ c.class \notin Uninstantiable
    /\ ~ChrootFree(n, c)
    /\ waiting' = [waiting EXCEPT ![n] = Tail(@)]
    /\ UNCHANGED <<running, stuck, fromNode>>

\* isReady() is false: the command goes to the tail of the queue.
NotReady(n, c) ==
    /\ c.class \notin Uninstantiable
    /\ ~ChrootFree(n, c)
    /\ waiting' = [waiting EXCEPT ![n] = Append(Tail(@), c)]
    /\ UNCHANGED <<running, stuck, fromNode>>

\* The constructor raises: runCommand reports the error and returns None, and
\* _serveLoopHook takes that for a command that is not ready.
NotInstantiated(n, c) ==
    /\ c.class \in Uninstantiable
    /\ Tell(n, Status(c))
    /\ waiting' = [waiting EXCEPT ![n] = Append(Tail(@), c)]
    /\ UNCHANGED <<running, stuck>>

\* _serveLoopHook with a command in the queue and a free slot.
StartNext(n) ==
    LET c == Head(waiting[n])
    IN  /\ waiting[n] # <<>>
        /\ HasFreeSlot(n)
        /\ due' = [due EXCEPT ![n] = FALSE]
        /\ Started(n, c) \/ StartFails(n, c) \/ NotReady(n, c) \/ NotInstantiated(n, c)
        /\ UNCHANGED <<vars, builderVars, toBuilder, statusOf, toDispatcher,
                       toNode, sessionVars, session, stopping, lossVars>>

\* _pidDied, from _collectChildren or from _killPid: the command has ended by
\* itself or was killed, and its status is sent.
ChildDies(n, i) ==
    /\ ~HookPending(n)
    /\ due' = [due EXCEPT ![n] = FALSE]
    /\ running' = [running EXCEPT ![n] = RemoveAt(@, i)]
    /\ Tell(n, Status(running[n][i]))
    /\ UNCHANGED <<vars, builderVars, toBuilder, statusOf, toDispatcher, toNode,
                   sessionVars, session, waiting, stuck, stopping, lossVars>>
ChildEnds(n) == \E i \in DOMAIN running[n] : ChildDies(n, i)

\* _killPid returns: the process is gone or, after both timeouts, would not die.
StopEnds(n) ==
    /\ stopping[n] # Nothing
    /\ stopping' = [stopping EXCEPT ![n] = Nothing]
    /\ Tell(n, Status(stopping[n]))
    /\ UNCHANGED <<vars, builderVars, toBuilder, statusOf, toDispatcher, toNode,
                   sessionVars, session, waiting, due, running, stuck, lossVars>>

\* The heartbeat of _serveLoopHook, once a minute: the next is not written
\* before the dispatcher has read this one.  A node without a session would
\* send it before it registers, and it would be discarded.
Heartbeat(n) ==
    /\ session[n] # NoSession
    /\ Carried(fromNode[n], "nodeInfo") = {}
    /\ \A m \in Carried(toDispatcher, "nodeInfo") : NodeOf[m.session] # n
    /\ Tell(n, <<NodeInfo(session[n], Running(n) \cup Queued(n))>>)
    /\ UNCHANGED <<vars, builderVars, toBuilder, statusOf, toDispatcher, toNode,
                   sessionVars, nodeVars, lossVars>>

-----------------------------------------------------------------------------
(* Losses.                                                                 *)

\* The present connection of n is dead.  The node asks for its session again
\* on a new one, after the messages it had not yet written, a suffix of those
\* it has sent.
Reconnect(n, kept, requested) ==
    /\ fromNode' = [fromNode EXCEPT ![n] = Append(kept, Message("connect", requested))]
    /\ toNode' = [toNode EXCEPT ![n] = <<>>]
    /\ link' = [link EXCEPT ![n] = NoSession]
    /\ targets' = [targets EXCEPT ![n] = [s \in Session |-> 0]]
    /\ UNCHANGED <<vars, builderVars, toBuilder, statusOf, toDispatcher,
                   known, open, doubled>>

InTransit(n) == Carried(toNode[n], "command") \cup Carried(fromNode[n], "status")

MayFail == losses < MaxLosses /\ losses' = losses + 1

ConnectionBreaks(n) ==
    /\ MayFail
    /\ \E kept \in Suffixes(fromNode[n]) :
          /\ Reconnect(n, kept, session[n])
          /\ lost' = lost \cup WorkOf(InTransit(n) \ Carried(kept, "status"))
    /\ UNCHANGED nodeVars

\* The node's daemon ends with all its commands, and is started again.
Restart(n) ==
    /\ Reconnect(n, <<>>, NoSession)
    /\ session' = [session EXCEPT ![n] = NoSession]
    /\ waiting' = [waiting EXCEPT ![n] = <<>>]
    /\ due' = [due EXCEPT ![n] = FALSE]
    /\ running' = [running EXCEPT ![n] = <<>>]
    /\ stuck' = [stuck EXCEPT ![n] = 0]
    /\ stopping' = [stopping EXCEPT ![n] = Nothing]
    /\ lost' = lost \cup WorkOf(InTransit(n) \cup Queued(n) \cup Running(n))

NodeDies(n) == MayFail /\ Restart(n)

\* A command that is to be stopped runs twice: the assertion of getCommandById
\* ends the daemon.
NodeAborts(n) ==
    /\ Reads(n)
    /\ \E c \in Carried(<<Head(toNode[n])>>, "command") :
          IsStop(c) /\ Cardinality(Targets(n, c)) > 1
    /\ Restart(n)
    /\ UNCHANGED losses

-----------------------------------------------------------------------------
\* Every node has just started and asks for a session.
SystemInit ==
    /\ Init
    /\ builder = "running"
    /\ table = {}
    /\ asking = Nothing
    /\ sent = {}
    /\ toBuilder = <<>>
    /\ statusOf = {}
    /\ toDispatcher = <<>>
    /\ fromNode = [n \in Node |-> <<Message("connect", NoSession)>>]
    /\ toNode = [n \in Node |-> <<>>]
    /\ known = {}
    /\ open = {}
    /\ link = [n \in Node |-> NoSession]
    /\ targets = [n \in Node |-> [s \in Session |-> 0]]
    /\ session = [n \in Node |-> NoSession]
    /\ waiting = [n \in Node |-> <<>>]
    /\ due = [n \in Node |-> FALSE]
    /\ running = [n \in Node |-> <<>>]
    /\ stuck = [n \in Node |-> 0]
    /\ stopping = [n \in Node |-> Nothing]
    /\ losses = 0
    /\ lost = {} /\ doubled = {}

NodeStep(n) ==
    \/ Receive(n)
    \/ StartNext(n)
    \/ ChildEnds(n)
    \/ StopEnds(n)
    \/ Heartbeat(n)

Loss(n) == ConnectionBreaks(n) \/ NodeDies(n) \/ NodeAborts(n)

SystemNext ==
    \/ Builder
    \/ \E n \in Node : BusHearsNode(n)
    \/ \E s \in Session : BusClosesSession(s)
    \/ Dispatch
    \/ \E n \in Node : NodeStep(n)
    \/ \E n \in Node : Loss(n)

SystemSpec == SystemInit /\ [][SystemNext]_systemVars

\* The serve loops of the bus, the dispatcher, the builder and the nodes never
\* stop; a command ends, or the process that runs it does; a killed process is
\* waited for 40 seconds at most.  Nothing makes the builder send or stop
\* anything, nor a connection break.
Fairness ==
    /\ WF_systemVars(Subscribe)
    /\ WF_systemVars(BuilderHears)
    /\ WF_systemVars(Dispatch)
    /\ \A s \in Session : WF_systemVars(BusClosesSession(s))
    /\ \A n \in Node :
         /\ WF_systemVars(BusHearsNode(n))
         /\ WF_systemVars(Receive(n) \/ NodeAborts(n))
         /\ WF_systemVars(StartNext(n))
         /\ WF_systemVars(ChildEnds(n))
         /\ WF_systemVars(StopEnds(n))
         /\ WF_systemVars(Heartbeat(n))

FairSystemSpec == SystemSpec /\ Fairness

-----------------------------------------------------------------------------
(* Properties.                                                             *)

SystemTypeOK ==
    /\ builder \in {"running", "stopping", "exited"}
    /\ asking \in sent \cup {Nothing}
    /\ table \subseteq sent
    /\ sent \subseteq Command
    /\ received \subseteq sent
    /\ open \subseteq known /\ known \subseteq Session
    /\ link \in [Node -> open \cup {NoSession}]
    /\ targets \in [Node -> [Session -> Nat]]
    /\ session \in [Node -> known \cup {NoSession}]
    /\ \A n \in Node :
         /\ Queued(n) \cup Running(n) \subseteq WorkOf(received)
         /\ stuck[n] \in Nat
         /\ due[n] \in BOOLEAN
         /\ stopping[n] \in received \cup {Nothing}
    /\ lost \subseteq WorkOf(sent) /\ doubled \subseteq received

\* The places c is in, on its way from the builder and back: in which channel or
\* table, of which node, and at which position.
Places(c) ==
    LET in(place, n, q, m) == {<<place, n, i>> : i \in {j \in DOMAIN q : q[j] = m}}
        of(place, n, S) == {<<place, n, 0>> : d \in S \cap {c}}
        at(n) == in("toNode", n, toNode[n], Message("command", c))
                   \cup in("waiting", n, waiting[n], c)
                   \cup in("running", n, running[n], c)
                   \cup in("fromNode", n, fromNode[n], Message("status", c))
    IN  in("toDispatcher", Nothing, toDispatcher, Message("command", c))
          \cup of("queue", Nothing, queue) \cup (UNION {at(n) : n \in Node})
          \cup in("toBuilder", Nothing, toBuilder, Message("status", c))
          \cup of("lost", Nothing, lost)

\* The commands for troves and the like that the nodes can start, or fail to.
Instantiable(C) == {c \in WorkOf(C) : c.class \notin Uninstantiable}

\* A command exists once: it is never sent to two nodes, never run twice and
\* never answered twice, whatever is lost and however nodes come back; but a node
\* that subscribed twice, because its first subscription was still unwritten when
\* its connection broke, gets a copy for each.
ExistsOnce ==
    \A c \in Instantiable(sent) : \A p, r \in Places(c) :
        \/ p = r
        \/ c \in doubled /\ ({p[2], r[2]} \subseteq Node => p[2] = r[2])

\* While the builder runs, the commands of its table are those on their way, or
\* lost with a connection, a node, or for want of a subscription; an answered
\* command is nowhere, unless it had been sent twice.
NoneForgotten ==
    LET placed == {c \in Instantiable(sent) : Places(c) # {}}
        unanswered == Instantiable(table \cup ({asking} \ {Nothing}))
    IN  builder = "running" => unanswered \subseteq placed /\ placed \ doubled \subseteq unanswered

\* A command whose error was reported does not go back to the node's queue.
ErredNotRequeued == \A n \in Node : Queued(n) \cap Carried(fromNode[n], "status") = {}

\* Once the stop command for a command has been dealt with, the command does not
\* wait to be started.
StopsAreHeeded ==
    \A n \in Node : toNode[n] = <<>> =>
        \A c \in Queued(n), d \in received : d.target # c.id

\* The dispatcher charges a slot only for a command that is on its way to a
\* node or there, whose status it has yet to read, or that was lost.
ChargesAreReal ==
    \A c \in WorkOf(DOMAIN ledger.owner) :
        \/ c \in lost \cup Carried(toDispatcher, "status")
        \/ \E n \in Node : c \in InTransit(n) \cup Queued(n) \cup Running(n)

\* Every command of the builder is answered, unless it was lost: with a bounded
\* number of commands, time and again only lost ones are unanswered.
Answered == []<>(crashed \/ builder # "running" \/ table \subseteq lost)

\* No slot is charged for ever for a command that was lost on its way to a node
\* or back, or died with its node: a heartbeat or a disconnection frees it.
SlotsRecovered == []<>(crashed \/ lost \cap DOMAIN ledger.owner = {})

\* Every node comes back, however its connection broke: it has a session that
\* the dispatcher knows and whose commands it is subscribed to.
NodesComeBack ==
    \A n \in Node : []<>(crashed \/ (session[n] \in nodes /\ targets[n][session[n]] > 0))
=============================================================================
