------------------------------ MODULE Dispatcher ------------------------------
(***************************************************************************)
(* The dispatcher of a multinode rMake server: DispatcherServer, its bus   *)
(* client and the NodeList it keeps (rmake/multinode/server/dispatcher.py).*)
(*                                                                         *)
(* Builders publish commands (build, resolve, load and action commands,    *)
(* and stop commands for those) on the message bus.  The dispatcher queues *)
(* each command, assigns it to a registered worker node with a free slot,  *)
(* and frees the slot when the command's status arrives, when a heartbeat  *)
(* no longer lists the command, or when the node disconnects.              *)
(*                                                                         *)
(* Every handler of the program is one action here, and its trailing call  *)
(* of _assignQueuedCommands is part of it.  The environment is open: any   *)
(* message may arrive at any time, with any content the bus could carry.   *)
(* Multinode closes the system with real worker nodes and builders.        *)
(*                                                                         *)
(* A command's identifier is its arrival number: CommandIdGen makes every  *)
(* identifier unique, so the order of arrival names a command, and the     *)
(* order of the list _queuedCommands is the order of the numbers.          *)
(***************************************************************************)
EXTENDS Naturals, FiniteSets

CONSTANTS
    Session,      \* bus sessions of worker nodes
    Class,        \* classes of commands: what they need of a node
    NeedsChroot,  \* the classes whose requiresChroot() is True
    Capable,      \* Capable[k]: the nodes whose flavors satisfy a command of class k
    Slots,        \* Slots[s]: node.slots
    ChrootLimit,  \* ChrootLimit[s]: node.chrootLimit
    Load,         \* the load averages a node may report
    Threshold,    \* node.loadThreshold
    MaxCommands,  \* bound: commands received in a behaviour
    NoNode        \* no node can take the command

ASSUME DispatcherAssumption ==
    /\ IsFiniteSet(Session)
    /\ NeedsChroot \subseteq Class
    /\ Capable \in [Class -> SUBSET Session]
    /\ Slots \in [Session -> Nat]
    /\ ChrootLimit \in [Session -> Nat]
    /\ Load \subseteq Nat
    /\ Threshold \in Nat
    /\ MaxCommands \in Nat
    /\ NoNode \notin Session

VARIABLES
    received,   \* history: the commands the dispatcher has received
    queue,      \* _queuedCommands: commands waiting for a node
    byId,       \* the keys of _queuedCommandsById
    nodes,      \* the keys of NodeList._nodes
    load,       \* nodeInfo.loadavg of each node
    suspended,  \* NodeList._suspended
    ledger,     \* NodeList's accounts of the commands on each node
    resumed,    \* history: nodes resumed since commands were last assigned
    crashed     \* an exception left a handler: the dispatcher process died

vars == <<received, queue, byId, nodes, load, suspended, ledger, resumed, crashed>>

-----------------------------------------------------------------------------
(* Commands.                                                               *)

NoTarget == 0

\* A stop command names the id of its target; the other commands name none.
Command == [id : Nat \ {0}, class : Class, target : Nat]
NewCommand(k, t) == [id |-> Cardinality(received) + 1, class |-> k, target |-> t]

IsStop(c) == c.target # NoTarget
RequiresChroot(c) == ~IsStop(c) /\ c.class \in NeedsChroot

-----------------------------------------------------------------------------
(* NodeList's accounts.  The four dictionaries keyed by session get their  *)
(* keys in add() and lose them in remove() together, so a session that is  *)
(* not registered simply has no commands and no used slots here.           *)

EmptyLedger == [owner    |-> [c \in {} |-> NoNode],       \* _commands
                assigned |-> [s \in Session |-> {}],      \* _assignedCommands
                used     |-> [s \in Session |-> 0],       \* _usedSlots
                chroots  |-> [s \in Session |-> 0]]       \* _usedChroots

Minus(m, n) == IF n <= m THEN m - n ELSE 0

\* The commands of C that asg gives to s, and those of them that take a chroot.
GivenTo(s, asg) == {c \in DOMAIN asg : asg[c] = s}
ChrootsOf(C) == {c \in C : RequiresChroot(c)}

\* removeCommand for every known command of C.
RemoveCommands(l, C) ==
    LET gone(s) == GivenTo(s, [c \in C \cap DOMAIN l.owner |-> l.owner[c]])
    IN  [owner    |-> [c \in DOMAIN l.owner \ C |-> l.owner[c]],
         assigned |-> [s \in Session |-> l.assigned[s] \ gone(s)],
         used     |-> [s \in Session |-> Minus(l.used[s], Cardinality(gone(s)))],
         chroots  |-> [s \in Session |->
                         Minus(l.chroots[s], Cardinality(ChrootsOf(gone(s))))]]

\* assignCommand(c, asg[c]) for every command c that asg gives to a node.
AssignCommands(l, asg) ==
    LET new(s) == GivenTo(s, asg)
        taken == {c \in DOMAIN asg : asg[c] # NoNode}
    IN  [owner    |-> [c \in DOMAIN l.owner \cup taken |->
                         IF c \in taken THEN asg[c] ELSE l.owner[c]],
         assigned |-> [s \in Session |-> l.assigned[s] \cup new(s)],
         used     |-> [s \in Session |-> l.used[s] + Cardinality(new(s))],
         chroots  |-> [s \in Session |->
                         l.chroots[s] + Cardinality(ChrootsOf(new(s)))]]

\* Mutant: remove(s) that leaves the node's commands in _commands.
ForgetNodeOnly(l, s) ==
    [l EXCEPT !.assigned[s] = {}, !.used[s] = 0, !.chroots[s] = 0]

\* NodeList.remove(s): the node's commands are forgotten.
ForgetNode(l, s) ==
    [owner    |-> [c \in DOMAIN l.owner \ l.assigned[s] |-> l.owner[c]],
     assigned |-> [l.assigned EXCEPT ![s] = {}],
     used     |-> [l.used EXCEPT ![s] = 0],
     chroots  |-> [l.chroots EXCEPT ![s] = 0]]

-----------------------------------------------------------------------------
(* Choosing nodes.                                                         *)

\* Mutant: a node with every slot in use still counts as open.
CanTakeOneMore(c, s, u, x, N, ld) ==
    /\ s \in N
    /\ u <= Slots[s]
    /\ RequiresChroot(c) => x < ChrootLimit[s]
    /\ ld[s] <= Threshold
    /\ s \in Capable[c.class]

\* getOpenNodes and the flavor test of getNodeForFlavors: can s, with
\* u used slots and x used chroots, take command c now?  N are the registered
\* nodes that are not suspended and ld their load averages.
CanTake(c, s, u, x, N, ld) ==
    /\ s \in N
    /\ u < Slots[s]
    /\ RequiresChroot(c) => x < ChrootLimit[s]
    /\ ld[s] <= Threshold
    /\ s \in Capable[c.class]

\* _getScore and rankNodes: s ranks no later than t, by the share of used slots
\* and then by load.
RanksBefore(s, t, us, ut, ld) ==
    \/ us * Slots[t] < ut * Slots[s]
    \/ us * Slots[t] = ut * Slots[s] /\ ld[s] <= ld[t]

\* Mutant: the loop takes the newest command first.
UsedAtFromTail(c, s, l, asg) ==
    l.used[s] + Cardinality({d \in GivenTo(s, asg) : d.id > c.id})

\* The slots and chroots of s that are taken when the loop of assignCommands
\* reaches command c: those of the ledger and of the commands before c.
UsedAt(c, s, l, asg) ==
    l.used[s] + Cardinality({d \in GivenTo(s, asg) : d.id < c.id})
ChrootsAt(c, s, l, asg) ==
    l.chroots[s] + Cardinality({d \in ChrootsOf(GivenTo(s, asg)) : d.id < c.id})

\* What assignCommands may answer for the queued commands q: each in turn goes
\* to a best ranked node among those that can take it, or stays in the queue.
\* Nodes of equal rank come in the order of a dictionary: any of them.
Assignments(q, l, N, ld) ==
    {asg \in [q -> N \cup {NoNode}] : \A c \in q :
        LET u(s) == UsedAt(c, s, l, asg)
            candidates == {s \in N : CanTake(c, s, u(s), ChrootsAt(c, s, l, asg), N, ld)}
        IN  IF candidates = {}
            THEN asg[c] = NoNode
            ELSE /\ asg[c] \in candidates
                 /\ \A t \in candidates : RanksBefore(asg[c], t, u(asg[c]), u(t), ld)}

\* Mutant: an assigned command stays in _queuedCommandsById.
AssignKeepingIndex(q, b, l) ==
    /\ \E asg \in Assignments(q, l, nodes' \ suspended', load') :
          /\ ledger' = AssignCommands(l, asg)
          /\ queue' = {c \in q : asg[c] = NoNode}
          /\ byId' = b
    /\ resumed' = {}
    /\ UNCHANGED crashed

\* _assignQueuedCommands, run on the queue q, the index b and the ledger l that
\* the handler leaves, after the handler has set nodes, load and suspended.
AssignQueuedCommands(q, b, l) ==
    /\ \E asg \in Assignments(q, l, nodes' \ suspended', load') :
          LET taken == {c \in q : asg[c] # NoNode}
          IN  IF taken \subseteq b
              THEN /\ ledger' = AssignCommands(l, asg)
                   /\ queue' = q \ taken
                   /\ byId' = b \ taken
                   /\ UNCHANGED crashed
              ELSE /\ crashed' = TRUE      \* KeyError from _queuedCommandsById.pop
                   /\ UNCHANGED <<ledger, queue, byId>>
    /\ resumed' = {}

-----------------------------------------------------------------------------
Init ==
    /\ received = {}
    /\ queue = {}
    /\ byId = {}
    /\ nodes = {}
    /\ load = [s \in {} |-> 0]
    /\ suspended = {}
    /\ ledger = EmptyLedger
    /\ resumed = {}
    /\ crashed = FALSE

\* requestCommandAssignment for a command that is not a stop command.
CommandReceived(k) ==
    LET c == NewCommand(k, NoTarget)
    IN  /\ ~crashed
        /\ Cardinality(received) < MaxCommands
        /\ received' = received \cup {c}
        /\ UNCHANGED <<nodes, load, suspended>>
        /\ AssignQueuedCommands(queue \cup {c}, byId \cup {c}, ledger)

\* getNodeForCommand finds a node for t.
HasNode(t) == t \in DOMAIN ledger.owner /\ ledger.owner[t] \in nodes

\* The three branches of handleStopCommand.  The target is on a node: the stop
\* command c is assigned to that node too, whatever its slots.
StopAssigned(c, t) ==
    /\ HasNode(t)
    /\ AssignQueuedCommands(queue, byId,
           AssignCommands(ledger, [d \in {c} |-> ledger.owner[t]]))

\* The target is known as queued: it leaves the list, but stays in the index.
\* list.remove raises ValueError if it is not in the list.
StopQueued(t) ==
    /\ ~HasNode(t)
    /\ t \in byId
    /\ IF t \in queue
       THEN AssignQueuedCommands(queue \ {t}, byId, ledger)
       ELSE /\ crashed' = TRUE
            /\ UNCHANGED <<queue, byId, ledger, resumed>>

\* The target is unknown: the stop command is dropped.
StopDropped(t) ==
    /\ ~HasNode(t)
    /\ t \notin byId
    /\ AssignQueuedCommands(queue, byId, ledger)

\* requestCommandAssignment for a command that stops t.  (A stop command needs
\* nothing of a node: its class is never looked at.)
StopReceived(t) ==
    LET c == NewCommand(t.class, t.id)
    IN  /\ ~crashed
        /\ Cardinality(received) < MaxCommands
        /\ ~IsStop(t)
        /\ received' = received \cup {c}
        /\ UNCHANGED <<nodes, load, suspended>>
        /\ StopAssigned(c, t) \/ StopQueued(t) \/ StopDropped(t)

\* nodeRegistered: a node registers, again perhaps.
NodeRegistered(s, ld) ==
    /\ ~crashed
    /\ nodes' = nodes \cup {s}
    /\ load' = [n \in nodes' |-> IF n = s THEN ld ELSE load[n]]
    /\ UNCHANGED <<received, suspended>>
    /\ AssignQueuedCommands(queue, byId, ledger)

\* nodeUpdated: the heartbeat of a node.  Of the commands the dispatcher thinks
\* are there, the node lists ids: the others are removed.  Any other command it
\* lists is only logged.
NodeUpdated(s, ld, ids) ==
    /\ ~crashed
    /\ s \in nodes
    /\ load' = [load EXCEPT ![s] = ld]
    /\ UNCHANGED <<received, nodes, suspended>>
    /\ AssignQueuedCommands(queue, byId,
           RemoveCommands(ledger, ledger.assigned[s] \ ids))

\* Mutant: a node that leaves stays in _suspended.
NodeDisconnectedStillSuspended(s) ==
    /\ ~crashed
    /\ s \in nodes
    /\ nodes' = nodes \ {s}
    /\ load' = [n \in nodes' |-> load[n]]
    /\ UNCHANGED <<received, suspended>>
    /\ AssignQueuedCommands(queue, byId, ForgetNode(ledger, s))

\* nodeDisconnected.  A command of the node that _commands does not know would
\* raise KeyError.
NodeDisconnected(s) ==
    /\ ~crashed
    /\ s \in nodes
    /\ nodes' = nodes \ {s}
    /\ load' = [n \in nodes' |-> load[n]]
    /\ suspended' = suspended \ {s}
    /\ UNCHANGED received
    /\ IF ledger.assigned[s] \subseteq DOMAIN ledger.owner
       THEN AssignQueuedCommands(queue, byId, ForgetNode(ledger, s))
       ELSE /\ crashed' = TRUE
            /\ UNCHANGED <<queue, byId, ledger, resumed>>

\* Mutant: the freed slot is not offered to the queue.
CommandDoneOnly(c) ==
    /\ ~crashed
    /\ ledger' = RemoveCommands(ledger, {c})
    /\ UNCHANGED <<received, queue, byId, nodes, load, suspended, resumed, crashed>>

\* commandCompleted and commandErrored, for any command: one the dispatcher
\* has dropped, or one that was never assigned, is ignored.
CommandDone(c) ==
    /\ ~crashed
    /\ UNCHANGED <<received, nodes, load, suspended>>
    /\ AssignQueuedCommands(queue, byId, RemoveCommands(ledger, {c}))

\* suspendNodes over XMLRPC, for one node.  KeyError goes back to the caller.
Suspend(s) ==
    /\ ~crashed
    /\ s \in nodes
    /\ suspended' = suspended \cup {s}
    /\ UNCHANGED <<received, queue, byId, nodes, load, ledger, resumed, crashed>>

\* Resuming a node assigns nothing: the queue waits for the next message.
Resume(s) ==
    /\ ~crashed
    /\ s \in nodes
    /\ suspended' = suspended \ {s}
    /\ resumed' = resumed \cup {s}
    /\ UNCHANGED <<received, queue, byId, nodes, load, ledger, crashed>>

Next ==
    \/ \E k \in Class : CommandReceived(k)
    \/ \E t \in received : StopReceived(t)
    \/ \E s \in Session, ld \in Load : NodeRegistered(s, ld)
    \/ \E s \in Session, ld \in Load : \E ids \in SUBSET ledger.assigned[s] :
         NodeUpdated(s, ld, ids)
    \/ \E s \in Session : NodeDisconnected(s)
    \/ \E c \in received : CommandDone(c)
    \/ \E s \in Session : Suspend(s)
    \/ \E s \in Session : Resume(s)

Spec == Init /\ [][Next]_vars
-----------------------------------------------------------------------------
(* Properties.                                                             *)

\* The ledger accounts for commands of R.
LedgerTypeOK(l, R) ==
    /\ l.owner \in [DOMAIN l.owner -> Session]
    /\ DOMAIN l.owner \subseteq R
    /\ l.assigned \in [Session -> SUBSET R]
    /\ l.used \in [Session -> Nat]
    /\ l.chroots \in [Session -> Nat]

\* The dispatcher's state has the shape the program gives it.
TypeOK ==
    /\ received \subseteq Command /\ IsFiniteSet(received)
    /\ queue \subseteq received
    /\ byId \subseteq received
    /\ nodes \subseteq Session
    /\ load \in [nodes -> Load]
    /\ suspended \subseteq nodes
    /\ LedgerTypeOK(ledger, received)
    /\ resumed \subseteq Session
    /\ crashed \in BOOLEAN

\* NodeList keeps each assignment three times: in _commands, in the node's
\* _assignedCommands, and as a used slot (and chroot).  However statuses,
\* heartbeats, disconnections and stop commands interleave, the three agree,
\* so removing a command never leaks a slot nor frees one that is in use.
Consistent(l, N) ==
    /\ \A s \in Session :
         /\ l.assigned[s] = {c \in DOMAIN l.owner : l.owner[c] = s}
         /\ l.used[s] = Cardinality(l.assigned[s])
         /\ l.chroots[s] = Cardinality(ChrootsOf(l.assigned[s]))
    /\ \A c \in DOMAIN l.owner : l.owner[c] \in N

LedgerConsistent == Consistent(ledger, nodes)

\* A node is never given more work than it has slots, nor more commands that
\* build a chroot than it may have chroots, although stop commands are assigned
\* past the limit and heartbeats free slots at any moment.
WorkOf(C) == {c \in C : ~IsStop(c)}

WithinLimits(l) ==
    \A s \in Session :
        /\ Cardinality(WorkOf(l.assigned[s])) <= Slots[s]
        /\ Cardinality(ChrootsOf(l.assigned[s])) <= ChrootLimit[s]

SlotBound == WithinLimits(ledger)

\* No command waits while a node could take it: one pass over the queue after
\* each message is enough.  The exception is a node that was resumed since,
\* because resume() does not look at the queue.
WorkConserving ==
    ~crashed => \A c \in queue, s \in nodes \ (suspended \cup resumed) :
        ~CanTake(c, s, ledger.used[s], ledger.chroots[s], nodes, load)

\* An assigned command is in no queue, and the index _queuedCommandsById holds
\* every queued command (its pop cannot fail) and no assigned one.
QueueConsistent ==
    /\ queue \subseteq byId
    /\ byId \cap DOMAIN ledger.owner = {}

\* The one exception that can end the dispatcher, and with it the server, is a
\* second stop command for a command that was stopped while it was queued.
CrashOnlyByDoubleStop ==
    crashed => \E c, d \in received : c # d /\ IsStop(c) /\ c.target = d.target

\* Of two queued commands with the same needs the older is assigned first: the
\* loop may pass over a command, but never in favour of an equal one.
FifoWithinClass ==
    [][\A c, d \in queue :
          /\ c.id < d.id /\ c.class = d.class
          /\ d \in DOMAIN ledger'.owner
          => c \notin queue']_vars
-----------------------------------------------------------------------------
(* The inductive invariant behind these properties (proved in              *)
(* DispatcherProofs): with them, identifiers are unique and grow with the  *)
(* order of arrival, no stop command is ever queued, and a command that is *)
(* in the index but not in the queue is the target of a stop command.      *)

IdsUnique ==
    /\ \A c \in received : c.id <= Cardinality(received)
    /\ \A c, d \in received : c.id = d.id => c = d

StopRequested(t, R) == \E c \in R : IsStop(c) /\ c.target = t.id

QueueInv(q, b, l, R) ==
    /\ q \subseteq b
    /\ b \cap DOMAIN l.owner = {}
    /\ \A t \in b : ~IsStop(t)
    /\ \A t \in b \ q : StopRequested(t, R)

IInv ==
    /\ TypeOK
    /\ IdsUnique
    /\ LedgerConsistent
    /\ SlotBound
    /\ QueueInv(queue, byId, ledger, received)
    /\ WorkConserving
    /\ CrashOnlyByDoubleStop
=============================================================================
