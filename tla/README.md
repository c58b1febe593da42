# rMake in TLA+

rMake builds conary packages.  A client submits a job, a set of troves to build; the
server forks a builder for it; the builder works out in which order the troves can be
built and hands resolve and build commands to worker nodes.  In a multinode installation
the commands travel over a message bus, through a dispatcher that chooses a node for each.
This directory specifies the parts of rMake whose correctness depends on the order in
which things happen, checks them with TLC on small instances, and proves the central
invariants with TLAPS for all instances.

## The system

| component | source | state | operations | what is hard |
|---|---|---|---|---|
| command line, clients | `rmake/cmdline`, `rmake/server/client.py` | none that lasts | submit, stop, query, watch, commit | a commit is several calls that others interleave with |
| RPC server and daemon | `rmake/server/server.py`, `daemon.py` | job queue and job states in the database, `buildPids`, `_halt` | `buildTroves`, `startJob`, `stopJob`, `_pidDied`, `_postStartupTasks`, commit | a builder dies while its job is in any state; stop races completion; restart after a crash |
| job database | `rmake/db` | `Jobs`, `jobQueue`, `Chroots`, `Nodes` | queue, pop, slots query, state updates | what is read before and used after; the slot count at its limit |
| job and trove objects | `rmake/build/buildjob.py`, `buildtrove.py`, `publisher.py` | the state of a job and of each trove, an owner | one method per event | events replayed by another process in another order |
| builder main loop | `rmake/build/builder.py` | the loop | load, resolve, build, finish | progress: something must always be left to do until all is finished |
| dependency handler | `rmake/build/dephandler.py` | dependency graph, hard dependencies, delayed and cycle-checked troves, troves being resolved | `getNextResolveJob`, `resolutionComplete`, `troveBuilt`, `troveFailed`, `troveDuplicate` | cycles, results that arrive late, failure propagation, termination |
| builder proxy | `rmake/multinode/server/builderproxy.py` | table of outstanding commands | send, status received, event received | statuses repeated, lost or late |
| dispatcher | `rmake/multinode/server/dispatcher.py` | command queue and index, node list, slot and chroot accounts | command, status, heartbeat, registration, disconnection, suspend, resume | the accounts under any order of messages |
| worker node | `rmake/multinode/workernode.py`, `rmake/worker/worker.py`, `command.py` | queue, running commands, children | queue, run, stop, reap, heartbeat | stop before start, fork failures, heartbeats that cross assignments |
| chroots | `rmake/worker/chroot` | chroots in use, reserved, free; locks | request, reuse, open a session, archive, delete | slots leaked or shared; forked copies of the queue; deletions checked too early |
| message bus | `rmake/messagebus`, `rmake/multinode/server/messagebus.py` | sessions, subscriptions, queues | connect, reconnect, subscribe, publish, close | what survives a reconnection |
| process control | `rmake/lib/server.py` | children | fork, kill with a hook, reap | the hook re-enters the server |

A builder sends a command on the bus; the dispatcher receives every command, queues it,
and re-sends it with a target node; that node runs it in a forked child and publishes
events (trove building, trove built) and a final status.  The builder turns the events
into trove states, its dependency handler turns trove states into the next resolve or
build, and the daemon reads the job's final state from the database once the builder
process has ended.

What makes each component correct, in one line each:

* dispatcher: its accounts agree with each other, no node is overcommitted, no command
  waits beside a node that could run it, equal commands keep their order;
* dependency handler: a trove is built after what it needs, unless a cycle makes that
  impossible; a failure reaches exactly what depended on it; the loop ends;
* worker node and builder proxy: each command gets one final answer;
* daemon: one builder per running job, every job ends in a final state, and a restart
  leaves no job running in the database that no process runs;
* chroots: no two commands share one, the limit holds, nobody removes one in use;
* message bus: in-order delivery per session, nothing delivered to a closed session.

## Modules

### `Dispatcher.tla`, `MCDispatcher.tla`

One action per handler of `DispatcherServer` and of its bus client:

| action | handler |
|---|---|
| `CommandReceived` | `requestCommandAssignment` for build, resolve, load, action commands |
| `StopReceived` (`StopAssigned`, `StopQueued`, `StopDropped`) | `requestCommandAssignment` and `handleStopCommand` |
| `NodeRegistered`, `NodeUpdated`, `NodeDisconnected` | `nodeRegistered`, `nodeUpdated` (the heartbeat), `nodeDisconnected` |
| `CommandDone` | `commandCompleted`, `commandErrored` |
| `Suspend`, `Resume` | `NodeList.suspend`, `NodeList.resume` |

Every handler that the code ends with `_assignQueuedCommands` ends with it here.  The
assignment loop is stated, not executed: `Assignments` is the set of answers the greedy
loop may give, in which the slots taken when the loop reaches a command are those of the
accounts plus those of the commands before it.  `queue` and `byId` are `_queuedCommands`
and `_queuedCommandsById`; `ledger` holds NodeList's four dictionaries.  A command is its
arrival number, the class of what it needs, and for a stop command its target.  Nodes of
equal rank come in the order of a dictionary, so any of them may be chosen.  The
environment is open: builders and nodes may send anything at any time, in any order, any
number of times.  An exception in a handler ends the dispatcher process (`crashed`), as
`Server._try` raises it again and the daemon treats the dispatcher as critical.

Left out: the wording of log messages, the XMLRPC status report, the database copy of the
node table, and `_commandsByJob`, which only a query reads.

Bounds of the run: two nodes that differ in slots, in chroot limit and in what they can
build, two classes of commands, four commands, two load averages on either side of the
threshold.  Four commands are enough for a node to be full with a stop command on top, for
a queue of two behind it, and for a command to be stopped twice.

### `DispatcherProofs.tla`

`IInv` is inductive and implies every safety property the run checks.  What it adds to
them: identifiers are unique and bounded by the number of commands received (so a new one
is fresh, and orders the queue); no stop command is queued; and a command in the index but
not in the queue is the target of a stop command, which is what a crash needs twice.  The
proof has a lemma per operation of the accounts (`RemoveCommands`, `AssignCommands`,
`ForgetNode`), each stated over an arbitrary ledger, a lemma for the assignment pass, and
one step per action.  Finite cardinality is the only data theory it uses.  The theorems
rest on `DispatcherAssumption`, which TLC evaluates in every run.

### `DepHandler.tla`, `MCDepHandler.tla`, `MCDepHandlerLive.tla`

The scheduler of one builder.  `job`, one of `Jobs`, says what each trove requires, which
troves were built before and with what (`old`), which troves are primary, and what the
rebuild options let pass as unchanged (`policy`); it never changes, so one run covers many
jobs.  `old` is what `_matchTrovesToJobContext` and `_matchPrebuiltTroves` leave in a trove:
the packages it was built with, whether its source is the same, and whether it was resolved against the same troves, so that it may be reused at once.

| action | code |
|---|---|
| `Turn` | one turn of the loop of `Builder.build`: `TurnAfterEvent`, `TurnBuild` (`popBuildableTrove`, `buildTrove`), `TurnSpecial` (`popSpecialTrove`, `actOnTrove`), `TurnResolve` |
| `ResolveIfReady` | `Builder.resolveIfReady` and `getNextResolveJob`: `ResolveFast` is `_attemptFastResolve`, `ResolveNext` the pass over the leaf cycles, with the failing of delayed troves at its end; both end in `_getResolveJob`, which reuses old binaries or sends a resolution off |
| `Resolved` | `resolutionComplete` of a success: waits found by `_addResolutionDeps` (`ResolvedButDelayed`), old binaries reused or the trove left out (`ResolvedUnbuilt`), or `troveBuildable` (`ResolvedBuildable`) |
| `MissingBuildReqs`, `MissingDep`, `UnpackingRaises` | `resolutionComplete` of a failure, `_linkMissingDeps`, and the exception a label of a missing dependency raises at line 1019 |
| `ResolveFailed`, `BuildFailed` | `WorkerClient.commandErrored` and the event TROVE_FAILED |
| `BuildStarted`, `BuildSucceeded`, `Prepared`, `BuildDuplicate` | the events TROVE_BUILDING, TROVE_BUILT, TROVE_PREPARED, TROVE_DUPLICATE with all that the handler's listeners do |

`state` is the trove's own state and, since they are updated by the same event, the lists
of `AbstractBuildState`.  WAITING is split by what the trove waits for: "resolving" from
`troveQueued('Ready for dep resolution')` on, "waiting" from the `troveQueued` of a build.
`resolving`, `delayed`, `cycleChecked`, `duplicates` and `buildable` are the dictionaries
of the handler.  A resolution or build command is a trove in one of the states "resolving",
"waiting", "building": `Answer` gives its outcome at any later time, so results arrive in
every order, several of them between two turns (`hadEvent`).  The graph operators stand for
conary's graph library, of which the code uses edges with labels, strongly connected
components and reachability.  `Fail` is the walk of `_troveFailed` with the trove states it
sets, stated as the least set closed under "all troves that satisfy this requirement are in
the set".

Old binaries are reused in five places: for troves that are not primary once something was
built (`Spared`), under each of the two rebuild options (`Spared`, `OldWillDo`), at once
while nothing had to be built (`Quick`), and when a new resolution gives the packages of the
old one (`MaySame`).  A resolution that succeeds chooses the packages `P`, among them the
build requirements, and which builds of this job it uses for them (`Used`); the resolver puts
builds of this job before those from outside (`getSources`), so it uses one where there is
one.  All reuse is a `troveBuilt` event, with what the handler does on it (`Built`).

Abstractions: the priority of troves, the order of cycles and the heuristics of where to
break a cycle are any choice; a resolution may use any packages of the job, and then
`NewDeps` says which waits it may add; a missing build requirement is any of the trove's.
The binaries of two earlier builds of one job are distinct.
Each command is answered once: that the bus, the dispatcher and the workers may answer
twice or never is the subject of the modules planned for them.

Bounds: three troves that are built, of which two provide the same package (so that
requirements have two providers, duplicates meet, and cycles have one, two or three
troves), and one special trove; all 64 jobs of troves never built before, and nine of two
troves that were (alone, after each other, in a cycle, with a package that only the resolution
found, under each option, with a primary trove); a limit of two resolutions under way instead
of ten.  The liveness run has one provider for each package, cycles of two troves and a
trove of which only the chroot is prepared.

What the runs show:

* `dephandler`: `ProvidersFirst`, `FailurePropagates`, `NotDraggedInFlight`, `OneBreaker`,
  `BooksAgree`, `BuiltOnce`, `FinalStays` hold in all of them, and `StalledOnlyByLeftovers`
  names all the causes for which the loop can turn for ever.  `ReuseIsCurrent` says that
  old binaries are reused only if nothing they were built with is built anew by this job or
  about to be.  It leaves out two cases in which the code does otherwise on purpose or by its
  order: jobs with `ignoreAllRebuildDeps`, and jobs with primary troves, where `_getResolveJob`
  (line 680-683) reuses what is not primary once a build has occurred.
* No run, but part of the model: with `ignoreExternalRebuildDeps` (line 972) the old binaries of
  a trove whose source has changed are reused, since that option is looked at before the
  source is, although the manual page has it rebuilt; and nothing reads whether the superclasses
  have changed (`superClassesMatch`), so the model has no such field.
* `dephandler_delayed` (a finding): a trove that lacks a dependency on another trove of the
  job is told to wait until that is built, and fails at the next turn if that trove is
  being built rather than ready to be built.
* `dephandler_stall` (a finding): such a trove, if the provider had failed, is never
  failed itself once another build has made the handler forget that it was delayed.
  The same end is reached in other ways: with `Outcomes = {"missingBuildReqs"}` by a cycle
  of three that is broken and leaves a cycle of two with an old hard dependency, with
  `{"resolveFailed"}` when failed resolutions fill `_resolving`, or one of them keeps fast
  resolution waiting, with `{"duplicate", "buildFailed"}` when the build a duplicate is to be compared with fails.
* `dephandler_live`: without cycles of three, with one provider for each package, no missing
  dependencies, no duplicates, no earlier builds and room for failed resolutions, every job
  ends, whatever fails.

Left out of `DepHandler`: cross compilation and rejected flavors beyond the constant
`Rejected`, groups and their delayed requirements, the cache of resolver results, and dumb
mode, in which nothing is ordered.

### `DepHandlerGraphs.tla`, `DepHandlerProofs.tla`

`DepHandlerGraphs` has the lemmas about the operators on graphs: reachability and strongly
connected components, that a nonempty finite graph has a leaf component (`LeafExists`), and
that the walk of a failure (`Dragged`) is the least closed set and so keeps out of every set
that no edge leads into from outside (`DraggedClosed`, `DraggedAvoids`).

`DepHandlerProofs` proves all safety properties of the run `dephandler`.  `DepInv` is
inductive.  Besides the books and what each state implies for them (`Types`, `InGraph`, `Rows`,
`FastOnly`, `Binaries`, `BuiltOnce`) it says of the graph: an edge starts at a trove that may
yet be resolved, and leads to a settled one only if it is a hard dependency (`Edges`); an edge
of a requirement leads to a provider that has not failed (`Requirements`); no such edge is
lost before its provider is settled (`EdgesKept`); who requires what failed has failed
(`FailurePropagates`); and a trove under resolution has no edge out, or the cycle it was
taken from is still closed, still waits for it and is otherwise idle (`Cycles`).  The last is
what keeps two breakers, and failures that would drag in troves being built, apart.

The proof goes in two halves.  The first shows that every action, with all the handlers it
calls, is one of a few kinds of step (`Step`): some troves are settled, with all that the walk
of the failed ones drags in (`Settles`), a trove starts to wait for more (`Waits`), a cycle is
broken at a trove (`Breaks`), a trove changes its state outside the graph (`Moves`), or nothing
happens to troves (`Rests`).  The second half shows that each kind keeps each part of `DepInv`.
Two things the proof brought out: a leaf cycle is chosen only while none of its troves is in
`_resolving` (`MayChoose`), and `OneBreaker` rests on just that; and `ReuseIsCurrent` does not
hold of troves of which only the chroot is prepared, which may take their old packages before
what they require is built, since they wait for nobody.

### `Multinode.tla`, `MCMultinode.tla`, `MultinodeProofs.tla`, `MultinodePlaces.tla`

The system around the dispatcher: it extends `Dispatcher`, whose actions it takes as they
are, and adds the builder's table of commands, the bus and the worker nodes.

| action | code |
|---|---|
| `Request`, `Subscribe` | `BuilderNodeClient.buildTrove` and its like: the command is sent, its status subscribed to, and then it is noted in `_commands` |
| `BuilderRaises`, `Signalled`, `BuilderExits` | an exception in `build()`, SIGTERM, the end of `buildAndExit`; `StopAllCommands` is `stopAllCommands` |
| `BuilderHears` | `messageReceived` for a status, with the KeyError of a status nobody waits for |
| `BusHearsNode` (`ConnectNode`, `PublishStatus`, `AddSubscriber`) | `MessageBus.receivedMessage`, `completeConnection` and `SubscriptionManager.addSubscriber` |
| `BusClosesSession` | `closeSession` |
| `Dispatch` | `DispatcherNodeClient.messageReceived`, with a copy of each command it assigns for every subscription to it (`iterSubscribers`) |
| `Receive` (`Connected`, `CommandArrives`, `StopArrives`) | `WorkerNodeClient.messageReceived` |
| `StartNext` (`Started`, `StartFails`, `NotReady`, `NotInstantiated`) | `Worker._serveLoopHook` and `runCommand` |
| `ChildDies`, `StopEnds` | `_pidDied`, the return of `_killPid` |
| `Heartbeat` | `rMakeWorkerNodeServer._serveLoopHook` |
| `ConnectionBreaks`, `NodeDies` | `_SessionClient.close`, which connects again at once; a node that is started again |
| `NodeAborts` | the assertion of `getCommandById`, when the command to stop runs twice |

Channels are sequences, one for each direction between the bus and a node and one from the
bus to the dispatcher and to the builder.  What the builder and the dispatcher send reaches
the bus at once: both are single-threaded, their steps depend on nothing but what they have
read, so a bus that is slow to read them is a builder or dispatcher that is slow to act.
Messages that a node has not yet written when its connection breaks go out on the next one
before its request for a session; those the bus had sent are lost.  `due` keeps the order of
the node's serve loop: after each message it looks at its queue once before the next, unless
it has events of a running command to send, since a synchronous message reads on until it is
written (`Reads`).

The bus keeps subscriptions in a list and does not look whether a session is in it
(`targets` counts the entries), and sends a message once per entry.  A node whose
connection breaks while its subscription is unwritten sends it on the next connection,
gets its session back and subscribes again: from then on it gets every command twice, runs it
twice and answers twice, and the second answer raises KeyError in the builder.  The history
variable `doubled` records the commands this happens to.

Commands published to nobody are recorded in `lost`, a history variable, so that the
properties can say that nothing else is ever lost.  `Places` lists the places a command is
in, from the builder's socket to the builder's ear: the channel or table, the node, and the
position there, so that a message twice in one channel is in two places.  `ExistsOnce` and
`NoneForgotten` are about those places, with the commands of `doubled` excepted as far as
the code makes it necessary (their copies are still on one node only), and for the commands of `Instantiable`: one whose
constructor raises is queued again, which is the finding `multinode_erred`.  `ChargesAreReal`
relates the dispatcher's accounts to those places.

Left out: the events that commands publish (`DepHandler` has what becomes of them), the
remote calls of the administration, broken connections of the builder and of the dispatcher
(both run on the bus's host), and messages cut in the middle.

Bounds: one node with two slots and one chroot, and two sessions, so that its connection may
break or it may die once and come back under the same session or the other; one command and
every way for the builder to end (`Endings`), or two commands and a builder that runs on.
`MaxRequests` and `MaxLosses` are bounds; so is one heartbeat of a node under way at a time,
since they are a minute apart.  One node suffices for what is checked: a command goes to one
node, nodes meet only in the dispatcher, and `dispatcher` has two.

What the runs show:

* `multinode`, `multinode_live`: a command is in one place at a time whatever breaks, unless
  it went to a node that had subscribed twice, an
  account is never charged for a command that is nowhere, unless it is lost, and then a
  heartbeat or the closing of the session frees it; nodes come back; what is not lost is
  answered, provided a start never fails.  (A start that fails after the chroot was reserved
  keeps the reservation for good: with `Unforkable = {build}` and a second command
  `Answered` is violated.)
* What is lost is lost for good: no one tells the builder that a node went away, and it
  waits.  That is why `Answered` excepts `lost`.
* `multinode_erred` (a finding): a command whose constructor raises is reported as errored
  and queued again, for ever.  The second report reaches a builder that has forgotten the
  command: KeyError, and the job is over.  Of the constructors, that of `ImageCommand` may
  raise: it indexes `rmakeUser`, which is None by default.
* `multinode_stop` (a finding): after `rmake stop`, with all messages read, a node has a
  command of the job left in its queue and will build it.

In `MultinodeProofs` a lemma carries the theorems of `DispatcherProofs` over to the system,
whose steps are the dispatcher's handlers or leave its state alone; `SystemNeverOverassigns`
spells out one.  The module goes on to prove the type invariant by way of
`SystemInv`: the dispatcher's own invariant; what each channel may carry (`Channels`);
that a number belongs to one command and a builder that runs has sent nothing but work
(`Numbers`); that tables and subscriptions hold only what was sent (`Books`); that sessions and
subscriptions of a node are its own (`Sessions`); and what the nodes hold (`Workers`).

`MultinodePlaces` rests on `SystemInv` and proves the three invariants about the places of
commands.  For `ChargesAreReal` the `Held` lemmas say, for each kind of step, how what is on
a node, or on its way there or back, changes; a charge needs one of those, a status on its way
to the dispatcher, or a loss.  For `ExistsOnce` each kind of step either leaves a
command where it is, perhaps nearer the head of a channel (`Stays`), or puts it
in one place out of another (`Moves`); the copies of a doubled command stay on one node
(`Apart`).  That a command goes to one node is `Sessions`
together with the dispatcher's accounts, that it goes there in one message is that
`ByArrival` lists each command once (`Arranged`), unless the node has two subscriptions.  For `NoneForgotten` the invariant is
`Balanced`: while the builder runs, a command is in its table, or being asked for, if
and only if it is somewhere.  It needs `ExistsOnce`: only because there is no second copy
is a command gone from the channels when its answer has been read.

### `JobLife.tla`, `JobLifecycle.tla`, `MCJobLifecycle.tla`

`JobLifecycle` is the life of a job across the processes that share its row: the RPC
workers, the main process, a builder per job, the clients that commit.  Each of them
writes the whole row from a copy it read earlier, so a write can undo another; which does
is the subject.

| action | code |
|---|---|
| `AddJob`, `QueueJob`, `JobQueued` | the three transactions of the RPC `buildTroves`; the third writes over what the job has become since the second |
| `RequestStop`, `CheckDelete`, `DeleteJob` | `stopJob` and `deleteJobs` of `rMakeServer` |
| `LoopStartsJob`, `HearQueued` (`StartJob`) | `_serveLoopHook`, the event handler, `startJob` with `popJobFromQueue` and the fork |
| `CollectChild` (`PidDied`) | `_collectChildren`, `_pidDied` |
| `HearStop`, `KillStopped`, `KillHarder`, `FinishStop` | `stopJob` of the daemon: the copy is read, the builder killed while a hook serves messages (further stops among them, hence the stack `frames`), the copy marked |
| `Halt`, `TermChild`, `ReapChild`, `Exit` | SIGTERM, `_killAllPids`, also after an exception has left the main loop (`Raise`) |
| `Crash`, `Boot`, `Drain`, `Sweep` | the machine stops; `_postStartupTasks` |
| `BuilderStarts` to `BuilderExits`, `Signalled`, `BuilderDies` | `Builder.buildAndExit` |
| `TakesChroot`, `TroveEnds` | the events of a trove's worker: `trovePreparingChroot` and `troveBuilding`, which make the row of a chroot and set it active, and `updateTroveStatus`, which ends that |
| `ChooseJobs`, `StartCommit`, `CommitFails`, `CommitSucceeds`, `CommitLost` | `rMakeHelper.commitJobs` and its RPCs |

A chroot is in four variables.  `owner` is the job whose trove made its row, `active` is
the flag of the row, `using` is what the database knows of the started troves of a job,
and `held` what the builder of the job knows, which may have a chroot that it has yet to
record.  Whoever fails a job gives up the chroots of the copy it works from (`FailFrom`): the
builder those of `held`, the main process those it reads then, a stop those it read before it
killed the builder.  `EmptySlots` counts as `getEmptySlots` does, by `owner`.

`JobLife` is what all this promises about the custody of a job: filed in the order of the
numbers, queued once, taken from the queue in that order, given to one builder, then over.
`ImplementsJobLife` is its specification under the mapping `LifeOf`, which reads the stage
from the queue, the RPC and the builder and never from the row, since the row may lie.

What the run `jobs` shows, and the exceptions it needed, each of which the code really has:

* `FinishedStays` holds only once nothing that started before is under way.  A stop that
  waits for a builder, the last write of `buildTroves` and a commit all overwrite a final
  state.
* `BuildingHasKeeper` and `QueuedJobsEnd` except a kind of job: a builder whose load command went
  away fails its job and goes on (`builder.py:187`).  A stop that reads the job while it is
  marked failed kills the builder, takes the copy for finished, and leaves what the builder
  wrote last; if that was the building state, the job takes a slot until the server is
  started again.
* `ChrootsHaveKeeper`: an active chroot takes a slot and cannot be deleted.  It may stay active
  when its job is over in four cases: the job was stopped, and the chroot set active after the
  stop had read the job; the last write of `buildTroves` calls the job queued, so that nobody
  fails it; the job was deleted; its builder outlived the main process that forked it.  The
  leak lasts until a trove that takes the same path ends, or the server is started again.  A job that
  leaks n chroots and builds no more keeps n slots, if those chroots have rows of its own; while it
  still counts as building it would have had one of them anyway.
* `StartsWithinSlots` holds while every chroot of a job that builds is active and has a row
  made by that job (`Attributed`).  Without this condition it is false, the finding of the run
  `jobs_slots`: a chroot in a row of another job, or of none, is counted for the wrong
  job, and a builder is started though no slot is empty.
* `QueuedJobsEnd` has as antecedents what the code does not ensure: that leaks of either kind
  do not last, and that no builder loads or builds for ever.
* `FailsOnlyByDeletion`: deleting a queued or loading job makes `getJob` raise in the main
  loop, which shuts the server down; nothing else does.
* `CommittingHasClient`: of several jobs committed together, one that was committed before
  is set to committing and never back.
* No run, but part of the model: `jobCommitFailed` (`buildjob.py:484`) sets a job that had
  failed before to failed, "revert to its failed state", and then, without a return, to built.

The instance has two jobs, two chroots and two clients, with one slot, so that one job waits
for the other, or two, so that both build and one of them has a chroot more than its slot.
`Allowance` is a set of scenarios, each a bound for every kind of request, fault and work;
a behaviour is free to use less, in any order.  `row` bounds the chroots that have a row from
before, of a job of an earlier server or of none.  One of each kind of fault beside two jobs,
or two kinds beside one job, are the combinations in which actors meet in pairs; the
commits have a scenario with two clients, a crash and a deletion over jobs an earlier
server built.

Left out: a builder that survives SIGKILL, a daemon that dies alone and leaves builders on
the old bus, nodes that come and go while slots are counted, the rows of chroots that are
deleted, archived or reported by a node that registers again (`ChrootQueue` has those), one RPC that deletes several
jobs, and the critical children of the daemon, whose death is a `Halt`.

### `ChrootQueue.tla`, `MCChrootQueue.tla`

The chroots of one node and the server's table of them.

| action | code |
|---|---|
| `Reserve`, `ForkFails` (`RequestSlot`) | `isReady` of a build command, `ChrootQueue.requestSlot`, the fork |
| `Make` | `rMakeChrootServer.create`: the old root is moved or cleaned, which may fail, and the new one is made |
| `Cook`, `Killed`, `Collect` | the build, its end in any way, `Worker._pidDied` |
| `OpenSession`, `CloseSession` | `startSession` in an existing chroot, whose end gives that chroot up whoever holds it |
| `HearChroot`, `HearEnd` | `trovePreparingChroot` and `updateTroveStatus` of the database, at any later time; the trove may also be failed while its command runs, when its job is stopped (`builder.py:129`), raises (`builder.py:146`) or loses its builder (`daemon.py:319`, `daemon.py:560`) |
| `CheckIdle`, `NodeRemoves`, `ForgetRow` | `deleteChroot`, `archiveChroot` and each turn of `deleteAllChroots`: a look at the table, the node's work, the row |
| `ListChroots`, `PruneRows` | `listChroots`, which removes rows of chroots that are gone |

A command is forked with a copy of the queue.  What the child does to its copy (giving up
the old root, marking a chroot as bad) is lost, so an old root that was given away stays
reserved in the parent until its path is used again; that is why `reserved` never shrinks
in `Make`.  A chroot that could not be removed is therefore never taken again either, but
for another reason than the comment of `markBadChroot` says.

Which old chroot is the oldest or the best match is left open, the lock files are the
sessions that hold them, and the databases of old chroots can be read.

What the run `chroots` shows: no two commands share a root or are given the same old root,
the limit of the queue holds for commands and, with one more for each command that left its
old root behind, for directories; a deletion does not pass its check on the chroot
of a running command whose trove the server counts as being built, unless it has heard of
the end of another command that had the path; every command ends, unless commands that were never
forked have kept their roots and used up the limit.  Sharing and the limit hold until a
root is taken from its command, by the end of a session in it or by a deletion (`robbed`) whose
check was made too early, or when the server had failed the trove but the node had not
stopped its command: both call `chrootFinished` with a path that somebody else may hold, and
from then on nothing is promised.

The instance: a limit of two, three commands (two build the same trove, so that they want
the same path), casts of a few participants each (`MCCasts`).  `Left` are
the sets of chroots that the node's last run may have left, one of them more than the limit
(`found` remembers how many).  `MaxCount` bounds the number appended to a name; two commands of one name and a chroot left behind need three
paths.  Each session, deletion, archiving and listing has one turn.

### `ChrootQueueProofs.tla`, `JobLifecycleProofs.tla`, `Sums.tla`

`ChrootQueueProofs` proves the type invariant, `RootsExclusive`, `LimitKept` and `InUseStays`.
Its invariant says, for as long as nothing was robbed (`OwnRoots`): the root of a live
command is held and not leaked, held by it alone, and not yet a directory while it is only
reserved; an old root given away is a directory, reserved, and given to one command.  The
limit on directories is a matter of counting (`DirsCounted`): a directory is held, or about
to be reused or removed (`PendingOld`), or was `Abandoned`, and there are no more abandoned ones
than commands that did not deal with their old root (`spared`).  Each request then takes one
of the held places and each `Make` trades one directory for another, which the lemmas
`Apart`, `Swapped` and `OneMore` about finite cardinality say.

`JobLifecycleProofs` proves the type invariant, `BuildingHasKeeper`, `StopSticks`,
`FailsOnlyByDeletion`, `CommittingHasClient`, `FinishedStays`, `ChrootsHaveKeeper`,
`StartsWithinSlots`, and that
`JobLifecycle` implements `JobLife` step by step.  The invariant has a part for each pair of actors that share a job: what
RPC, queue, row and builder tell of each other (`Custody`), which builders the main process
knows and which its nested stops wait for (`Children`, `Frames`), what a stop that overtakes
the builder finds (`Stops`), and when a job that reads as done may still have a busy builder
(`DoneJobs`: never, unless the builder went on after a failure or the main process has lost
it).  Two exceptions of the properties come from this proof and not from TLC: `orphans`
above, and that `Halted` must allow for a builder that was over but not reaped when the stop
read the job.

`ChrootsHaveKeeper` has an invariant of its own on top (`Chroots`).  For a job that was not stopped,
deleted or left behind (`Free`), what the builder holds is in the database as well, and while it
holds anything the row says building or queued and no client has the job in a commit (`Holds`),
so that whoever reaps the builder fails the job and with it exactly these chroots; and every
active chroot is held by a job that is not free, has a builder, or reads as queued (`Keepers`).

`StartsWithinSlots` compares two sums: `getEmptySlots` adds the chroots of all jobs that
have any to the number of jobs that build and takes off the number of those with chroots,
while the property gives each building job one slot or as many as it has chroots.
`TakenBelow` shows that the first is never less if the chroots are `Attributed`.  It rests on `Sums`, which proves
that the library's `SumFunctionOnSet` is what it says: the recursive function in it exists for
every finite set, and the sum may take the elements in any order (`SumTakesAny`).  The
induction theorems of the library cannot be used here, since they take an operator; each
induction is an argument from a smallest counterexample (`SmallestSet`).

## Runs

| run | specification | question |
|---|---|---|
| `dispatcher` | `Spec` of `Dispatcher` | do the accounts survive every order of messages, and is no node idle or overcommitted |
| `dephandler` | `Spec` of `DepHandler` | are troves built in order, failures propagated exactly, cycles broken one at a time, old binaries reused only while current |
| `dephandler_live` | `FairSpec` of `DepHandler` | does every job end |
| `dephandler_stall` | `Spec` of `DepHandler` | is there always a next step (violated) |
| `dephandler_delayed` | `Spec` of `DepHandler` | does a delayed trove wait for the builds it was told to wait for (violated) |
| `multinode` | `SystemSpec` of `Multinode` | is a command ever duplicated, forgotten or charged without reason |
| `multinode_live` | `FairSystemSpec` of `Multinode` | is each command answered, each slot given back, each node back in service |
| `multinode_erred` | `SystemSpec` of `Multinode` | is a command that was reported as errored done with (violated) |
| `multinode_stop` | `SystemSpec` of `Multinode` | does a stopped job leave nothing to build (violated) |
| `jobs` | `FairSpec` of `JobLifecycle` | is every job started once, within the slots, and ended once, whatever is stopped, deleted, committed, killed or crashes |
| `jobs_slots` | `LifecycleSpec` of `JobLifecycle` | is a job started only when a slot is empty (violated) |
| `chroots` | `ChrootFairSpec` of `ChrootQueue` | are chroots shared, leaked, deleted in use or more than the limit, and does every command end |

Deadlock is not checked where the system may stop: a dispatcher that crashed, a job that is
finished.

Fairness.  `FairSystemSpec` of `Multinode` assumes that the serve loops of bus, dispatcher,
builder and nodes go on, that the bus notices a dead connection, that heartbeats are sent,
and that a build ends (the code sets no limit to it, so this is an assumption on builds).
Weak fairness is enough, since nothing else disables these steps for good.  `FairSpec` of
`DepHandler` assumes that the loop of `build()` goes on (it is the builder's only
thread, and nothing in a turn blocks) and that every command sent is answered in the end:
the worker's `_runCommand` sends a status and an event on every path, exceptions included,
as long as the node lives.  It assumes nothing of the order or the outcome.
`FairSpec` of `JobLifecycle` assumes that the main process goes on and is started again
when it is down (by init, or by hand), and that builders are scheduled
and react to SIGTERM.  That a load command or a build ends is not assumed of every
builder: `QueuedJobsEnd` has it as an antecedent, since `dephandler_stall` shows a builder that
never ends.  The ends of builds, requests, deaths and crashes are not fair.  `ChrootFairSpec` of
`ChrootQueue` assumes that the node's loop goes on and that a command makes its root,
builds and is reaped; clients and sessions do as they please, so a session may hold its
lock for ever.

## Proofs

Proved with TLAPS, for every value of the constants that their named assumptions allow:

| module | what | rests on |
|---|---|---|
| `DispatcherProofs` | all safety properties of the dispatcher | `IInv`, `DispatcherAssumption` |
| `MultinodeProofs` | the type invariant of the multinode system, and that no node is overcommitted in it | `SystemInv`, `MultinodeAssumption` |
| `MultinodePlaces` | all other safety invariants of the system: `ExistsOnce`, `NoneForgotten`, `ChargesAreReal` | `SystemInv`, `AllSingle`, `Balanced` |
| `DepHandlerProofs` | all safety properties of the dependency handler | `DepInv`, the lemmas of `DepHandlerGraphs`, `DepHandlerAssumption` |
| `JobLifecycleProofs` | all safety properties of jobs, and that they implement `JobLife` | `Invariant`, `Chroots`, `Sums`, `JobAssumption` |
| `ChrootQueueProofs` | all safety properties of chroots | `Invariant`, `ChrootAssumption` |

Each module begins with its inductive invariant, part by part; a lemma for each part and each
kind of step follows, then the theorems.  So every safety property that a passing run checks
is also proved.  Model-checked only: the liveness properties, and with them the fairness
and ENABLED, which are out of the prover's reach, and the runs that end in a violation.

## Plan

Modules still to write: the corked publisher and the order in which the subscribers of an event hear of it;
the cache of resolver results in `DepHandler`; the pending sessions
of the message bus and the connections of the builder and of the dispatcher.

## Not modelled

The message bus encoding, the RPC layers, the command line other than commits,
configuration, plugins, recipe and flavor utilities and the resolver are data handling
without interleavings, or code that calls conary; `PROJECT.json` lists each with the reason.
The tests and the test harness are no part of the system.
