---------------------------- MODULE JobLifecycle ----------------------------
(***************************************************************************)
(* The life of a job on an rMake server, across the processes that share   *)
(* its row in the database:                                                *)
(*   - the RPC workers (rmake/server/server.py), which file, queue, stop,  *)
(*     delete and commit jobs for clients;                                 *)
(*   - the main process (rmake/server/daemon.py), which takes jobs from    *)
(*     the queue, forks a builder for each, reaps and stops builders, and  *)
(*     puts things in order when it is started;                            *)
(*   - the builder processes (rmake/build/builder.py);                     *)
(*   - the clients that commit finished jobs (rmake/cmdline/helper.py).    *)
(*                                                                         *)
(* Every process writes the job's whole row from a copy it read earlier,   *)
(* so the order of the writes is what matters here.  A job is named by its *)
(* number.  What a builder does to build its troves is in DepHandler and   *)
(* Multinode; here a trove only takes and leaves a chroot.                 *)
(***************************************************************************)
EXTENDS Integers, Sequences, FiniteSets, FiniteSetsExt

CONSTANTS
    Job,        \* numbers of jobs
    Client,     \* clients, each of which commits some jobs once
    Path,       \* chroots: a node and a path there
    NoJob,      \* the owner of a chroot that a node brought with it
    NoRow,      \* for a chroot that has no row
    Event,      \* the kinds of requests, faults, work and resources that are bounded
    Allowance   \* bound: how much of each kind there may be, one of these functions

ASSUME JobAssumption ==
    /\ Job \subseteq Nat /\ IsFiniteSet(Job)
    /\ IsFiniteSet(Client)
    /\ IsFiniteSet(Path)
    /\ NoJob \notin Job /\ NoRow \notin Job \cup {NoJob}
    /\ {"slot", "row", "job", "trove", "commit", "stop", "delete", "crash", "halt", "death",
         "noFork"} \subseteq Event
    /\ Allowance \subseteq [Event -> Nat]

VARIABLES
    row,       \* Jobs.state of each job, "none" without a row
    queue,     \* the table JobQueue
    owner,     \* Chroots.troveId: the job whose trove made the row of a chroot
    active,    \* Chroots.active: the chroots whose row says so
    using,     \* chroots of the started troves of each job, in the database
    held,      \* the same in the builder of the job: taken, and not yet recorded as left
    call,      \* where the RPC buildTroves of each job has got to
    deleting,  \* jobs an RPC has found deletable and is about to delete
    commit,    \* each client's commit
    inbox,     \* messages on the bus for the main process
    daemon,    \* phase of the main process
    frames,    \* its calls of stopJob that wait for a builder to die
    kids,      \* jobs whose builder is in its _pids
    pids,      \* jobs whose builder is in its buildPids
    doomed,    \* the kids _killAllPids goes through
    builder,   \* phase of each job's builder process
    built,     \* jobs with a built trove
    termed,    \* builders that got SIGTERM and have not handled it
    wentOn,    \* builders that went on after their job had failed to load
    stopped,   \* history: jobs stopJob has dealt with
    deleted,   \* history: jobs that were deleted
    orphans,   \* history: jobs whose builder the main process has left behind
    allowed    \* how much there may still be of each kind of event

rpcVars == <<call, deleting, commit>>
daemonVars == <<inbox, daemon, frames, kids, pids, doomed, stopped, orphans>>
builderVars == <<builder, built, termed, wentOn>>
chroots == <<owner, active, using, held>>
vars == <<row, queue, chroots, deleted, allowed, rpcVars, daemonVars, builderVars>>

-----------------------------------------------------------------------------
(* States of a job.                                                        *)

State == {"none", "init", "queued", "started", "loading", "loaded", "build",
          "failed", "built", "committing", "committed"}
Active == {"build", "queued", "started", "loading", "loaded"}  \* ACTIVE_STATES
Building == {"started", "build"}                               \* isBuilding
Running == {"loading", "loaded", "started", "build"}           \* isRunning
Finished == {"failed", "built", "committed"}                   \* isFinished

Exists(j) == row[j] # "none"

\* updateJob: an UPDATE of rows that are gone changes nothing.
WriteAll(J, s) ==
    row' = [j \in Job |-> IF j \in J /\ Exists(j) THEN s ELSE row[j]]
Write(j, s) == WriteAll({j}, s) /\ UNCHANGED chroots

\* jobFailed fails those troves too that are started in the caller's copy of the
\* job, and the chroots known to the copy are no longer active.  A trove that was
\* started but had no chroot in the copy loses the chroot it has got since; one
\* that was not yet started keeps it.  Without the job's row it is an error.
FailFrom(J, known) ==
    LET G == {j \in J : Exists(j)}
    IN  /\ WriteAll(J, "failed")
        /\ active' = active \ UNION {known[j] : j \in G}
        /\ \E kept \in SUBSET UNION {using[j] \ known[j] : j \in G} :
              using' = [j \in Job |-> IF j \in G THEN (using[j] \ known[j]) \cap kept
                                                  ELSE using[j]]
        /\ UNCHANGED owner

\* Mutant: the troves are left as they are.
FailJobsOnly(J, known) == WriteAll(J, "failed") /\ UNCHANGED chroots

\* The main process fails jobs, and a builder its own.
Fail(J, known) == FailFrom(J, known) /\ UNCHANGED held
FailOwn(j) ==
    /\ FailFrom({j}, held)
    /\ held' = IF Exists(j) THEN [held EXCEPT ![j] = {}] ELSE held

Spend(e) == allowed[e] > 0 /\ allowed' = [allowed EXCEPT ![e] = @ - 1]

Alive(j) == builder[j] \in {"forked", "started", "loading", "loaded", "building", "ended"}
Zombie(j) == builder[j] \in {"exit0", "killed"}

-----------------------------------------------------------------------------
(* The slots.                                                              *)

\* The slots of the active nodes together.
NodeSlots == allowed["slot"]

\* Mutant: the jobs that build without a chroot are not counted.
EmptySlotsByChroots ==
    Max({0, Max({NodeSlots, 1}) - Cardinality(active)})

\* The active chroots that getEmptySlots finds for job j: those whose row its
\* troves made, whoever uses them now.
Counted(j) == Cardinality({p \in active : owner[p] = j})

\* getEmptySlots.  A job with active chroots takes that many slots, a job that
\* is building without any takes one.
EmptySlots ==
    LET total == Max({NodeSlots, 1})
        current == Cardinality({j \in Job : row[j] \in Building})
        seen == {j \in Job : Exists(j) /\ Counted(j) > 0}
        used == SumFunctionOnSet([j \in Job |-> Counted(j)], seen) + current - Cardinality(seen)
    IN  IF total < current THEN 0 ELSE Max({total - used, 0})

-----------------------------------------------------------------------------
(* The main process.                                                       *)

\* An exception leaves the main loop: the server shuts down, and gives up even
\* that when it happens once more.
Raise(ks) ==
    /\ frames' = <<>>
    /\ IF daemon = "up"
       THEN daemon' = "failing" /\ doomed' = ks /\ kids' = ks /\ UNCHANGED orphans
       ELSE daemon' = "down" /\ doomed' = {} /\ kids' = {} /\ orphans' = orphans \cup ks

Calm(ks, ps) == kids' = ks /\ pids' = ps /\ UNCHANGED <<daemon, frames, doomed, orphans>>

\* popJobFromQueue takes the job with the smallest number.
LastJob == Max(queue)  \* mutant: the largest
NextJob == Min(queue)

\* startJob, with bs, ks and ps for builder, kids and pids: take the first job
\* of the queue and fork its builder, if a slot is empty; a job that is in skip
\* is dropped.
StartUnless(skip, bs, ks, ps) ==
    IF queue = {} \/ EmptySlots = 0
    THEN builder' = bs /\ Calm(ks, ps) /\ UNCHANGED <<queue, row, chroots, allowed>>
    ELSE LET j == NextJob IN
         /\ queue' = queue \ {j}
         /\ \/ /\ ~Exists(j)       \* popJobFromQueue raises JobNotFound
               /\ builder' = bs /\ pids' = ps /\ Raise(ks)
               /\ UNCHANGED <<row, chroots, allowed>>
            \/ /\ row[j] \in skip
               /\ builder' = bs /\ Calm(ks, ps)
               /\ UNCHANGED <<row, chroots, allowed>>
            \/ /\ Exists(j) /\ row[j] \notin skip
               /\ builder' = [bs EXCEPT ![j] = "forked"]
               /\ Calm(ks \cup {j}, ps \cup {j})
               /\ UNCHANGED <<row, chroots, allowed>>
            \/ /\ Exists(j) /\ row[j] \notin skip    \* the fork fails
               /\ Spend("noFork")
               /\ Fail({j}, using)
               /\ builder' = bs /\ Calm(ks, ps)

\* Mutant: a job that was stopped while queued is started.
StartAnyJob(bs, ks, ps) == StartUnless({}, bs, ks, ps)

StartJob(bs, ks, ps) == StartUnless({"failed"}, bs, ks, ps)

Listening == daemon = "up" /\ (frames # <<>> => Head(frames).killed)

\* Mutant: jobs are started on events only.
LoopStartsNone ==
    /\ FALSE
    /\ UNCHANGED vars

LoopStartsJob ==
    /\ daemon = "up" /\ frames = <<>>
    /\ queue # {} /\ EmptySlots > 0
    /\ StartJob(builder, kids, pids)
    /\ UNCHANGED <<rpcVars, inbox, stopped, built, termed, wentOn, deleted>>

\* The event that a job is queued; while a builder is being killed it is heard
\* from inside stopJob.
HearQueued ==
    /\ Listening
    /\ inbox # <<>> /\ Head(inbox).kind = "queued"
    /\ inbox' = Tail(inbox)
    /\ StartJob(builder, kids, pids)
    /\ UNCHANGED <<rpcVars, stopped, built, termed, wentOn, deleted>>

\* _pidDied of a builder while the server is not halting: after a good end
\* start the next job, after a bad one fail the job if it is in bad.
Reaped(j, ks, ps, bad) ==
    LET bs == [builder EXCEPT ![j] = "gone"] IN
    IF j \in pids /\ builder[j] = "exit0"
    THEN StartJob(bs, ks, ps)
    ELSE /\ builder' = bs
         /\ UNCHANGED <<queue, allowed>>
         /\ IF j \in pids /\ ~Exists(j)
            THEN pids' = ps /\ Raise(ks) /\ UNCHANGED <<row, chroots>>  \* JobNotFound
            ELSE /\ Calm(ks, ps)
                 /\ IF j \in pids /\ row[j] \in bad
                    THEN Fail({j}, using) ELSE UNCHANGED <<row, chroots>>

\* Mutants: the parent fails the job whatever its state, or never.
AnyPidDied(j, ks, ps) == Reaped(j, ks, ps, State)
PidForgotten(j, ks, ps) == Reaped(j, ks, ps, {})

PidDied(j, ks, ps) == Reaped(j, ks, ps, Building)

CollectChild(j) ==
    /\ daemon = "up" /\ frames = <<>>
    /\ j \in kids /\ Zombie(j)
    /\ PidDied(j, kids \ {j}, pids \ {j})
    /\ UNCHANGED <<rpcVars, inbox, stopped, built, termed, wentOn, deleted>>

\* The copy of the job that stopJob reads: its state and its troves' chroots.
Copy(j) == [state |-> row[j], chroots |-> using[j]]

\* stopJob fails the job of the copy unless that is finished or committing.
MarkStopped(j, copy) ==
    /\ stopped' = stopped \cup {j}
    /\ IF copy.state \in Finished \cup {"committing"}
       THEN UNCHANGED <<row, chroots>>
       ELSE Fail({j}, [k \in Job |-> copy.chroots])

\* stopJob: read the job, and forget its builder before killing it.
HearStop ==
    /\ Listening
    /\ inbox # <<>> /\ Head(inbox).kind = "stop"
    /\ inbox' = Tail(inbox)
    /\ LET j == Head(inbox).job IN
       \/ /\ ~Exists(j)                          \* getJob raises JobNotFound
          /\ Raise(kids)
          /\ UNCHANGED <<pids, row, chroots, stopped>>
       \/ /\ Exists(j) /\ j \in pids
          /\ pids' = pids \ {j}
          /\ frames' = <<[job |-> j, copy |-> Copy(j), killed |-> FALSE]>> \o frames
          /\ UNCHANGED <<daemon, doomed, kids, orphans, row, chroots, stopped>>
       \/ /\ Exists(j) /\ j \notin pids
          /\ MarkStopped(j, Copy(j))
          /\ UNCHANGED <<daemon, doomed, kids, orphans, pids, frames>>
    /\ UNCHANGED <<rpcVars, builderVars, queue, deleted, allowed>>

\* _killPid: SIGTERM; the hook serves messages until the builder is dead.
KillStopped ==
    /\ daemon = "up" /\ frames # <<>> /\ ~Head(frames).killed
    /\ frames' = [frames EXCEPT ![1].killed = TRUE]
    /\ LET j == Head(frames).job IN
       termed' = IF Alive(j) THEN termed \cup {j} ELSE termed
    /\ UNCHANGED <<row, queue, chroots, rpcVars, inbox, daemon, kids, orphans, pids, doomed,
                   stopped, builder, built, wentOn, deleted, allowed>>

\* After twenty seconds, SIGKILL.
KillHarder(j) ==
    /\ Alive(j) /\ j \in termed
    /\ \/ frames # <<>> /\ Head(frames).job = j
       \/ j \in doomed
    /\ Spend("death")
    /\ builder' = [builder EXCEPT ![j] = "killed"]
    /\ termed' = termed \ {j}
    /\ UNCHANGED <<row, queue, chroots, rpcVars, daemonVars, built, wentOn, deleted>>

\* Mutant: the builder stays in _pids.
CollectOnly(j) ==
    Zombie(j) /\ builder' = [builder EXCEPT ![j] = "gone"] /\ UNCHANGED kids

Collect(j) ==
    Zombie(j) /\ builder' = [builder EXCEPT ![j] = "gone"] /\ kids' = kids \ {j}

\* The builder is dead: stopJob goes on with its copy of the job.
FinishStop ==
    /\ daemon = "up" /\ frames # <<>> /\ Head(frames).killed
    /\ Collect(Head(frames).job)
    /\ MarkStopped(Head(frames).job, Head(frames).copy)
    /\ frames' = Tail(frames)
    /\ UNCHANGED <<queue, rpcVars, inbox, daemon, pids, doomed, orphans, built, termed,
                   wentOn, deleted, allowed>>

-----------------------------------------------------------------------------
(* Shutting down, crashing and starting.                                   *)

\* SIGTERM to the main process.
Halt ==
    /\ daemon = "up" /\ frames = <<>>
    /\ Spend("halt")
    /\ daemon' = "halting" /\ doomed' = kids
    /\ UNCHANGED <<row, queue, chroots, rpcVars, inbox, frames, kids, orphans, pids, stopped,
                   builderVars, deleted>>

\* _killAllPids, one process after the other.
TermChild(j) ==
    /\ daemon \in {"halting", "failing"}
    /\ j \in doomed \cap kids /\ Alive(j) /\ j \notin termed
    /\ termed' = termed \cup {j}
    /\ UNCHANGED <<row, queue, chroots, rpcVars, daemonVars, builder, built,
                   wentOn, deleted, allowed>>

\* A builder that dies while the server halts is nobody's business; after an
\* exception it is handled as usual.
ReapChild(j) ==
    /\ daemon \in {"halting", "failing"}
    /\ j \in doomed \cap kids /\ Zombie(j)
    /\ IF daemon = "failing"
       THEN PidDied(j, kids \ {j}, pids \ {j})
       ELSE /\ builder' = [builder EXCEPT ![j] = "gone"]
            /\ Calm(kids \ {j}, pids \ {j})
            /\ UNCHANGED <<queue, row, chroots, allowed>>
    /\ UNCHANGED <<rpcVars, inbox, stopped, built, termed, wentOn, deleted>>

\* A builder that was forked since _killAllPids began is left behind.
Exit ==
    /\ daemon \in {"halting", "failing"} /\ doomed \cap kids = {}
    /\ daemon' = "down"
    /\ kids' = {} /\ doomed' = {} /\ orphans' = orphans \cup kids
    /\ UNCHANGED <<row, queue, chroots, rpcVars, inbox, frames, pids, stopped,
                   builderVars, deleted, allowed>>

\* The machine stops.
Crash ==
    /\ Spend("crash")
    /\ daemon' = "down"
    /\ kids' = {} /\ doomed' = {} /\ frames' = <<>> /\ termed' = {}
    /\ builder' = [j \in Job |-> IF builder[j] = "none" THEN "none" ELSE "gone"]
    /\ UNCHANGED <<row, queue, chroots, rpcVars, inbox, pids, stopped, built, wentOn,
                   deleted, orphans>>

\* The server is started: a new bus, a new database connection that
\* deactivates all nodes, and new RPC workers that know of no call.
Boot ==
    /\ daemon = "down"
    /\ daemon' = "starting"
    /\ active' = {}
    /\ pids' = {} /\ inbox' = <<>> /\ deleting' = {}
    /\ call' = [j \in Job |-> IF call[j] \in {"filed", "queued"} THEN "cut" ELSE call[j]]
    /\ UNCHANGED <<row, queue, owner, using, held, commit, frames, kids, orphans, doomed,
                   stopped, builderVars, deleted, allowed>>

\* _postStartupTasks: fail every job of the queue, ...
Drain ==
    /\ daemon = "starting" /\ queue # {}
    /\ LET j == NextJob IN
       /\ queue' = queue \ {j}
       /\ IF Exists(j)
          THEN Fail({j}, using) /\ UNCHANGED daemon
          ELSE daemon' = "down" /\ UNCHANGED <<row, chroots>>
    /\ UNCHANGED <<rpcVars, inbox, frames, kids, orphans, pids, doomed, stopped, builderVars,
                   deleted, allowed>>

\* ... then every job that seems active.
Sweep ==
    /\ daemon = "starting" /\ queue = {}
    /\ Fail({j \in Job : row[j] \in Active}, using)
    /\ daemon' = "up"
    /\ UNCHANGED <<queue, rpcVars, inbox, frames, kids, orphans, pids, doomed, stopped,
                   builderVars, deleted, allowed>>

-----------------------------------------------------------------------------
(* The builder process of job j.                                           *)

\* Outside these actions a builder that got SIGTERM only handles it.
Step(j, from, to) ==
    /\ builder[j] = from /\ j \notin termed
    /\ builder' = [builder EXCEPT ![j] = to]
    /\ UNCHANGED <<queue, rpcVars, daemonVars, termed, deleted>>

BuilderStarts(j) ==
    /\ Step(j, "forked", "started") /\ Write(j, "started")
    /\ UNCHANGED <<built, wentOn, allowed>>

\* The Builder cannot be made, and its name is unbound where the exception is
\* handled; or it is made and cannot be attached, and the job is failed.
BuilderNotMade(j) ==
    /\ Spend("death")
    /\ Step(j, "forked", "killed") /\ UNCHANGED <<built, wentOn>>
    /\ FailOwn(j) \/ UNCHANGED <<row, chroots>>

Loads(j) ==
    /\ Step(j, "started", "loading") /\ Write(j, "loading")
    /\ UNCHANGED <<built, wentOn, allowed>>

\* The troves are loaded, or not, or the command ended without an answer: then
\* the job fails and yet goes on.
LoadEnds(j) ==
    /\ UNCHANGED <<built, allowed>>
    /\ \/ Step(j, "loading", "loaded") /\ Write(j, "loaded") /\ UNCHANGED wentOn
       \/ Step(j, "loading", "ended") /\ FailOwn(j) /\ UNCHANGED wentOn
       \/ Step(j, "loading", "loaded") /\ FailOwn(j) /\ wentOn' = wentOn \cup {j}

\* The checks of the troves pass or fail; without loadable troves they follow
\* the start at once.
Builds(j) ==
    /\ UNCHANGED <<built, wentOn, allowed>>
    /\ \E from \in {"started", "loaded"} :
       \/ Step(j, from, "building") /\ Write(j, "build")
       \/ Step(j, from, "ended") /\ FailOwn(j)

\* creatingChroot and troveBuilding make the row of a chroot if it has none, and
\* set it active.
Activate(j, p) ==
    /\ owner' = IF owner[p] = NoRow THEN [owner EXCEPT ![p] = j] ELSE owner
    /\ active' = active \cup {p}
    /\ using' = [using EXCEPT ![j] = @ \cup {p}]
    /\ held' = [held EXCEPT ![j] = @ \cup {p}]

\* The events of the worker that builds a trove; for a job without a row they
\* cannot be recorded, which BuilderRaises covers.  Another job may still hold the
\* chroot, if its builder has yet to hear of the end of the trove there.
TakesChroot(j) ==
    /\ Step(j, "building", "building")
    /\ Exists(j)
    /\ \E p \in Path :
          /\ IF p \in held[j] THEN UNCHANGED allowed ELSE Spend("trove")
          /\ Activate(j, p)
    /\ UNCHANGED <<row, built, wentOn>>

\* updateTroveStatus of a trove that is finished.
TroveEnds(j) ==
    /\ Step(j, "building", "building")
    /\ Exists(j)
    /\ \E p \in held[j] :
          /\ active' = active \ {p}
          /\ using' = [using EXCEPT ![j] = @ \ {p}]
          /\ held' = [held EXCEPT ![j] = @ \ {p}]
    /\ built' \in {built, built \cup {j}}
    /\ UNCHANGED <<row, owner, wentOn, allowed>>

BuildEnds(j) ==
    /\ Step(j, "building", "ended")
    /\ held[j] = {}
    /\ Write(j, "built") \/ FailOwn(j)
    /\ UNCHANGED <<built, wentOn, allowed>>

\* An exception, also in telling the bus of the result.
BuilderRaises(j) ==
    /\ \E from \in {"started", "loading", "loaded", "building", "ended"} :
          Step(j, from, "ended")
    /\ Spend("death")
    /\ FailOwn(j)
    /\ UNCHANGED <<built, wentOn>>

BuilderExits(j) ==
    /\ Step(j, "ended", "exit0")
    /\ UNCHANGED <<row, chroots, built, wentOn, allowed>>

\* The handler of SIGTERM fails the job; not if it came too early, or
\* interrupted the publication of another event.
Signalled(j) ==
    /\ Alive(j) /\ j \in termed
    /\ builder' = [builder EXCEPT ![j] = "killed"]
    /\ termed' = termed \ {j}
    /\ \/ builder[j] # "forked" /\ FailOwn(j)
       \/ UNCHANGED <<row, chroots>>
    /\ UNCHANGED <<queue, rpcVars, daemonVars, built, wentOn, deleted, allowed>>

\* The process is killed, or an exception leaves its last handler.
BuilderDies(j) ==
    /\ Alive(j)
    /\ Spend("death")
    /\ builder' = [builder EXCEPT ![j] = "killed"]
    /\ termed' = termed \ {j}
    /\ UNCHANGED <<row, queue, chroots, rpcVars, daemonVars, built, wentOn, deleted>>

-----------------------------------------------------------------------------
(* The RPC workers.                                                        *)

RpcUp == daemon \notin {"down", "starting"}

File(j, s) ==
    /\ call' = [call EXCEPT ![j] = "filed"]
    /\ row' = [row EXCEPT ![j] = s]

\* Mutant: the row is not committed.
FileUnsaved(j) == File(j, "none")
FileSaved(j) == File(j, "init")

\* buildTroves: addJob, ...
AddJob(j) ==
    /\ RpcUp
    /\ call[j] = "none" /\ \A k \in Job : k < j => call[k] # "none"
    /\ Spend("job")
    /\ FileSaved(j)
    /\ UNCHANGED <<queue, chroots, deleting, commit, daemonVars, builderVars, deleted>>

\* ... then queueJob, after which the main process may take the job, ...
QueueJob(j) ==
    /\ RpcUp
    /\ call[j] = "filed"
    /\ call' = [call EXCEPT ![j] = "queued"]
    /\ queue' = queue \cup {j}
    /\ UNCHANGED <<row, chroots, deleting, commit, daemonVars, builderVars, deleted, allowed>>

\* ... then jobQueued, which writes over what the job has become meanwhile.
JobQueued(j) ==
    /\ RpcUp
    /\ call[j] = "queued"
    /\ call' = [call EXCEPT ![j] = "done"]
    /\ Write(j, "queued")
    /\ inbox' = Append(inbox, [kind |-> "queued", job |-> j])
    /\ UNCHANGED <<queue, deleting, commit, daemon, frames, kids, orphans, pids, doomed, stopped,
                   builderVars, deleted, allowed>>

RequestStop(j) ==
    /\ RpcUp
    /\ row[j] \in {"queued"} \cup Running
    /\ Spend("stop")
    /\ inbox' = Append(inbox, [kind |-> "stop", job |-> j])
    /\ UNCHANGED <<row, queue, chroots, rpcVars, daemon, frames, kids, orphans, pids, doomed,
                   stopped, builderVars, deleted>>

\* deleteJobs looks at the job, ...
CheckDelete(j) ==
    /\ RpcUp
    /\ Exists(j) /\ row[j] \notin Building
    /\ Spend("delete")
    /\ deleting' = deleting \cup {j}
    /\ UNCHANGED <<row, queue, chroots, call, commit, daemonVars, builderVars, deleted>>

\* ... then removes it from every table but that of the chroots.
DeleteJob(j) ==
    /\ RpcUp
    /\ j \in deleting
    /\ deleting' = deleting \ {j}
    /\ row' = [row EXCEPT ![j] = "none"]
    /\ queue' = queue \ {j}
    /\ using' = [using EXCEPT ![j] = {}]
    /\ deleted' = deleted \cup {j}
    /\ UNCHANGED <<owner, active, held, call, commit, daemonVars, builderVars, allowed>>

-----------------------------------------------------------------------------
(* A client's commit: helper.commitJobs and the RPCs it calls.             *)

NoCommit == [phase |-> "none", before |-> <<>>]
Batch(c) == DOMAIN commit[c].before
Todo(c) == {j \in Batch(c) : commit[c].before[j] # "committed"}

\* The jobs are read: each must be finished and have something to commit.
ChooseJobs(c) ==
    /\ RpcUp
    /\ commit[c].phase = "none"
    /\ Spend("commit")
    /\ \E J \in SUBSET {j \in built : row[j] \in Finished} :
       /\ \E j \in J : row[j] # "committed"
       /\ commit' = [commit EXCEPT ![c] =
                       [phase |-> "chosen", before |-> [j \in J |-> row[j]]]]
    /\ UNCHANGED <<row, queue, chroots, call, deleting, daemonVars, builderVars, deleted>>

\* One RPC of the client about the jobs J; without their rows it raises.
Rpc(c, from, to, J, s) ==
    /\ RpcUp
    /\ commit[c].phase = from
    /\ IF \A j \in J : Exists(j)
       THEN WriteAll(J, s) /\ commit' = [commit EXCEPT ![c].phase = to]
       ELSE UNCHANGED row /\ commit' = [commit EXCEPT ![c].phase = "lost"]
    /\ UNCHANGED <<queue, chroots, call, deleting, daemonVars, builderVars, deleted, allowed>>

StartCommit(c) == Rpc(c, "chosen", "started", Batch(c), "committing")

\* Mutant: only the jobs that were not committed before are marked failed.
CommitFailsForSome(c) == Rpc(c, "started", "failed", Todo(c), "built")

\* jobCommitFailed: the last state it sets is BUILT, whatever the job was.
CommitFails(c) == Rpc(c, "started", "failed", Batch(c), "built")

\* Only jobs that were not committed before get the new state.
CommitSucceeds(c) == Rpc(c, "started", "done", Todo(c), "committed")

\* The client or its connection dies.
CommitLost(c) ==
    /\ commit[c].phase = "started"
    /\ commit' = [commit EXCEPT ![c].phase = "lost"]
    /\ UNCHANGED <<row, queue, chroots, call, deleting, daemonVars, builderVars, deleted, allowed>>

-----------------------------------------------------------------------------
\* The jobs old were built by an earlier server, and some of the chroots too.
LifecycleInit ==
    \E old \in SUBSET Job :
    /\ \A j, k \in Job : j < k /\ k \in old => j \in old
    /\ row \in [Job -> {"none"} \cup Finished]
    /\ \A j \in Job : Exists(j) <=> j \in old
    /\ queue = {}
    /\ allowed \in Allowance
    /\ owner \in [Path -> old \cup {NoJob, NoRow}]
    /\ Cardinality({p \in Path : owner[p] # NoRow}) <= allowed["row"]
    /\ active = {}
    /\ using = [j \in Job |-> {}] /\ held = using
    /\ call = [j \in Job |-> IF j \in old THEN "done" ELSE "none"]
    /\ deleting = {}
    /\ commit = [c \in Client |-> NoCommit]
    /\ inbox = <<>>
    /\ daemon = "up"
    /\ frames = <<>>
    /\ kids = {} /\ pids = {} /\ doomed = {}
    /\ builder = [j \in Job |-> IF j \in old THEN "gone" ELSE "none"]
    /\ built = old /\ termed = {} /\ wentOn = {} /\ stopped = {} /\ deleted = {}
    /\ orphans = {}

DaemonStep ==
    \/ LoopStartsJob \/ HearQueued \/ HearStop \/ KillStopped \/ FinishStop
    \/ \E j \in Job : CollectChild(j) \/ TermChild(j) \/ ReapChild(j)
    \/ Exit \/ Boot \/ Drain \/ Sweep

BuilderProgress(j) ==
    \/ BuilderStarts(j) \/ Loads(j) \/ Builds(j) \/ BuilderExits(j) \/ Signalled(j)

\* These wait for the nodes, perhaps for ever.
WorkStep(j) == LoadEnds(j) \/ TakesChroot(j) \/ TroveEnds(j) \/ BuildEnds(j)

RpcStep(j) ==
    \/ AddJob(j) \/ QueueJob(j) \/ JobQueued(j)
    \/ RequestStop(j) \/ CheckDelete(j) \/ DeleteJob(j)

CommitStep(c) ==
    \/ ChooseJobs(c) \/ StartCommit(c) \/ CommitFails(c) \/ CommitSucceeds(c)
    \/ CommitLost(c)

LifecycleNext ==
    \/ DaemonStep \/ Halt \/ Crash
    \/ \E j \in Job :
          \/ BuilderProgress(j) \/ WorkStep(j) \/ BuilderNotMade(j) \/ BuilderRaises(j)
          \/ BuilderDies(j) \/ KillHarder(j) \/ RpcStep(j)
    \/ \E c \in Client : CommitStep(c)

LifecycleSpec == LifecycleInit /\ [][LifecycleNext]_vars

\* The server runs or is started again, and builders are scheduled.  The nodes'
\* answers, clients, stops, deletions and faults are not fair.
Fairness ==
    /\ WF_vars(DaemonStep)
    /\ \A j \in Job : WF_vars(BuilderProgress(j))

FairSpec == LifecycleSpec /\ Fairness

-----------------------------------------------------------------------------
(* Properties.                                                             *)

LifecycleTypeOK ==
    /\ row \in [Job -> State]
    /\ queue \subseteq Job
    /\ owner \in [Path -> Job \cup {NoJob, NoRow}]
    /\ active \subseteq {p \in Path : owner[p] # NoRow}
    /\ using \in [Job -> SUBSET Path] /\ held \in [Job -> SUBSET Path]
    /\ call \in [Job -> {"none", "filed", "queued", "done", "cut"}]
    /\ daemon \in {"up", "halting", "failing", "down", "starting"}
    /\ kids \subseteq {j \in Job : Alive(j) \/ Zombie(j)}
    /\ pids \subseteq Job /\ termed \subseteq {j \in Job : Alive(j)}
    /\ \A i \in DOMAIN frames : frames[i].job \in kids \ pids

\* The stages of module JobLife.
LifeOf(j) ==
    IF call[j] = "none" THEN "none"
    ELSE IF j \in queue THEN "queued"
    ELSE IF call[j] = "filed" THEN "filed"
    ELSE IF Alive(j) THEN "running"
    ELSE "over"

Life == INSTANCE JobLife WITH life <- [j \in Job |-> LifeOf(j)]

\* The custody of a job is as JobLife says: queued once, started in order, by
\* one builder.
ImplementsJobLife == Life!Spec

\* An active chroot is used by a job that will give it up.
Kept(p) ==
    \E j \in Job :
        /\ p \in held[j]
        /\ Alive(j) \/ (Zombie(j) /\ j \in kids)

\* Or it was left active by a job whose builder ended and did not fail its troves:
\* stopJob fails only what it had read before it killed the builder, a job that
\* the late write of buildTroves calls queued is not failed, the troves of a deleted
\* job cannot be failed, and nobody hears of the end of an orphan.
LeftActive(p) ==
    \E j \in Job :
        /\ p \in held[j]
        /\ j \in stopped \cup deleted \cup orphans \/ row[j] = "queued"

\* An active chroot, which takes a slot and cannot be deleted, does not stay so when
\* its job is over, except in these four cases.
ChrootsHaveKeeper == daemon = "up" => \A p \in active : Kept(p) \/ LeftActive(p)

\* Every job that was queued is over in the end, if the server runs, if no build
\* and no load command goes on for ever, and if neither of the two ways to lose a
\* slot for good is taken: a stop of a job that went on after it had failed to
\* load, and a chroot that stays active when its job is over.
QueuedJobsEnd ==
    /\ [](wentOn \cap stopped = {})
    /\ []<>(\A p \in active : Kept(p))
    /\ \A j \in Job : []<>(builder[j] \notin {"loading", "building"})
    => Life!Finishes

\* A job that counts as building has a builder, or one whose end the main
\* process will yet hear of, or the server will be started again: no slot is
\* lost for ever to a job that nobody builds.  The exceptions are a job that went
\* on after it had failed to load, and was stopped while it did so, and one whose
\* builder outlived its main process, which forked it while it shut down.
BuildingHasKeeper ==
    \A j \in Job : row[j] \in Building =>
        \/ Alive(j)
        \/ Zombie(j) /\ j \in kids
        \/ daemon # "up"
        \/ j \in (wentOn \cap stopped) \cup orphans

\* Who may still write the row of j from a copy read before: its builder, the
\* RPC that queued it, a stop that waits for the builder, a client's commit.
Underway(j) ==
    \/ Alive(j) \/ call[j] = "queued"
    \/ \E i \in DOMAIN frames : frames[i].job = j
    \/ \E c \in Client : commit[c].phase = "started" /\ j \in Batch(c)

\* Once nothing that began before is underway, a finished job stays as it is:
\* no reaping, starting, draining or late stop changes it, only a new commit or
\* a deletion.
FinishedStays ==
    [][\A j \in Job :
          row[j] \in Finished /\ ~Underway(j) /\ row'[j] # row[j]
              => row'[j] \in {"committing", "none"}]_vars

\* When stopJob has dealt with a job, the job has no builder and gets none.
StopSticks ==
    daemon = "up" =>
        \A j \in stopped \cap kids : Alive(j) => \E i \in DOMAIN frames : frames[i].job = j

\* The server shuts itself down only when a job was deleted under its hands.
FailsOnlyByDeletion == daemon = "failing" => deleted # {}

\* A job is committing only while a client commits it, or after a client was
\* lost, or for good when a client succeeded to commit it again along with others.
CommittingHasClient ==
    \A j \in Job : row[j] = "committing" =>
        \E c \in Client :
            /\ j \in Batch(c)
            /\ commit[c].phase \in {"started", "lost", "done"}
            /\ commit[c].phase = "done" => j \notin Todo(c)

\* The chroots of the jobs that build are active and counted for them.
Attributed ==
    \A k \in Job : row[k] \in Building => \A p \in using[k] : p \in active /\ owner[p] = k

\* The slots that the jobs which build take up: one for each of their chroots, and
\* one for a job without.
Taken ==
    SumFunctionOnSet([k \in Job |-> Max({Cardinality(using[k]), 1})],
                     {k \in Job : row[k] \in Building})

Starts(j) == builder[j] = "none" /\ builder'[j] = "forked"

\* While chroots are counted for the jobs that use them, a job is started only when
\* the jobs that build, with their chroots, leave a slot empty.
StartsWithinSlots ==
    [][\A j \in Job : Starts(j) /\ Attributed => Taken < Max({NodeSlots, 1})]_vars

\* A job is started only when the slots are not all in use.
StartsOnlyInEmptySlots ==
    [][\A j \in Job : Starts(j) => Taken < Max({NodeSlots, 1})]_vars
=============================================================================
