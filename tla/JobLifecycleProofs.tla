------------------------- MODULE JobLifecycleProofs -------------------------
(* Proofs about the life of jobs, for every set of jobs and clients, every    *)
(* number of slots and every allowance of requests and faults.                *)
EXTENDS JobLifecycle, Sums, SequenceTheorems

-----------------------------------------------------------------------------
(* The inductive invariant.                                                   *)

CallPhase == {"none", "filed", "queued", "done", "cut"}
BuilderPhase == {"none", "forked", "started", "loading", "loaded", "building", "ended",
                 "exit0", "killed", "gone"}
CommitPhase == {"none", "chosen", "started", "failed", "done", "lost"}
DaemonPhase == {"up", "halting", "failing", "down", "starting"}
Message == [kind : {"queued", "stop"}, job : Job]
Reading == [state : State, chroots : SUBSET Path]
Frame == [job : Job, copy : Reading, killed : BOOLEAN]
Before == UNION {[J -> State] : J \in SUBSET Job}

ChrootTypes ==
    /\ owner \in [Path -> Job \cup {NoJob, NoRow}]
    /\ active \subseteq Path /\ \A p \in active : owner[p] # NoRow
    /\ using \in [Job -> SUBSET Path] /\ held \in [Job -> SUBSET Path]

Types ==
    /\ row \in [Job -> State] /\ ChrootTypes /\ queue \subseteq Job
    /\ call \in [Job -> CallPhase] /\ builder \in [Job -> BuilderPhase]
    /\ commit \in [Client -> [phase : CommitPhase, before : Before]] /\ built \subseteq Job
    /\ daemon \in DaemonPhase /\ kids \subseteq Job /\ pids \subseteq Job
    /\ inbox \in Seq(Message) /\ frames \in Seq(Frame)

\* What the RPC, the queue, the row and the builder of a job tell of each other.
CustodyOf(j) ==
    /\ call[j] = "none" => row[j] = "none"
    /\ call[j] \in {"none", "filed"} => builder[j] = "none" /\ j \notin queue
    /\ j \in queue => builder[j] = "none"
    /\ builder[j] = "none" => row[j] \in {"none", "init", "queued", "failed"}
    /\ builder[j] = "none" /\ row[j] = "queued" => call[j] \in {"done", "cut"}
    /\ row[j] = "none" => call[j] = "none" \/ j \in deleted
    /\ j \in built => builder[j] # "none"

Custody == \A j \in Job : CustodyOf(j)

\* The main process knows its builders: those in buildPids and those a stopJob
\* that has not returned waits for.
Children ==
    /\ \A j \in kids : Alive(j) \/ Zombie(j)
    /\ \A j \in termed : j \in Job /\ Alive(j)
    /\ \A j \in Job : Alive(j) => j \in kids \cup orphans
    /\ daemon = "up" => pids \subseteq kids
    /\ daemon # "up" => frames = <<>>
    /\ daemon \in {"down", "starting"} => kids = {}
    /\ daemon = "starting" => pids = {}

Framed(j) == \E i \in DOMAIN frames : frames[i].job = j

Frames ==
    /\ \A i \in DOMAIN frames : frames[i].job \in kids \ pids
    /\ \A i, k \in DOMAIN frames : frames[i].job = frames[k].job => i = k
    /\ daemon = "up" => \A j \in kids \ pids : Framed(j)

\* A stop that comes before the builder finds that the RPC which queued the job is
\* past its last write.
Settled(j) ==
    j \in stopped /\ builder[j] = "none" =>
        row[j] \in {"failed", "none"} /\ call[j] \in {"done", "cut"}

Asked(m) ==
    m.kind = "stop" =>
        /\ call[m.job] # "none"
        /\ builder[m.job] = "none" => call[m.job] \in {"done", "cut"}

Stops ==
    /\ stopped \cap pids = {}
    /\ \A j \in Job : Settled(j)
    /\ \A i \in DOMAIN inbox : Asked(inbox[i])

Busy(j) == builder[j] \in {"forked", "started", "loading", "loaded", "building"}
Done == Finished \cup {"committing"}

Excused(j) == j \in wentOn \/ j \notin pids \/ daemon # "up"
Sealed(j) == builder[j] # "none" /\ (Busy(j) => Excused(j))

\* A stop waits for the builder of a job that it read as done.
Over(j) == row[j] \notin Building /\ builder[j] \in {"ended", "exit0", "killed"}
Halted(f) == f.copy.state \in Done => f.job \in wentOn \/ Over(f.job)

\* Jobs are done only when their builder is, unless it went on after a failure or
\* the main process has lost it.
DoneOnce ==
    /\ \A c \in Client : \A j \in Batch(c) \cap Job : Sealed(j)
    /\ \A j \in Job : Busy(j) /\ ~Excused(j) => row[j] \notin Done

FramesHalted == \A i \in DOMAIN frames : Halted(frames[i])

DoneJobs == DoneOnce /\ FramesHalted

BuildingJobs ==
    \A j \in Job : row[j] \in Building => builder[j] \in {"started", "building", "killed", "gone"}

Invariant ==
    /\ Types /\ Custody /\ Children /\ Frames /\ Stops /\ DoneJobs /\ BuildingJobs
    /\ CommittingHasClient /\ FailsOnlyByDeletion /\ BuildingHasKeeper

-----------------------------------------------------------------------------
(* Numbers and sequences.                                                     *)

LEMMA Smallest ==
    ASSUME NEW S, S \subseteq Nat, S # {}
    PROVE  Min(S) \in S /\ \A k \in S : Min(S) <= k
<1>1. IsWellFoundedOn(OpToRel(<, Nat), Nat)
  BY NatLessThanWellFounded
<1>2. PICK x \in S : \A y \in S : <<y, x>> \notin OpToRel(<, Nat)
  BY <1>1, WFMin
<1>3. ASSUME NEW y \in S PROVE x <= y
  <2>1. ~(y < x)
    BY <1>2 DEF OpToRel
  <2> QED BY <2>1
<1> QED BY <1>3 DEF Min

LEMMA Popped ==
    ASSUME NEW S, NEW s \in Seq(S), s # <<>>
    PROVE  /\ Head(s) \in S /\ Head(s) = s[1] /\ 1 \in DOMAIN s
           /\ Tail(s) \in Seq(S)
           /\ \A i \in DOMAIN Tail(s) : i + 1 \in DOMAIN s /\ Tail(s)[i] = s[i + 1]
           /\ \A i \in DOMAIN s : i = 1 \/ (i - 1 \in DOMAIN Tail(s) /\ Tail(s)[i - 1] = s[i])
  OBVIOUS

LEMMA Pushed ==
    ASSUME NEW S, NEW s \in Seq(S), NEW e \in S
    PROVE  /\ <<e>> \o s \in Seq(S) /\ (<<e>> \o s)[1] = e /\ 1 \in DOMAIN (<<e>> \o s)
           /\ \A i \in DOMAIN s : i + 1 \in DOMAIN (<<e>> \o s) /\ (<<e>> \o s)[i + 1] = s[i]
           /\ \A i \in DOMAIN (<<e>> \o s) :
                 i = 1 \/ (i - 1 \in DOMAIN s /\ (<<e>> \o s)[i] = s[i - 1])
  OBVIOUS

LEMMA Appended ==
    ASSUME NEW S, NEW s \in Seq(S), NEW e \in S
    PROVE  /\ Append(s, e) \in Seq(S)
           /\ \A i \in DOMAIN Append(s, e) :
                 Append(s, e)[i] = e \/ (i \in DOMAIN s /\ Append(s, e)[i] = s[i])
  OBVIOUS

\* KillStopped marks the first frame.
LEMMA Marked ==
    ASSUME NEW s \in Seq(Frame), s # <<>>
    PROVE  LET t == [s EXCEPT ![1].killed = TRUE]
           IN  /\ t \in Seq(Frame) /\ DOMAIN t = DOMAIN s
               /\ \A i \in DOMAIN s : t[i].job = s[i].job /\ t[i].copy = s[i].copy
<1> DEFINE t == [s EXCEPT ![1].killed = TRUE]
<1>1. DOMAIN t = DOMAIN s /\ Len(s) \in Nat /\ DOMAIN s = 1 .. Len(s)
  OBVIOUS
<1>2. \A i \in DOMAIN s : s[i] \in Frame
  OBVIOUS
<1>3. \A i \in DOMAIN s : t[i] = IF i = 1 THEN [s[1] EXCEPT !.killed = TRUE] ELSE s[i]
  OBVIOUS
<1>4. \A i \in DOMAIN s : t[i] \in Frame /\ t[i].job = s[i].job /\ t[i].copy = s[i].copy
  BY <1>2, <1>3 DEF Frame
<1>5. t \in [1 .. Len(s) -> Frame]
  BY <1>1, <1>4
<1>6. t \in Seq(Frame)
  BY <1>1, <1>5, SeqDef
<1> QED BY <1>1, <1>4, <1>6

-----------------------------------------------------------------------------
(* What steps do.                                                             *)

LEMMA NextInQueue ==
    ASSUME Types, queue # {}
    PROVE  NextJob \in queue /\ NextJob \in Job /\ \A k \in queue : NextJob <= k
<1>1. queue \subseteq Nat
  BY JobAssumption DEF Types
<1> QED BY <1>1, Smallest DEF NextJob, Types

\* The main process starts the first job of the queue or reaps builders.  What may
\* come of it, when the builders dead have been reaped:
After(dead) == [k \in Job |-> IF k \in dead THEN "gone" ELSE builder[k]]

\* ... nothing more, ...
Quiet(dead) ==
    /\ builder' = After(dead) /\ Calm(kids \ dead, pids \ dead)
    /\ UNCHANGED <<queue, row, chroots>>
    /\ \A j \in dead \cap pids : daemon # "halting" => builder[j] = "exit0" \/ row[j] \notin Building

\* ... their jobs fail, ...
Failed(dead) ==
    /\ builder' = After(dead) /\ Calm(kids \ dead, pids \ dead) /\ UNCHANGED queue
    /\ \A j \in dead : row[j] \in Building
    /\ Fail(dead, using)
    /\ row' = [k \in Job |-> IF k \in dead THEN "failed" ELSE row[k]]

\* ... a job is gone, ...
Raised(dead) ==
    /\ builder' = After(dead) /\ pids' = pids \ dead /\ Raise(kids \ dead)
    /\ UNCHANGED <<row, chroots>> /\ queue' \subseteq queue
    /\ \E j \in Job : row[j] = "none" /\ (j \in queue \/ builder[j] # "none")

\* ... the first job n of the queue has failed or fails now, ...
Dropped(dead, n) ==
    /\ builder' = After(dead) /\ Calm(kids \ dead, pids \ dead) /\ queue' = queue \ {n}
    /\ \A j \in dead \cap pids : builder[j] = "exit0"
    /\ row[n] # "none" /\ row' = [row EXCEPT ![n] = "failed"]
    /\ UNCHANGED chroots \/ Fail({n}, using)

\* ... or gets a builder.
Launched(dead, n) ==
    /\ builder' = [After(dead) EXCEPT ![n] = "forked"] /\ queue' = queue \ {n}
    /\ Calm((kids \ dead) \cup {n}, (pids \ dead) \cup {n})
    /\ \A j \in dead \cap pids : builder[j] = "exit0"
    /\ \A k \in queue : n <= k
    /\ row[n] \notin {"none", "failed"} /\ UNCHANGED <<row, chroots>>
    /\ EmptySlots # 0

Outcome(dead) ==
    \/ Quiet(dead) \/ Failed(dead) \/ Raised(dead)
    \/ \E n \in queue : Dropped(dead, n) \/ Launched(dead, n)

Attends(dead) ==
    /\ \A j \in dead : j \in kids /\ Zombie(j)
    /\ daemon \in {"up", "halting", "failing"}
    /\ daemon = "up" => (dead = {} \/ frames = <<>>)
    /\ inbox' = inbox \/ (inbox # <<>> /\ inbox' = Tail(inbox))
    /\ UNCHANGED <<rpcVars, stopped, built, termed, wentOn, deleted>>
    /\ ChrootTypes'
    /\ Outcome(dead)

\* Jobs fail, whoever does it.
Fails(J) == WriteAll(J, "failed") /\ ChrootTypes'

LEMMA FailTypes ==
    ASSUME Types
    PROVE  /\ \A J, known : Fail(J, known) => Fails(J)
           /\ \A j \in Job : FailOwn(j) => Fails({j})
<1> SUFFICES ASSUME NEW J, NEW known, FailFrom(J, known), held' \in [Job -> SUBSET Path]
             PROVE  Fails(J)
  BY DEF Fail, FailOwn, Types, ChrootTypes
<1>1. owner' = owner /\ active' \subseteq active
  BY DEF FailFrom
<1>2. \E kept : using' = [j \in Job |-> IF j \in {k \in J : Exists(k)} THEN (using[j] \ known[j]) \cap kept
                                                                     ELSE using[j]]
  BY DEF FailFrom
<1>3. using' \in [Job -> SUBSET Path]
  BY <1>2 DEF Types, ChrootTypes
<1> QED BY <1>1, <1>3 DEF FailFrom, Fails, Types, ChrootTypes

LEMMA FailedRows ==
    ASSUME Types, NEW J, Fails(J)
    PROVE  row' = [k \in Job |-> IF k \in J /\ row[k] # "none" THEN "failed" ELSE row[k]]
  BY DEF Fails, WriteAll, Exists

LEMMA ChrootsStay ==
    ASSUME Types, UNCHANGED chroots
    PROVE  ChrootTypes'
  BY DEF Types, ChrootTypes, chroots

LEMMA StartOutcome ==
    ASSUME Types, NEW dead, \A j \in dead : builder[j] = "exit0",
           StartJob(After(dead), kids \ dead, pids \ dead)
    PROVE  Outcome(dead) /\ ChrootTypes'
<1> DEFINE n == NextJob
<1>1. CASE EmptySlots = 0 \/ queue = {}
  BY <1>1, ChrootsStay DEF StartJob, StartUnless, Outcome, Quiet
<1>2. CASE ~(EmptySlots = 0 \/ queue = {})
  <2>1. n \in queue /\ n \in Job /\ \A k \in queue : n <= k
    BY <1>2, NextInQueue
  <2>2. queue' = queue \ {n}
    BY <1>2 DEF StartJob, StartUnless
  <2>3. CASE ~Exists(n) /\ builder' = After(dead) /\ pids' = pids \ dead /\ Raise(kids \ dead)
             /\ UNCHANGED <<row, chroots>>
    BY <2>1, <2>2, <2>3, ChrootsStay DEF Outcome, Raised, Exists
  <2>4. CASE row[n] = "failed" /\ builder' = After(dead) /\ Calm(kids \ dead, pids \ dead)
             /\ UNCHANGED <<row, chroots>>
    BY <2>1, <2>2, <2>4, ChrootsStay DEF Outcome, Dropped, Types
  <2>5. CASE /\ Exists(n) /\ row[n] # "failed"
             /\ builder' = [After(dead) EXCEPT ![n] = "forked"]
             /\ Calm((kids \ dead) \cup {n}, (pids \ dead) \cup {n})
             /\ UNCHANGED <<row, chroots>>
    BY <1>2, <2>1, <2>2, <2>5, ChrootsStay DEF Outcome, Launched, Exists
  <2>6. CASE /\ Exists(n) /\ Fail({n}, using)
             /\ builder' = After(dead) /\ Calm(kids \ dead, pids \ dead)
    <3>1. Fails({n})
      BY <2>6, FailTypes
    <3>2. row' = [row EXCEPT ![n] = "failed"]
      BY <2>1, <2>6, <3>1, FailedRows DEF Exists, Types
    <3> QED BY <2>1, <2>2, <2>6, <3>1, <3>2 DEF Outcome, Dropped, Exists, Fails
  <2> QED BY <1>2, <2>3, <2>4, <2>5, <2>6 DEF StartJob, StartUnless
<1> QED BY <1>1, <1>2

LEMMA ReapOutcome ==
    ASSUME Types, NEW j \in kids, Zombie(j), PidDied(j, kids \ {j}, pids \ {j})
    PROVE  Outcome({j}) /\ ChrootTypes'
<1> DEFINE bs == [builder EXCEPT ![j] = "gone"]
<1>1. bs = After({j}) /\ j \in Job
  BY DEF After, Types
<1>2. CASE j \in pids /\ builder[j] = "exit0"
  <2>1. StartJob(bs, kids \ {j}, pids \ {j})
    BY <1>2 DEF PidDied, Reaped
  <2> HIDE DEF bs
  <2> QED BY <1>1, <1>2, <2>1, StartOutcome
<1>3. CASE ~(j \in pids /\ builder[j] = "exit0")
  <2>1. builder' = After({j}) /\ UNCHANGED queue
    BY <1>1, <1>3 DEF PidDied, Reaped
  <2>2. CASE j \in pids /\ ~Exists(j)
    BY <1>1, <1>3, <2>1, <2>2, ChrootsStay DEF PidDied, Reaped, Outcome, Raised, Exists, Zombie
  <2>3. CASE ~(j \in pids /\ ~Exists(j))
    <3>1. Calm(kids \ {j}, pids \ {j})
      BY <1>3, <2>3 DEF PidDied, Reaped
    <3>2. CASE j \in pids /\ row[j] \in Building
      <4>1. Fail({j}, using)
        BY <1>3, <2>3, <3>2 DEF PidDied, Reaped
      <4>2. Fails({j})
        BY <4>1, FailTypes
      <4>3. row' = [k \in Job |-> IF k \in {j} THEN "failed" ELSE row[k]]
        BY <3>2, <4>2, FailedRows DEF Building
      <4> QED BY <2>1, <3>1, <3>2, <4>1, <4>2, <4>3 DEF Outcome, Failed, Fails
    <3>3. CASE ~(j \in pids /\ row[j] \in Building)
      BY <1>3, <2>1, <2>3, <3>1, <3>3, ChrootsStay DEF PidDied, Reaped, Outcome, Quiet
    <3> QED BY <3>2, <3>3
  <2> QED BY <2>2, <2>3
<1> QED BY <1>2, <1>3

LEMMA MainSteps ==
    ASSUME Types, \/ LoopStartsJob \/ HearQueued
                  \/ \E j \in Job : CollectChild(j) \/ ReapChild(j)
    PROVE  \E dead \in SUBSET Job : Attends(dead)
<1>1. After({}) = builder /\ kids \ {} = kids /\ pids \ {} = pids
  BY DEF After, Types
<1>2. CASE LoopStartsJob \/ HearQueued
  <2>1. StartJob(After({}), kids \ {}, pids \ {})
    BY <1>1, <1>2 DEF LoopStartsJob, HearQueued
  <2>2. Outcome({}) /\ ChrootTypes'
    BY <2>1, StartOutcome
  <2>3. Attends({})
    BY <1>2, <2>2 DEF Attends, LoopStartsJob, HearQueued, Listening
  <2> QED BY <2>3
<1>3. ASSUME NEW j \in Job, CollectChild(j) \/ ReapChild(j)
      PROVE  \E dead \in SUBSET Job : Attends(dead)
  <2>1. CASE PidDied(j, kids \ {j}, pids \ {j})
    <3>1. Outcome({j}) /\ ChrootTypes'
      BY <1>3, <2>1, ReapOutcome DEF CollectChild, ReapChild
    <3>2. Attends({j})
      BY <1>3, <3>1 DEF Attends, CollectChild, ReapChild
    <3> QED BY <3>2
  <2>2. CASE /\ daemon = "halting" /\ builder' = [builder EXCEPT ![j] = "gone"]
             /\ Calm(kids \ {j}, pids \ {j}) /\ UNCHANGED <<queue, row, chroots>>
    <3>1. builder' = After({j})
      BY <2>2 DEF After, Types
    <3>2. Attends({j})
      BY <1>3, <2>2, <3>1, ChrootsStay DEF Attends, Outcome, Quiet, CollectChild, ReapChild, Types
    <3> QED BY <3>2
  <2> QED BY <1>3, <2>1, <2>2 DEF CollectChild, ReapChild
<1> QED BY <1>2, <1>3

\* A builder goes on, and writes its job's row if there is one.
Own(j) ==
    \/ BuilderProgress(j) \/ WorkStep(j) \/ BuilderNotMade(j) \/ BuilderRaises(j)
    \/ BuilderDies(j) \/ KillHarder(j)

Living == {"forked", "started", "loading", "loaded", "building", "ended"}

Writes(j) ==
    /\ builder[j] \in Living /\ UNCHANGED <<queue, rpcVars, daemonVars, deleted>>
    /\ ChrootTypes' /\ row' \in [Job -> State]
    /\ \E b \in (Living \ {"forked"}) \cup {"exit0", "killed"} : builder' = [builder EXCEPT ![j] = b]
    /\ \A k \in Job \ {j} : row'[k] = row[k]
    /\ row'[j] = "none" <=> row[j] = "none"
    /\ row'[j] # row[j] => row'[j] # "committing"
    /\ row'[j] \in Building /\ builder'[j] \notin {"started", "building"} =>
          row[j] \in Building /\ builder'[j] = "killed"
    /\ Busy(j)' => Busy(j) /\ (row'[j] \in {row[j]} \cup (State \ Done) \/ j \in wentOn')
    /\ termed' \subseteq termed /\ \A k \in termed' : k = j => builder'[k] \in Living
    /\ built' \in {built, built \cup {j}} /\ wentOn \subseteq wentOn'

LEMMA WriteTypes ==
    ASSUME Types, NEW j \in Job, NEW s \in State, Write(j, s) \/ Fails({j})
    PROVE  /\ ChrootTypes' /\ row' \in [Job -> State]
           /\ \A k \in Job \ {j} : row'[k] = row[k]
           /\ Fails({j}) => row'[j] = IF row[j] = "none" THEN "none" ELSE "failed"
           /\ Write(j, s) => row'[j] = IF row[j] = "none" THEN "none" ELSE s
  BY ChrootsStay, FailedRows DEF Types, Fails, Write, WriteAll, State, Exists

LEMMA OwnSteps ==
    ASSUME Types, Children, BuildingJobs, NEW j \in Job, Own(j)
    PROVE  Writes(j)
<1>1. /\ row[j] \in Building => builder[j] \in {"started", "building", "killed", "gone"}
      /\ row[j] \in State /\ builder[j] \in BuilderPhase /\ termed \subseteq Job
  BY DEF BuildingJobs, Types, Children
<1>2. /\ row \in [Job -> State] /\ builder \in [Job -> BuilderPhase]
      /\ UNCHANGED chroots => ChrootTypes'
  BY ChrootsStay DEF Types
<1> USE DEF Writes, Living, Busy, Done, Finished, Building, rpcVars, daemonVars, Alive
<1>3. CASE BuilderStarts(j)
  <2>1. Write(j, "started") /\ "started" \in State
    BY <1>3 DEF BuilderStarts, State
  <2>2. Step(j, "forked", "started") /\ UNCHANGED <<built, wentOn>>
    BY <1>3 DEF BuilderStarts
  <2> QED BY <1>1, <1>2, <2>1, <2>2, WriteTypes DEF Step, State
<1>4. CASE BuilderNotMade(j)
  <2>1. Step(j, "forked", "killed") /\ UNCHANGED <<built, wentOn>> /\ "failed" \in State
    BY <1>4 DEF BuilderNotMade, State
  <2>2. Fails({j}) \/ UNCHANGED <<row, chroots>>
    BY <1>4, FailTypes DEF BuilderNotMade
  <2> QED BY <1>1, <1>2, <2>1, <2>2, WriteTypes DEF Step, State
<1>5. CASE Loads(j)
  <2>1. Write(j, "loading") /\ "loading" \in State
    BY <1>5 DEF Loads, State
  <2>2. Step(j, "started", "loading") /\ UNCHANGED <<built, wentOn>>
    BY <1>5 DEF Loads
  <2> QED BY <1>1, <1>2, <2>1, <2>2, WriteTypes DEF Step, State
<1>6. CASE LoadEnds(j)
  <2>1. UNCHANGED built /\ "loaded" \in State
    BY <1>6 DEF LoadEnds, State
  <2>2. CASE Step(j, "loading", "loaded") /\ Write(j, "loaded") /\ UNCHANGED wentOn
    BY <1>1, <1>2, <2>1, <2>2, WriteTypes DEF Step, State
  <2>3. CASE Step(j, "loading", "ended") /\ Fails({j}) /\ UNCHANGED wentOn
    BY <1>1, <1>2, <2>1, <2>3, WriteTypes DEF Step, State
  <2>4. CASE Step(j, "loading", "loaded") /\ Fails({j}) /\ wentOn' = wentOn \cup {j}
    BY <1>1, <1>2, <2>1, <2>4, WriteTypes DEF Step, State
  <2> QED BY <1>6, <2>2, <2>3, <2>4, FailTypes DEF LoadEnds
<1>7. CASE Builds(j)
  <2>1. UNCHANGED <<built, wentOn>> /\ "build" \in State
    BY <1>7 DEF Builds, State
  <2>2. PICK from \in {"started", "loaded"} :
           \/ Step(j, from, "building") /\ Write(j, "build")
           \/ Step(j, from, "ended") /\ Fails({j})
    BY <1>7, FailTypes DEF Builds
  <2>3. CASE Step(j, from, "building") /\ Write(j, "build")
    BY <1>1, <1>2, <2>1, <2>3, WriteTypes DEF Step, State
  <2>4. CASE Step(j, from, "ended") /\ Fails({j})
    BY <1>1, <1>2, <2>1, <2>4, WriteTypes DEF Step, State
  <2> QED BY <2>2, <2>3, <2>4
<1>8. CASE TakesChroot(j) \/ TroveEnds(j)
  <2>1. ChrootTypes'
    <3>1. ASSUME NEW p \in Path, Activate(j, p) PROVE ChrootTypes'
      <4>1. /\ owner' = IF owner[p] = NoRow THEN [owner EXCEPT ![p] = j] ELSE owner
            /\ active' = active \cup {p}
            /\ using' = [using EXCEPT ![j] = @ \cup {p}] /\ held' = [held EXCEPT ![j] = @ \cup {p}]
        BY <3>1 DEF Activate
      <4>2. owner' \in [Path -> Job \cup {NoJob, NoRow}]
        BY <4>1 DEF Types, ChrootTypes
      <4>3. \A q \in active' : owner'[q] # NoRow
        BY <4>1, JobAssumption DEF Types, ChrootTypes
      <4>4. using' \in [Job -> SUBSET Path] /\ held' \in [Job -> SUBSET Path]
        BY <4>1 DEF Types, ChrootTypes
      <4> QED BY <4>1, <4>2, <4>3, <4>4 DEF Types, ChrootTypes
    <3>2. CASE TroveEnds(j)
      BY <3>2 DEF TroveEnds, Types, ChrootTypes
    <3> QED BY <1>8, <3>1, <3>2 DEF TakesChroot
  <2>2. /\ Step(j, "building", "building") /\ UNCHANGED <<row, wentOn>>
        /\ built' \in {built, built \cup {j}}
    BY <1>8 DEF TakesChroot, TroveEnds
  <2> QED BY <1>1, <1>2, <2>1, <2>2 DEF Step
<1>9. CASE BuildEnds(j)
  <2>1. UNCHANGED <<built, wentOn>> /\ "built" \in State /\ Step(j, "building", "ended")
    BY <1>9 DEF BuildEnds, State
  <2>2. Write(j, "built") \/ Fails({j})
    BY <1>9, FailTypes DEF BuildEnds
  <2> QED BY <1>1, <1>2, <2>1, <2>2, WriteTypes DEF Step, State
<1>10. CASE BuilderRaises(j)
  <2>1. UNCHANGED <<built, wentOn>> /\ Fails({j}) /\ "failed" \in State
    BY <1>10, FailTypes DEF BuilderRaises, State
  <2>2. PICK from \in Living : Step(j, from, "ended")
    BY <1>10 DEF BuilderRaises
  <2> QED BY <1>1, <1>2, <2>1, <2>2, WriteTypes DEF Step, State
<1>11. CASE BuilderExits(j)
  BY <1>1, <1>2, <1>11 DEF BuilderExits, Step
<1>12. CASE Signalled(j)
  <2>1. /\ UNCHANGED <<queue, rpcVars, daemonVars, built, wentOn, deleted>>
        /\ Alive(j) /\ builder' = [builder EXCEPT ![j] = "killed"] /\ termed' = termed \ {j}
        /\ "failed" \in State
    BY <1>12 DEF Signalled, State
  <2>2. Fails({j}) \/ UNCHANGED <<row, chroots>>
    BY <1>12, FailTypes DEF Signalled
  <2> QED BY <1>1, <1>2, <2>1, <2>2, WriteTypes DEF State
<1>13. CASE BuilderDies(j) \/ KillHarder(j)
  BY <1>1, <1>2, <1>13 DEF BuilderDies, KillHarder
<1> QED
  BY <1>3, <1>4, <1>5, <1>6, <1>7, <1>8, <1>9, <1>10, <1>11, <1>12, <1>13
  DEF Own, BuilderProgress, WorkStep

\* A client's commit reads jobs that are built, or writes those it has read.
Commits(c) ==
    /\ UNCHANGED <<queue, chroots, call, deleting, daemonVars, builderVars, deleted>>
    /\ commit' \in [Client -> [phase : CommitPhase, before : Before]]
    /\ row' \in [Job -> State]
    /\ \A d \in Client : \A j \in Job : j \in Batch(d)' =>
          j \in Batch(d) \/ (j \in built /\ row[j] \in Finished)
    /\ \A j \in Job : row'[j] # row[j] =>
          /\ row[j] # "none" /\ j \in Batch(c)
          /\ \/ row'[j] = "committing"
             \/ row'[j] \in {"built", "committed"} /\ commit[c].phase = "started"

LEMMA Rpcs ==
    ASSUME Types, NEW c \in Client, NEW from \in CommitPhase, NEW to \in CommitPhase,
           NEW J, NEW s \in State \ {"none"}, Rpc(c, from, to, J, s)
    PROVE  /\ commit' \in [Client -> [phase : CommitPhase, before : Before]]
           /\ row' \in [Job -> State]
           /\ \A d \in Client : commit'[d].before = commit[d].before
           /\ \A d \in Client \ {c} : commit'[d] = commit[d]
           /\ \A j \in Job : row'[j] # row[j] => row[j] # "none" /\ j \in J /\ row'[j] = s
           /\ commit[c].phase = from
           /\ \/ commit'[c].phase = "lost" /\ UNCHANGED row
              \/ commit'[c].phase = to /\ \A j \in J \cap Job : row'[j] = s
           /\ UNCHANGED <<queue, chroots, call, deleting, daemonVars, builderVars, deleted>>
<1>1. \A ph \in CommitPhase : commit' = [commit EXCEPT ![c].phase = ph] =>
         /\ commit' \in [Client -> [phase : CommitPhase, before : Before]]
         /\ \A d \in Client : commit'[d].before = commit[d].before
         /\ \A d \in Client \ {c} : commit'[d] = commit[d]
         /\ commit'[c].phase = ph
  BY DEF Types
<1>2. "lost" \in CommitPhase
  BY DEF CommitPhase
<1>3. WriteAll(J, s) =>
         /\ row' \in [Job -> State]
         /\ \A j \in Job : row'[j] # row[j] => row[j] # "none" /\ j \in J /\ row'[j] = s
         /\ (\A j \in J : Exists(j)) => \A j \in J \cap Job : row'[j] = s
  BY DEF WriteAll, Exists, Types
<1> QED BY <1>1, <1>2, <1>3 DEF Rpc, Types

LEMMA CommitSteps ==
    ASSUME Types, NEW c \in Client, CommitStep(c)
    PROVE  Commits(c)
<1> USE DEF Batch
<1>1. CASE ChooseJobs(c)
  <2>1. PICK J \in SUBSET {j \in built : row[j] \in Finished} :
           commit' = [commit EXCEPT ![c] =
                        [phase |-> "chosen", before |-> [j \in J |-> row[j]]]]
    BY <1>1 DEF ChooseJobs
  <2>2. J \in SUBSET Job /\ [j \in J |-> row[j]] \in [J -> State]
    BY <2>1 DEF Types
  <2>3. [j \in J |-> row[j]] \in Before
    BY <2>2 DEF Before
  <2>4. commit' \in [Client -> [phase : CommitPhase, before : Before]]
    BY <2>1, <2>3 DEF Types, CommitPhase
  <2>5. \A d \in Client : \A j \in Job : j \in Batch(d)' =>
           j \in Batch(d) \/ (j \in built /\ row[j] \in Finished)
    BY <2>1 DEF Types
  <2>6. UNCHANGED <<row, queue, chroots, call, deleting, daemonVars, builderVars, deleted>>
    BY <1>1 DEF ChooseJobs
  <2> QED BY <2>4, <2>5, <2>6 DEF Commits, Types
<1>2. CASE StartCommit(c)
  <2>1. Rpc(c, "chosen", "started", Batch(c), "committing")
    BY <1>2 DEF StartCommit
  <2>2. {"chosen", "started"} \subseteq CommitPhase /\ "committing" \in State \ {"none"}
    BY DEF CommitPhase, State
  <2> QED BY <2>1, <2>2, Rpcs DEF Commits
<1>3. CASE CommitFails(c)
  <2>1. Rpc(c, "started", "failed", Batch(c), "built")
    BY <1>3 DEF CommitFails
  <2>2. {"failed", "started"} \subseteq CommitPhase /\ "built" \in State \ {"none"}
    BY DEF CommitPhase, State
  <2> QED BY <2>1, <2>2, Rpcs DEF Commits
<1>4. CASE CommitSucceeds(c)
  <2>1. Rpc(c, "started", "done", Todo(c), "committed") /\ Todo(c) \subseteq Batch(c)
    BY <1>4 DEF CommitSucceeds, Todo
  <2>2. {"done", "started"} \subseteq CommitPhase /\ "committed" \in State \ {"none"}
    BY DEF CommitPhase, State
  <2> QED BY <2>1, <2>2, Rpcs DEF Commits
<1>5. CASE CommitLost(c)
  <2>1. commit' = [commit EXCEPT ![c].phase = "lost"]
    BY <1>5 DEF CommitLost
  <2>2. commit' \in [Client -> [phase : CommitPhase, before : Before]]
        /\ \A d \in Client : commit'[d].before = commit[d].before
    BY <2>1 DEF Types, CommitPhase
  <2> QED BY <1>5, <2>2 DEF Commits, CommitLost, Types
<1> QED BY <1>1, <1>2, <1>3, <1>4, <1>5 DEF CommitStep

LEMMA Steps ==
    ASSUME Types, Children, BuildingJobs, [LifecycleNext]_vars
    PROVE  \/ \E dead \in SUBSET Job : Attends(dead)
           \/ HearStop \/ KillStopped \/ FinishStop
           \/ Halt \/ Exit \/ Crash \/ Boot \/ Drain \/ Sweep
           \/ \E j \in Job : TermChild(j) \/ Writes(j) \/ RpcStep(j)
           \/ \E c \in Client : Commits(c)
           \/ UNCHANGED vars
<1>1. CASE DaemonStep
  BY <1>1, MainSteps DEF DaemonStep
<1>2. CASE \E j \in Job : Own(j)
  BY <1>2, OwnSteps
<1>3. CASE \E c \in Client : CommitStep(c)
  BY <1>3, CommitSteps
<1> QED BY <1>1, <1>2, <1>3 DEF LifecycleNext, Own

-----------------------------------------------------------------------------
(* The invariant's parts, step by step.                                       *)

LEMMA AttendsTypes ==
    ASSUME Types, NEW dead \in SUBSET Job, Attends(dead)
    PROVE  Types'
<1> USE DEF Types
<1>1. After(dead) \in [Job -> BuilderPhase]
  BY DEF After, BuilderPhase
<1>2. inbox' \in Seq(Message) /\ frames' \in Seq(Frame)
  <2>1. inbox \in Seq(Message) /\ frames \in Seq(Frame) /\ <<>> \in Seq(Frame)
    OBVIOUS
  <2>2. inbox' = inbox \/ (inbox # <<>> /\ inbox' = Tail(inbox))
    BY DEF Attends
  <2>3. inbox # <<>> => Tail(inbox) \in Seq(Message)
    BY ONLY <2>1, Popped
  <2>4. frames' = frames \/ frames' = <<>>
    BY DEF Attends, Outcome, Quiet, Failed, Raised, Dropped, Launched, Calm, Raise
  <2> QED BY ONLY <2>1, <2>2, <2>3, <2>4
<1>3. UNCHANGED <<rpcVars, built>> /\ ChrootTypes'
  BY DEF Attends
<1>4. queue' \subseteq queue /\ kids' \subseteq Job /\ pids' \subseteq Job /\ daemon' \in DaemonPhase
  BY DEF Attends, Outcome, Quiet, Failed, Raised, Dropped, Launched, Calm, Raise, DaemonPhase
<1>5. builder' \in [Job -> BuilderPhase]
  BY <1>1 DEF Attends, Outcome, Quiet, Failed, Raised, Dropped, Launched, BuilderPhase
<1>6. row' \in [Job -> State]
  BY DEF Attends, Outcome, Quiet, Failed, Raised, Dropped, Launched, State
<1> QED BY <1>2, <1>3, <1>4, <1>5, <1>6 DEF rpcVars

\* The copy of a job.
LEMMA CopyRead ==
    ASSUME Types, NEW j \in Job
    PROVE  Copy(j) \in Reading /\ Copy(j).state = row[j]
  BY DEF Copy, Reading, Types, ChrootTypes

LEMMA MarkTypes ==
    ASSUME Types, NEW i, NEW copy, MarkStopped(i, copy)
    PROVE  ChrootTypes' /\ row' \in [Job -> State]
<1>1. Fails({i}) \/ UNCHANGED <<row, chroots>>
  BY FailTypes DEF MarkStopped
<1> QED BY <1>1, FailedRows, ChrootsStay DEF Fails, Types, State

LEMMA TypesStep ==
    ASSUME Types, Children, BuildingJobs, [LifecycleNext]_vars
    PROVE  Types'
<1>0. UNCHANGED chroots => ChrootTypes'
  BY ChrootsStay
<1> USE DEF Types, rpcVars, daemonVars, builderVars
<1>1. ASSUME NEW dead \in SUBSET Job, Attends(dead) PROVE Types'
  BY <1>1, AttendsTypes
<1>2. CASE HearStop
  <2>1. inbox' \in Seq(Message) /\ Head(inbox) \in Message
    BY <1>2, Popped DEF HearStop
  <2>2. UNCHANGED <<queue, rpcVars, builderVars>>
    BY <1>2 DEF HearStop
  <2> DEFINE j == Head(inbox).job
  <2>3. j \in Job
    BY <2>1 DEF Message
  <2>4. CASE Raise(kids) /\ UNCHANGED <<pids, row, chroots>>
    BY <1>0, <2>1, <2>2, <2>4 DEF Raise, DaemonPhase
  <2>5. CASE /\ pids' = pids \ {j}
             /\ frames' = <<[job |-> j, copy |-> Copy(j), killed |-> FALSE]>> \o frames
             /\ UNCHANGED <<daemon, kids, row, chroots>>
    <3>1. [job |-> j, copy |-> Copy(j), killed |-> FALSE] \in Frame
      BY <2>3, CopyRead DEF Frame
    <3>2. frames' \in Seq(Frame)
      BY <2>5, <3>1, Pushed
    <3> QED BY <1>0, <2>1, <2>2, <2>5, <3>2
  <2>6. CASE MarkStopped(j, Copy(j)) /\ UNCHANGED <<daemon, kids, pids, frames>>
    BY <2>1, <2>2, <2>6, MarkTypes
  <2> QED BY <1>2, <2>4, <2>5, <2>6 DEF HearStop
<1>3. CASE KillStopped
  <2>1. frames' = [frames EXCEPT ![1].killed = TRUE] /\ frames \in Seq(Frame) /\ frames # <<>>
    BY <1>3 DEF KillStopped
  <2>2. frames' \in Seq(Frame)
    BY <2>1, Marked
  <2> QED BY <1>0, <1>3, <2>2 DEF KillStopped
<1>4. CASE FinishStop
  <2>1. frames' \in Seq(Frame)
    BY <1>4, Popped DEF FinishStop
  <2>2. MarkStopped(Head(frames).job, Head(frames).copy) /\ Collect(Head(frames).job)
    BY <1>4 DEF FinishStop
  <2>3. row' \in [Job -> State] /\ ChrootTypes'
    BY <2>2, MarkTypes
  <2> QED BY <1>4, <2>1, <2>2, <2>3 DEF FinishStop, Collect, BuilderPhase
<1>5. CASE Halt \/ Exit
  BY <1>0, <1>5 DEF Halt, Exit, DaemonPhase
<1>6. CASE Crash
  BY <1>0, <1>6 DEF Crash, DaemonPhase, BuilderPhase
<1>7. CASE Boot
  BY <1>7 DEF Boot, DaemonPhase, CallPhase, ChrootTypes
<1>8. CASE Drain
  <2>1. Fails({NextJob}) \/ UNCHANGED <<row, chroots>>
    BY <1>8, FailTypes DEF Drain
  <2>2. ChrootTypes' /\ row' \in [Job -> State]
    BY <1>0, <2>1, FailedRows DEF Fails, State
  <2> QED BY <1>8, <2>2 DEF Drain, DaemonPhase
<1>9. CASE Sweep
  <2>1. Fails({k \in Job : row[k] \in Active})
    BY <1>9, FailTypes DEF Sweep
  <2>2. ChrootTypes' /\ row' \in [Job -> State]
    BY <2>1, FailedRows DEF Fails, State
  <2> QED BY <1>9, <2>2 DEF Sweep, DaemonPhase
<1>10. ASSUME NEW j \in Job, TermChild(j) \/ CheckDelete(j) PROVE Types'
  BY <1>0, <1>10 DEF TermChild, CheckDelete
<1>11. ASSUME NEW j \in Job, Writes(j) PROVE Types'
  BY <1>11 DEF Writes, Living, BuilderPhase
<1>12. ASSUME NEW j \in Job, AddJob(j) PROVE Types'
  BY <1>0, <1>12 DEF AddJob, FileSaved, File, CallPhase, State
<1>13. ASSUME NEW j \in Job, QueueJob(j) PROVE Types'
  BY <1>0, <1>13 DEF QueueJob, CallPhase
<1>14. ASSUME NEW j \in Job, NEW k \in {"queued", "stop"}, inbox' = Append(inbox, [kind |-> k, job |-> j])
       PROVE  inbox' \in Seq(Message)
  <2>1. [kind |-> k, job |-> j] \in Message
    BY DEF Message
  <2> QED BY <1>14, <2>1, Appended
<1>15. ASSUME NEW j \in Job, JobQueued(j) PROVE Types'
  <2>1. inbox' \in Seq(Message)
    BY <1>14, <1>15 DEF JobQueued
  <2> QED BY <1>15, <2>1, WriteTypes DEF JobQueued, CallPhase, State
<1>16. ASSUME NEW j \in Job, RequestStop(j) PROVE Types'
  <2>1. inbox' \in Seq(Message)
    BY <1>14, <1>16 DEF RequestStop
  <2> QED BY <1>0, <1>16, <2>1 DEF RequestStop
<1>17. ASSUME NEW j \in Job, DeleteJob(j) PROVE Types'
  BY <1>17 DEF DeleteJob, State, ChrootTypes
<1>18. ASSUME NEW c \in Client, Commits(c) PROVE Types'
  BY <1>0, <1>18 DEF Commits
<1>19. CASE UNCHANGED vars
  BY <1>0, <1>19 DEF vars
<1> QED
  BY <1>1, <1>2, <1>3, <1>4, <1>5, <1>6, <1>7, <1>8, <1>9, <1>10, <1>11, <1>12, <1>13,
     <1>15, <1>16, <1>17, <1>18, <1>19, Steps DEF RpcStep

\* Attends, as a job sees it that is not launched.
LEMMA AttendedJob ==
    ASSUME Types, Children, Custody, NEW dead \in SUBSET Job, Attends(dead), NEW j \in Job
    PROVE  /\ \/ row'[j] = row[j]
              \/ row[j] # "none" /\ row'[j] = "failed" /\ builder'[j] \in {"none", "gone"}
           /\ \/ builder'[j] = IF j \in dead THEN "gone" ELSE builder[j]
              \/ /\ builder[j] = "none" /\ builder'[j] = "forked" /\ j \in queue
                 /\ row'[j] = row[j] /\ row[j] \notin {"none", "failed"} /\ queue' = queue \ {j}
                 /\ \A k \in queue : j <= k
                 /\ kids' = (kids \ dead) \cup {j} /\ pids' = (pids \ dead) \cup {j}
           /\ queue' \subseteq queue
           /\ j \in dead => builder[j] \in {"exit0", "killed"} /\ builder'[j] = "gone"
           /\ UNCHANGED <<rpcVars, stopped, built, termed, wentOn, deleted>>
<1>1. j \in dead => builder[j] \in {"exit0", "killed"} /\ j \notin queue
  BY DEF Attends, Zombie, Custody, CustodyOf
<1>2. row \in [Job -> State] /\ builder \in [Job -> BuilderPhase]
  BY DEF Types
<1>3. After(dead)[j] = IF j \in dead THEN "gone" ELSE builder[j]
  BY DEF After
<1>4. UNCHANGED <<rpcVars, stopped, built, termed, wentOn, deleted>>
  BY DEF Attends
<1>5. CASE Quiet(dead) \/ Failed(dead) \/ Raised(dead)
  BY <1>1, <1>2, <1>3, <1>4, <1>5 DEF Quiet, Failed, Raised, Building
<1>6. ASSUME NEW n \in queue, Dropped(dead, n)
      PROVE  \/ row'[j] = row[j]
             \/ row[j] # "none" /\ row'[j] = "failed" /\ builder'[j] \in {"none", "gone"}
  <2>1. n \in Job /\ builder[n] = "none"
    BY DEF Types, Custody, CustodyOf
  <2> QED BY <1>2, <1>3, <1>6, <2>1 DEF Dropped
<1>7. CASE \E n \in queue : Dropped(dead, n)
  BY <1>1, <1>3, <1>4, <1>6, <1>7 DEF Dropped
<1>8. ASSUME NEW n \in queue, Launched(dead, n)
      PROVE  /\ row' = row /\ queue' = queue \ {n} /\ n \notin dead /\ builder[n] = "none"
             /\ builder'[j] = IF j = n THEN "forked" ELSE After(dead)[j]
             /\ row[n] \notin {"none", "failed"} /\ \A k \in queue : n <= k
             /\ kids' = (kids \ dead) \cup {n} /\ pids' = (pids \ dead) \cup {n}
  <2>1. n \in Job /\ builder[n] = "none"
    BY DEF Types, Custody, CustodyOf
  <2>2. n \notin dead
    BY <2>1 DEF Attends, Zombie
  <2>3. After(dead) \in [Job -> BuilderPhase]
    BY <1>2 DEF After, BuilderPhase
  <2> QED BY <1>8, <2>1, <2>2, <2>3 DEF Launched, Calm
<1>9. CASE \E n \in queue : Launched(dead, n)
  BY <1>1, <1>3, <1>4, <1>8, <1>9
<1> QED BY <1>5, <1>7, <1>9 DEF Attends, Outcome

LEMMA WrittenJob ==
    ASSUME Types, NEW J, Fails(J), NEW j \in Job
    PROVE  /\ row'[j] = IF j \in J /\ row[j] # "none" THEN "failed" ELSE row[j]
  BY FailedRows

LEMMA MarkedJob ==
    ASSUME Types, NEW i \in Job, NEW copy, MarkStopped(i, copy), NEW j \in Job
    PROVE  /\ stopped' = stopped \cup {i}
           /\ row'[j] = IF j = i /\ copy.state \notin Done /\ row[j] # "none" THEN "failed" ELSE row[j]
<1>1. IF copy.state \in Done THEN UNCHANGED <<row, chroots>> ELSE Fails({i})
  BY FailTypes DEF MarkStopped, Done
<1> QED BY <1>1, WrittenJob DEF MarkStopped

\* HearStop, with the three things that may come of it.
LEMMA HeardStop ==
    ASSUME Types, HearStop
    PROVE  \E j \in Job :
              /\ daemon = "up" /\ inbox # <<>> /\ inbox' = Tail(inbox)
              /\ 1 \in DOMAIN inbox /\ inbox[1].kind = "stop" /\ inbox[1].job = j
              /\ UNCHANGED <<rpcVars, builderVars, queue, deleted>>
              /\ \/ row[j] = "none" /\ Raise(kids) /\ UNCHANGED <<pids, row, stopped>>
                 \/ /\ row[j] # "none" /\ j \in pids /\ pids' = pids \ {j}
                    /\ frames' = <<[job |-> j, copy |-> Copy(j), killed |-> FALSE]>> \o frames
                    /\ UNCHANGED <<daemon, doomed, kids, orphans, row, stopped>>
                 \/ /\ row[j] # "none" /\ j \notin pids /\ stopped' = stopped \cup {j}
                    /\ \A k \in Job : row'[k] = IF k = j /\ row[j] \notin Done THEN "failed" ELSE row[k]
                    /\ UNCHANGED <<daemon, doomed, kids, orphans, pids, frames>>
<1> DEFINE j == Head(inbox).job
<1>1. daemon = "up" /\ inbox # <<>> /\ inbox' = Tail(inbox) /\ Head(inbox).kind = "stop"
  BY DEF HearStop, Listening
<1>2. Head(inbox) = inbox[1] /\ 1 \in DOMAIN inbox /\ Head(inbox) \in Message
  BY <1>1, Popped DEF Types
<1>3. j \in Job
  BY <1>2 DEF Message
<1>4. MarkStopped(j, Copy(j)) /\ row[j] # "none" =>
         /\ stopped' = stopped \cup {j}
         /\ \A k \in Job : row'[k] = IF k = j /\ row[j] \notin Done THEN "failed" ELSE row[k]
  BY <1>3, MarkedJob, CopyRead
<1>5. UNCHANGED <<rpcVars, builderVars, queue, deleted>>
  BY DEF HearStop
<1>6. \/ row[j] = "none" /\ Raise(kids) /\ UNCHANGED <<pids, row, stopped>>
      \/ /\ row[j] # "none" /\ j \in pids /\ pids' = pids \ {j}
         /\ frames' = <<[job |-> j, copy |-> Copy(j), killed |-> FALSE]>> \o frames
         /\ UNCHANGED <<daemon, doomed, kids, orphans, row, stopped>>
      \/ /\ row[j] # "none" /\ j \notin pids /\ MarkStopped(j, Copy(j))
         /\ UNCHANGED <<daemon, doomed, kids, orphans, pids, frames>>
  BY DEF HearStop, Exists
<1> QED BY <1>1, <1>2, <1>3, <1>4, <1>5, <1>6

\* FinishStop, for the job of the first frame.
LEMMA FinishedStop ==
    ASSUME Types, FinishStop
    PROVE  \E j \in Job :
              /\ daemon = "up" /\ frames # <<>> /\ frames' = Tail(frames)
              /\ 1 \in DOMAIN frames /\ frames[1].job = j /\ frames[1] \in Frame
              /\ builder[j] \in {"exit0", "killed"} /\ builder' = [builder EXCEPT ![j] = "gone"]
              /\ kids' = kids \ {j} /\ stopped' = stopped \cup {j}
              /\ \A k \in Job : row'[k] =
                    IF k = j /\ frames[1].copy.state \notin Done /\ row[k] # "none" THEN "failed" ELSE row[k]
              /\ UNCHANGED <<queue, rpcVars, inbox, daemon, pids, doomed, orphans, built, termed,
                             wentOn, deleted>>
<1> DEFINE j == Head(frames).job
<1>1. frames # <<>>
  BY DEF FinishStop
<1>2. Head(frames) = frames[1] /\ 1 \in DOMAIN frames /\ Head(frames) \in Frame
  BY <1>1, Popped DEF Types
<1>3. j \in Job
  BY <1>2 DEF Frame
<1>4. MarkStopped(j, frames[1].copy) /\ Collect(j)
  BY <1>2 DEF FinishStop
<1>5. /\ stopped' = stopped \cup {j}
      /\ \A k \in Job : row'[k] =
            IF k = j /\ frames[1].copy.state \notin Done /\ row[k] # "none" THEN "failed" ELSE row[k]
  BY <1>3, <1>4, MarkedJob
<1> QED BY <1>1, <1>2, <1>3, <1>4, <1>5 DEF FinishStop, Collect, Zombie

LEMMA CustodyStep ==
    ASSUME Types, Custody, Children, DoneJobs, BuildingJobs, [LifecycleNext]_vars
    PROVE  Custody'
<1> SUFFICES ASSUME NEW j \in Job PROVE CustodyOf(j)'
  BY DEF Custody
<1>0. CustodyOf(j) /\ row \in [Job -> State] /\ call \in [Job -> CallPhase]
      /\ builder \in [Job -> BuilderPhase]
  BY DEF Custody, Types
<1> USE DEF CustodyOf, rpcVars, daemonVars, builderVars
<1>1. ASSUME NEW dead \in SUBSET Job, Attends(dead) PROVE CustodyOf(j)'
  BY <1>0, <1>1, AttendedJob
<1>2. CASE HearStop
  BY <1>0, <1>2, HeardStop
<1>3. CASE FinishStop
  BY <1>0, <1>3, FinishedStop
<1>4. ASSUME UNCHANGED <<row, queue, call, builder, built, deleted>> PROVE CustodyOf(j)'
  BY <1>0, <1>4
<1>5. CASE KillStopped \/ Halt \/ Exit
  BY <1>4, <1>5 DEF KillStopped, Halt, Exit
<1>6. CASE Crash
  BY <1>0, <1>6 DEF Crash
<1>7. CASE Boot
  BY <1>0, <1>7 DEF Boot
<1>8. CASE Drain
  <2>1. queue' \subseteq queue /\ UNCHANGED <<call, builder, built, deleted>>
    BY <1>8 DEF Drain
  <2>2. row' = row \/ Fails({NextJob})
    BY <1>8, FailTypes DEF Drain
  <2> QED BY <1>0, <2>1, <2>2, WrittenJob
<1>9. CASE Sweep
  BY <1>0, <1>9, FailTypes, WrittenJob DEF Sweep
<1>10. CASE \E k \in Job : TermChild(k) \/ CheckDelete(k) \/ RequestStop(k)
  BY <1>4, <1>10 DEF TermChild, CheckDelete, RequestStop
<1>11. ASSUME NEW k \in Job, Writes(k) PROVE CustodyOf(j)'
  BY <1>0, <1>11 DEF Writes, Living
<1>12. ASSUME NEW k \in Job, AddJob(k) PROVE CustodyOf(j)'
  BY <1>0, <1>12 DEF AddJob, FileSaved, File
<1>13. ASSUME NEW k \in Job, QueueJob(k) PROVE CustodyOf(j)'
  BY <1>0, <1>13 DEF QueueJob, Custody
<1>14. ASSUME NEW k \in Job, JobQueued(k) PROVE CustodyOf(j)'
  BY <1>0, <1>14 DEF JobQueued, Write, WriteAll, Exists
<1>15. ASSUME NEW k \in Job, DeleteJob(k) PROVE CustodyOf(j)'
  BY <1>0, <1>15 DEF DeleteJob
<1>16. ASSUME NEW c \in Client, Commits(c) PROVE CustodyOf(j)'
  BY <1>0, <1>16 DEF Commits, DoneJobs, DoneOnce, Sealed
<1>17. CASE UNCHANGED vars
  BY <1>4, <1>17 DEF vars
<1> HIDE DEF CustodyOf
<1>18. ASSUME NEW k \in Job, RpcStep(k) PROVE CustodyOf(j)'
  BY ONLY <1>10, <1>12, <1>13, <1>14, <1>15, <1>18 DEF RpcStep
<1> QED
  BY <1>1, <1>2, <1>3, <1>5, <1>6, <1>7, <1>8, <1>9, <1>10, <1>11, <1>16, <1>17, <1>18, Steps

\* Attends, as the main process sees it.
LEMMA AttendedMain ==
    ASSUME Types, Children, Custody, NEW dead \in SUBSET Job, Attends(dead)
    PROVE  \/ /\ UNCHANGED <<daemon, frames, doomed, orphans>>
              /\ \/ kids' = kids \ dead /\ pids' = pids \ dead
                 \/ \E n \in queue :
                       /\ n \in Job \ (kids \cup dead) /\ builder[n] = "none" /\ builder'[n] = "forked"
                       /\ row[n] \in {"init", "queued"} /\ row'[n] = row[n]
                       /\ kids' = (kids \ dead) \cup {n} /\ pids' = (pids \ dead) \cup {n}
           \/ /\ frames' = <<>> /\ pids' = pids \ dead
              /\ \/ daemon = "up" /\ daemon' = "failing" /\ kids' = kids \ dead /\ UNCHANGED orphans
                 \/ /\ daemon # "up" /\ daemon' = "down" /\ kids' = {}
                    /\ orphans' = orphans \cup (kids \ dead)
              /\ \E j \in Job : row[j] = "none" /\ (j \in queue \/ builder[j] # "none")
<1>1. CASE Quiet(dead) \/ Failed(dead) \/ \E n \in queue : Dropped(dead, n)
  BY <1>1 DEF Quiet, Failed, Dropped, Calm
<1>2. CASE Raised(dead)
  BY <1>2 DEF Raised, Raise
<1>3. ASSUME NEW n \in queue, Launched(dead, n)
      PROVE  /\ n \in Job \ (kids \cup dead) /\ builder[n] = "none" /\ builder'[n] = "forked"
             /\ row[n] \in {"init", "queued"} /\ row'[n] = row[n]
             /\ kids' = (kids \ dead) \cup {n} /\ pids' = (pids \ dead) \cup {n}
             /\ UNCHANGED <<daemon, frames, doomed, orphans>>
  <2>1. n \in Job /\ builder[n] = "none" /\ row[n] \in {"none", "init", "queued", "failed"}
    BY DEF Types, Custody, CustodyOf
  <2>2. n \notin kids /\ n \notin dead
    BY <2>1 DEF Children, Attends, Alive, Zombie
  <2>3. After(dead) \in [Job -> BuilderPhase]
    BY DEF After, BuilderPhase, Types
  <2> QED BY <1>3, <2>1, <2>2, <2>3 DEF Launched, Calm
<1> QED BY <1>1, <1>2, <1>3 DEF Attends, Outcome

\* What an RPC does to a job.
LEMMA RpcJob ==
    ASSUME Types, Custody, NEW k \in Job, RpcStep(k), NEW j \in Job
    PROVE  /\ UNCHANGED <<commit, daemon, frames, kids, orphans, pids, doomed, stopped, builderVars>>
           /\ \/ row'[j] = row[j] \/ row'[j] = "none"
              \/ row'[j] = "init" /\ builder[j] = "none" /\ call[j] = "none"
              \/ row'[j] = "queued" /\ row[j] # "none" /\ call[j] = "queued"
           /\ \/ call'[j] = call[j]
              \/ call[j] \in {"none", "filed"} /\ builder[j] = "none" /\ call'[j] # "none"
              \/ call[j] = "queued" /\ call'[j] = "done"
           /\ deleted \subseteq deleted'
           /\ \/ inbox' = inbox
              \/ \E m \in Message :
                    /\ inbox' = Append(inbox, m)
                    /\ m.kind = "stop" =>
                          row[m.job] \in {"queued"} \cup Running /\ UNCHANGED <<call, row>>
<1>0. CustodyOf(j) /\ row \in [Job -> State] /\ call \in [Job -> CallPhase]
      /\ \A kd \in {"queued", "stop"} : [kind |-> kd, job |-> k] \in Message
  BY DEF Custody, Types, Message
<1> USE DEF CustodyOf, rpcVars, daemonVars, builderVars
<1>1. CASE AddJob(k)
  BY <1>0, <1>1 DEF AddJob, FileSaved, File
<1>2. CASE QueueJob(k) \/ CheckDelete(k)
  BY <1>0, <1>2 DEF QueueJob, CheckDelete
<1>3. CASE JobQueued(k)
  BY <1>0, <1>3 DEF JobQueued, Write, WriteAll, Exists
<1>4. CASE RequestStop(k)
  BY <1>0, <1>4 DEF RequestStop
<1>5. CASE DeleteJob(k)
  BY <1>0, <1>5 DEF DeleteJob
<1> QED BY <1>1, <1>2, <1>3, <1>4, <1>5 DEF RpcStep

LEMMA ChildrenStep ==
    ASSUME Types, Custody, Children, Frames, BuildingJobs, [LifecycleNext]_vars
    PROVE  Children'
<1> USE DEF Children, Alive, Zombie, rpcVars, daemonVars, builderVars
<1>0. kids \subseteq Job /\ builder \in [Job -> BuilderPhase]
  BY DEF Types
<1>1. ASSUME NEW dead \in SUBSET Job, Attends(dead) PROVE Children'
  <2>1. \A j \in Job : builder'[j] = builder[j] \/ (j \in dead /\ builder[j] \in {"exit0", "killed"})
                        \/ (builder[j] = "none" /\ builder'[j] = "forked" /\ j \in kids')
    BY <1>1, AttendedJob
  <2>2. \A j \in dead : builder'[j] = "gone"
    BY <1>1, AttendedJob
  <2>3. UNCHANGED termed
    BY <1>1 DEF Attends
  <2>4. /\ kids' \subseteq Job \ dead
        /\ \A j \in kids \ dead : j \in kids' \cup orphans'
        /\ orphans \subseteq orphans'
        /\ \A j \in kids' : j \in kids \/ builder'[j] = "forked"
    BY <1>0, <1>1, AttendedMain
  <2>5. /\ daemon' = "up" => pids' \subseteq kids'
        /\ daemon' # "up" => frames' = <<>>
        /\ daemon' \in {"down", "starting"} => kids' = {}
        /\ daemon' # "starting"
    BY <1>1, AttendedMain DEF Attends
  <2> QED BY <1>0, <2>1, <2>2, <2>3, <2>4, <2>5
<1>2. CASE HearStop
  BY <1>2, HeardStop DEF Raise
<1>3. CASE FinishStop
  <2>1. \A i \in DOMAIN frames : frames[i].job \notin pids
    BY DEF Frames
  <2> QED BY <1>0, <1>3, <2>1, FinishedStop
<1>4. CASE KillStopped
  <2>1. Head(frames) \in Frame
    BY <1>4, Popped DEF KillStopped, Types
  <2> QED BY <1>4, <2>1 DEF KillStopped, Frame
<1>5. CASE Halt \/ Exit
  BY <1>5 DEF Halt, Exit
<1>6. CASE Crash
  BY <1>6 DEF Crash
<1>7. CASE Boot \/ Drain \/ Sweep
  BY <1>7 DEF Boot, Drain, Sweep
<1>8. CASE \E j \in Job : TermChild(j)
  BY <1>8 DEF TermChild
<1>9. ASSUME NEW j \in Job, Writes(j) PROVE Children'
  BY <1>0, <1>9 DEF Writes, Living
<1>10. ASSUME NEW j \in Job, RpcStep(j) PROVE Children'
  BY <1>10, RpcJob
<1>11. CASE \E c \in Client : Commits(c)
  BY <1>11 DEF Commits
<1>12. CASE UNCHANGED vars
  BY <1>12 DEF vars
<1> HIDE DEF Children
<1> QED
  BY <1>1, <1>2, <1>3, <1>4, <1>5, <1>6, <1>7, <1>8, <1>9, <1>10, <1>11, <1>12, Steps

LEMMA FramesStep ==
    ASSUME Types, Custody, Children, Frames, BuildingJobs, [LifecycleNext]_vars
    PROVE  Frames'
<1> USE DEF Frames, Framed, rpcVars, daemonVars, builderVars
<1>1. ASSUME NEW dead \in SUBSET Job, Attends(dead) PROVE Frames'
  <2>1. frames' = <<>> \/ (frames' = frames /\ daemon' = daemon)
    BY <1>1, AttendedMain
  <2>2. frames = <<>> \/ dead = {}
    BY <1>1 DEF Attends, Children
  <2>3. \A j \in kids' \ pids' : j \in kids \ pids
    BY <1>1, AttendedMain
  <2>4. CASE frames = <<>> \/ frames' = <<>>
    BY <1>1, <2>1, <2>3, <2>4, AttendedMain
  <2>5. CASE frames # <<>> /\ frames' # <<>>
    <3>1. \A j \in kids \ pids : j \in kids' \ pids'
      BY <1>1, <2>2, <2>5, AttendedMain
    <3> QED BY <2>1, <2>3, <2>5, <3>1
  <2> QED BY <2>4, <2>5
<1>2. CASE HearStop
  <2>1. PICK j \in Job :
           /\ daemon = "up"
           /\ \/ Raise(kids)
              \/ /\ j \in pids /\ pids' = pids \ {j}
                 /\ frames' = <<[job |-> j, copy |-> Copy(j), killed |-> FALSE]>> \o frames
                 /\ UNCHANGED <<daemon, kids>>
              \/ UNCHANGED <<daemon, kids, pids, frames>>
    BY <1>2, HeardStop
  <2>2. CASE Raise(kids)
    BY <2>1, <2>2 DEF Raise
  <2>3. CASE /\ j \in pids /\ pids' = pids \ {j}
             /\ frames' = <<[job |-> j, copy |-> Copy(j), killed |-> FALSE]>> \o frames
             /\ UNCHANGED <<daemon, kids>>
    <3> DEFINE e == [job |-> j, copy |-> Copy(j), killed |-> FALSE]
    <3>1. e \in Frame /\ e.job = j /\ frames \in Seq(Frame)
      BY CopyRead DEF Frame, Types
    <3> HIDE DEF e
    <3>2. /\ frames'[1] = e /\ 1 \in DOMAIN frames'
          /\ \A i \in DOMAIN frames : i + 1 \in DOMAIN frames' /\ frames'[i + 1] = frames[i]
          /\ \A i \in DOMAIN frames' : i = 1 \/ (i - 1 \in DOMAIN frames /\ frames'[i] = frames[i - 1])
      BY <2>3, <3>1, Pushed DEF e
    <3>3. j \in kids /\ \A i \in DOMAIN frames : frames[i].job # j
      BY <2>1, <2>3 DEF Children
    <3>4. \A i \in DOMAIN frames' : frames'[i].job \in kids' \ pids'
      BY <2>3, <3>1, <3>2, <3>3
    <3>5. \A i, k \in DOMAIN frames' : frames'[i].job = frames'[k].job => i = k
      <4>1. frames' \in Seq(Frame)
        BY <2>3, <3>1, Pushed DEF e
      <4>2. \A i \in DOMAIN frames' : i \in Int
        BY <4>1
      <4>3. \A i \in DOMAIN frames' : i # 1 => frames'[i].job # j
        BY <3>2, <3>3
      <4>4. ASSUME NEW i \in DOMAIN frames', NEW k \in DOMAIN frames', i # 1, k # 1,
                   frames'[i].job = frames'[k].job
            PROVE  i = k
        <5>1. /\ i - 1 \in DOMAIN frames /\ frames'[i] = frames[i - 1]
              /\ k - 1 \in DOMAIN frames /\ frames'[k] = frames[k - 1]
          BY <3>2, <4>4
        <5>2. i - 1 = k - 1
          BY <4>4, <5>1
        <5> QED BY <4>2, <5>2
      <4> QED BY <3>1, <3>2, <4>3, <4>4
    <3>6. ASSUME NEW k \in kids' \ pids' PROVE \E i \in DOMAIN frames' : frames'[i].job = k
      <4>1. CASE k = j
        BY <3>1, <3>2, <4>1
      <4>2. CASE k # j
        <5>1. PICK i \in DOMAIN frames : frames[i].job = k
          BY <2>1, <2>3, <4>2
        <5> QED BY <3>2, <5>1
      <4> QED BY <4>1, <4>2
    <3> QED BY <3>4, <3>5, <3>6
  <2> QED BY <2>1, <2>2, <2>3
<1>3. CASE FinishStop
  <2>1. PICK j \in Job :
           /\ daemon = "up" /\ frames # <<>> /\ frames' = Tail(frames)
           /\ 1 \in DOMAIN frames /\ frames[1].job = j /\ kids' = kids \ {j}
           /\ UNCHANGED <<daemon, pids>>
    BY <1>3, FinishedStop
  <2>2. /\ \A i \in DOMAIN frames' : i + 1 \in DOMAIN frames /\ frames'[i] = frames[i + 1]
        /\ \A i \in DOMAIN frames : i = 1 \/ (i - 1 \in DOMAIN frames' /\ frames'[i - 1] = frames[i])
        /\ \A i \in DOMAIN frames' : i \in Nat \ {0}
    <3>1. frames \in Seq(Frame) /\ Tail(frames) \in Seq(Frame)
      BY <2>1, Popped DEF Types
    <3> QED BY <2>1, <3>1, Popped
  <2>3. \A i \in DOMAIN frames' : frames'[i].job # j
    BY <2>1, <2>2
  <2>4. \A i \in DOMAIN frames' : frames'[i].job \in kids' \ pids'
    BY <2>1, <2>2, <2>3
  <2>5. \A i, k \in DOMAIN frames' : frames'[i].job = frames'[k].job => i = k
    BY <2>2
  <2>6. ASSUME NEW k \in kids' \ pids' PROVE \E i \in DOMAIN frames' : frames'[i].job = k
    <3>1. PICK i \in DOMAIN frames : frames[i].job = k
      BY <2>1
    <3>2. i # 1
      BY <2>1, <3>1
    <3> QED BY <2>2, <3>1, <3>2
  <2> QED BY <2>4, <2>5, <2>6
<1>4. CASE KillStopped
  <2>1. DOMAIN frames' = DOMAIN frames /\ \A i \in DOMAIN frames : frames'[i].job = frames[i].job
    BY <1>4, Marked DEF KillStopped, Types
  <2> QED BY <1>4, <2>1 DEF KillStopped
<1>5. CASE Halt \/ Crash
  BY <1>5 DEF Halt, Crash
<1>6. CASE Exit \/ Boot \/ Drain \/ Sweep
  BY <1>6 DEF Exit, Boot, Drain, Sweep, Children
<1>7. CASE \E j \in Job : TermChild(j)
  BY <1>7 DEF TermChild
<1>8. CASE \E j \in Job : Writes(j)
  BY <1>8 DEF Writes
<1>9. ASSUME NEW j \in Job, RpcStep(j) PROVE Frames'
  BY <1>9, RpcJob
<1>10. CASE \E c \in Client : Commits(c)
  BY <1>10 DEF Commits
<1>11. CASE UNCHANGED vars
  BY <1>11 DEF vars
<1> HIDE DEF Frames
<1> QED
  BY <1>1, <1>2, <1>3, <1>4, <1>5, <1>6, <1>7, <1>8, <1>9, <1>10, <1>11, Steps

LEMMA BuildingJobsStep ==
    ASSUME Types, Custody, Children, DoneJobs, BuildingJobs, [LifecycleNext]_vars
    PROVE  BuildingJobs'
<1> SUFFICES ASSUME NEW j \in Job, row'[j] \in Building
             PROVE  builder'[j] \in {"started", "building", "killed", "gone"}
  BY DEF BuildingJobs
<1> DEFINE Fits == builder'[j] \in {"started", "building", "killed", "gone"}
<1>0. /\ CustodyOf(j) /\ row \in [Job -> State] /\ builder \in [Job -> BuilderPhase]
      /\ row[j] \in Building => builder[j] \in {"started", "building", "killed", "gone"}
  BY DEF Custody, BuildingJobs, Types
<1> USE DEF Building, rpcVars, daemonVars, builderVars
<1>1. ASSUME NEW dead \in SUBSET Job, Attends(dead) PROVE Fits
  BY <1>0, <1>1, AttendedJob DEF CustodyOf
<1>2. CASE HearStop
  BY <1>0, <1>2, HeardStop
<1>3. CASE FinishStop
  BY <1>0, <1>3, FinishedStop
<1>4. CASE KillStopped \/ Halt \/ Exit \/ Boot \/ UNCHANGED vars
  BY <1>0, <1>4 DEF KillStopped, Halt, Exit, Boot, vars
<1>5. CASE Crash
  BY <1>0, <1>5 DEF Crash, CustodyOf
<1>6. CASE Drain
  <2>1. row' = row \/ Fails({NextJob})
    BY <1>6, FailTypes DEF Drain
  <2> QED BY <1>0, <1>6, <2>1, WrittenJob DEF Drain
<1>7. CASE Sweep
  BY <1>0, <1>7, FailTypes, WrittenJob DEF Sweep
<1>8. CASE \E k \in Job : TermChild(k)
  BY <1>0, <1>8 DEF TermChild
<1>9. ASSUME NEW k \in Job, Writes(k) PROVE Fits
  BY <1>0, <1>9 DEF Writes
<1>10. ASSUME NEW k \in Job, RpcStep(k) PROVE Fits
  BY <1>0, <1>10, RpcJob
<1>11. CASE \E c \in Client : Commits(c)
  BY <1>0, <1>11 DEF Commits
<1> QED BY <1>1, <1>2, <1>3, <1>4, <1>5, <1>6, <1>7, <1>8, <1>9, <1>10, <1>11, Steps

LEMMA FailsStep ==
    ASSUME Types, Custody, Children, Stops, BuildingJobs, FailsOnlyByDeletion, [LifecycleNext]_vars
    PROVE  FailsOnlyByDeletion'
<1> USE DEF FailsOnlyByDeletion, rpcVars, daemonVars, builderVars
<1>1. ASSUME NEW dead \in SUBSET Job, Attends(dead) PROVE FailsOnlyByDeletion'
  <2>1. CASE UNCHANGED daemon
    BY <1>1, <2>1 DEF Attends
  <2>2. CASE \E j \in Job : row[j] = "none" /\ (j \in queue \/ builder[j] # "none")
    BY <1>1, <2>2 DEF Attends, Custody, CustodyOf
  <2> QED BY <1>1, <2>1, <2>2, AttendedMain
<1>2. CASE HearStop
  <2>1. PICK j \in Job : /\ 1 \in DOMAIN inbox /\ inbox[1].kind = "stop" /\ inbox[1].job = j
                         /\ (row[j] = "none" \/ UNCHANGED daemon) /\ UNCHANGED deleted
    BY <1>2, HeardStop
  <2>2. call[j] # "none"
    BY <2>1 DEF Stops, Asked
  <2> QED BY <2>1, <2>2 DEF Custody, CustodyOf
<1>3. CASE FinishStop
  BY <1>3, FinishedStop
<1>4. CASE KillStopped \/ Halt \/ Exit \/ Crash \/ Boot \/ Drain \/ Sweep \/ UNCHANGED vars
  BY <1>4 DEF KillStopped, Halt, Exit, Crash, Boot, Drain, Sweep, vars
<1>5. CASE \E j \in Job : TermChild(j) \/ Writes(j)
  BY <1>5 DEF TermChild, Writes
<1>6. ASSUME NEW j \in Job, RpcStep(j) PROVE FailsOnlyByDeletion'
  BY <1>6, RpcJob
<1>7. CASE \E c \in Client : Commits(c)
  BY <1>7 DEF Commits
<1> HIDE DEF FailsOnlyByDeletion
<1> QED BY <1>1, <1>2, <1>3, <1>4, <1>5, <1>6, <1>7, Steps

LEMMA StopsStep ==
    ASSUME Types, Custody, Children, Frames, Stops, DoneJobs, BuildingJobs, [LifecycleNext]_vars
    PROVE  Stops'
<1>0. /\ row \in [Job -> State] /\ builder \in [Job -> BuilderPhase] /\ call \in [Job -> CallPhase]
      /\ \A j \in Job : CustodyOf(j) /\ Settled(j)
      /\ stopped \cap pids = {} /\ inbox \in Seq(Message)
      /\ \A i \in DOMAIN inbox : inbox[i] \in Message /\ Asked(inbox[i])
  BY DEF Stops, Types, Custody
<1>a. ASSUME stopped' \cap pids' = {}, \A j \in Job : Settled(j)',
             \A i \in DOMAIN inbox' : Asked(inbox[i])'
      PROVE  Stops'
  BY <1>a DEF Stops
\* Old messages stay true when calls go on and no builder is undone.
<1>b. ASSUME \A j \in Job : builder'[j] = "none" => builder[j] = "none",
             \A j \in Job : \/ call'[j] = call[j]
                            \/ call[j] \in {"none", "filed"} /\ builder[j] = "none" /\ call'[j] # "none"
                            \/ call[j] = "queued" /\ call'[j] \in {"done", "cut"},
             inbox' = inbox \/ (inbox # <<>> /\ inbox' = Tail(inbox)) \/ inbox' = <<>>
      PROVE  \A i \in DOMAIN inbox' : Asked(inbox[i])'
  <2>1. \A m \in Message : Asked(m) => Asked(m)'
    BY <1>0, <1>b DEF Message, Asked
  <2>2. \A i \in DOMAIN inbox' : \E k \in DOMAIN inbox : inbox'[i] = inbox[k]
    BY <1>0, <1>b, Popped
  <2> QED BY <1>0, <2>1, <2>2
<1> USE DEF rpcVars, daemonVars, builderVars, CustodyOf, Settled
<1>1. ASSUME NEW dead \in SUBSET Job, Attends(dead) PROVE Stops'
  <2>1. \A j \in Job : builder'[j] = "none" => builder[j] = "none"
    BY <1>0, <1>1, AttendedJob
  <2>2. inbox' = inbox \/ (inbox # <<>> /\ inbox' = Tail(inbox))
    BY <1>1 DEF Attends
  <2>3. UNCHANGED <<call, stopped>>
    BY <1>1 DEF Attends
  <2>4. stopped' \cap pids' = {}
    BY <1>0, <1>1, <2>3, AttendedMain
  <2>5. \A j \in Job : Settled(j)'
    BY <1>0, <1>1, <2>3, AttendedJob
  <2> QED BY <1>a, <1>b, <2>1, <2>2, <2>3, <2>4, <2>5
<1>2. CASE HearStop
  <2>1. PICK j \in Job :
           /\ inbox # <<>> /\ inbox' = Tail(inbox) /\ UNCHANGED <<call, builder>>
           /\ 1 \in DOMAIN inbox /\ inbox[1].kind = "stop" /\ inbox[1].job = j
           /\ pids' \subseteq pids
           /\ \/ UNCHANGED <<row, stopped>>
              \/ /\ j \notin pids /\ stopped' = stopped \cup {j}
                 /\ \A k \in Job : row'[k] = IF k = j /\ row[j] \notin Done THEN "failed" ELSE row[k]
    BY <1>2, HeardStop
  <2>2. \A i \in DOMAIN inbox' : Asked(inbox[i])'
    BY <1>b, <2>1
  <2>3. builder[j] = "none" => call[j] \in {"done", "cut"}
    BY <1>0, <2>1 DEF Asked
  <2>4. \A k \in Job : Settled(k)'
    BY <1>0, <2>1, <2>3 DEF Done, Finished
  <2>5. stopped' \cap pids' = {}
    BY <1>0, <2>1
  <2> QED BY <1>a, <2>2, <2>4, <2>5
<1>3. CASE FinishStop
  <2>1. PICK j \in Job :
           /\ 1 \in DOMAIN frames /\ frames[1].job = j /\ stopped' = stopped \cup {j}
           /\ builder[j] # "none" /\ builder' = [builder EXCEPT ![j] = "gone"]
           /\ \A k \in Job : k # j => row'[k] = row[k]
           /\ UNCHANGED <<call, inbox, pids>>
    BY <1>3, FinishedStop
  <2>2. j \notin pids
    BY <2>1 DEF Frames
  <2>3. \A i \in DOMAIN inbox' : Asked(inbox[i])'
    BY <1>0, <1>b, <2>1
  <2>4. \A k \in Job : Settled(k)'
    BY <1>0, <2>1
  <2> QED BY <1>0, <1>a, <2>1, <2>2, <2>3, <2>4
<1>4. CASE KillStopped \/ Halt \/ Exit \/ UNCHANGED vars
  BY <1>4 DEF KillStopped, Halt, Exit, Stops, Asked, vars
<1>5. CASE Crash
  <2>1. /\ UNCHANGED <<row, call, inbox, pids, stopped>>
        /\ \A j \in Job : builder'[j] = "none" => builder[j] = "none"
    BY <1>5 DEF Crash
  <2> QED BY <1>0, <1>a, <1>b, <2>1
<1>6. CASE Boot
  <2>1. /\ UNCHANGED <<row, builder, stopped>> /\ pids' = {} /\ inbox' = <<>>
        /\ \A j \in Job : call[j] \in {"done", "cut"} => call'[j] \in {"done", "cut"}
    BY <1>6 DEF Boot
  <2> QED BY <1>0, <1>a, <2>1
<1>7. CASE Drain \/ Sweep
  <2>1. UNCHANGED <<call, builder, inbox, pids, stopped>>
    BY <1>7 DEF Drain, Sweep
  <2>2. \A j \in Job : row'[j] = row[j] \/ row'[j] = "failed"
    <3>1. row' = row \/ \E J \in SUBSET (Job \cup {NextJob}) : Fails(J)
      BY <1>7, FailTypes DEF Drain, Sweep
    <3> QED BY <3>1, WrittenJob
  <2> QED BY <1>0, <1>a, <1>b, <2>1, <2>2
<1>8. CASE \E j \in Job : TermChild(j)
  BY <1>8 DEF TermChild, Stops, Asked
<1>9. ASSUME NEW k \in Job, Writes(k) PROVE Stops'
  <2>1. /\ UNCHANGED <<call, inbox, pids, stopped>> /\ builder[k] # "none" /\ builder'[k] # "none"
        /\ \A j \in Job : j # k => row'[j] = row[j] /\ builder'[j] = builder[j]
    BY <1>0, <1>9 DEF Writes, Living
  <2> QED BY <1>0, <1>a, <1>b, <2>1
<1>10. ASSUME NEW k \in Job, RpcStep(k) PROVE Stops'
  <2>1. UNCHANGED <<pids, stopped, builder>>
    BY <1>10, RpcJob
  <2>2. \A j \in Job :
           /\ \/ row'[j] = row[j] \/ row'[j] = "none"
              \/ row'[j] = "init" /\ call[j] = "none"
              \/ row'[j] = "queued" /\ call[j] = "queued"
           /\ \/ call'[j] = call[j]
              \/ call[j] \in {"none", "filed"} /\ builder[j] = "none" /\ call'[j] # "none"
              \/ call[j] = "queued" /\ call'[j] = "done"
    BY <1>10, RpcJob
  <2>3. \A j \in Job : Settled(j)'
    BY <1>0, <2>1, <2>2
  <2>4. CASE inbox' = inbox
    BY <1>0, <1>a, <1>b, <2>1, <2>2, <2>3, <2>4
  <2>5. CASE \E m \in Message :
               /\ inbox' = Append(inbox, m)
               /\ m.kind = "stop" => row[m.job] \in {"queued"} \cup Running /\ UNCHANGED <<call, row>>
    <3>1. PICK m \in Message :
             /\ inbox' = Append(inbox, m)
             /\ m.kind = "stop" => row[m.job] \in {"queued"} \cup Running /\ UNCHANGED <<call, row>>
      BY <2>5
    <3>2. Asked(m)'
      BY <1>0, <2>1, <3>1 DEF Message, Running, Asked
    <3>3. \A o \in Message : Asked(o) => Asked(o)'
      BY <1>0, <2>1, <2>2 DEF Message, Asked
    <3>4. \A i \in DOMAIN inbox' : inbox'[i] = m \/ (i \in DOMAIN inbox /\ inbox'[i] = inbox[i])
      BY <1>0, <3>1, Appended
    <3>5. ASSUME NEW i \in DOMAIN inbox' PROVE Asked(inbox[i])'
      <4>1. CASE inbox'[i] = m
        BY <3>2, <4>1
      <4>2. CASE i \in DOMAIN inbox /\ inbox'[i] = inbox[i]
        BY <1>0, <3>3, <4>2
      <4> QED BY <3>4, <4>1, <4>2
    <3> QED BY <1>0, <1>a, <2>1, <2>3, <3>5
  <2> QED BY <1>10, <2>4, <2>5, RpcJob
<1>11. ASSUME NEW c \in Client, Commits(c) PROVE Stops'
  <2>1. UNCHANGED <<call, inbox, pids, stopped, builder>>
    BY <1>11 DEF Commits
  <2>2. \A j \in Job : builder[j] = "none" => row'[j] = row[j]
    BY <1>11 DEF Commits, DoneJobs, DoneOnce, Sealed
  <2> QED BY <1>0, <1>a, <1>b, <2>1, <2>2
<1> QED BY <1>1, <1>2, <1>3, <1>4, <1>5, <1>6, <1>7, <1>8, <1>9, <1>10, <1>11, Steps

LEMMA JobsDone ==
    ASSUME Types, Custody, Children, DoneJobs, BuildingJobs, [LifecycleNext]_vars
    PROVE  DoneOnce'
<1>0. /\ \A j \in Job : CustodyOf(j)
      /\ \A c \in Client : \A j \in Batch(c) \cap Job : Sealed(j)
      /\ \A j \in Job : Busy(j) /\ ~Excused(j) => row[j] \notin Done
      /\ builder \in [Job -> BuilderPhase] /\ row \in [Job -> State]
  BY DEF Custody, DoneJobs, DoneOnce, Types
<1>a. ASSUME UNCHANGED commit,
             \A j \in Job : builder[j] # "none" => builder'[j] # "none",
             \A j \in Job : Busy(j)' =>
                \/ /\ Busy(j) /\ (Excused(j) => Excused(j)')
                   /\ row'[j] = row[j] \/ row'[j] \notin Done \/ Excused(j)'
                \/ builder[j] = "none" /\ row'[j] \notin Done
      PROVE  DoneOnce'
  <2>1. \A c \in Client : Batch(c)' = Batch(c)
    BY <1>a DEF Batch
  <2>2. \A j \in Job : Sealed(j) => Sealed(j)'
    BY <1>a DEF Sealed
  <2>3. \A j \in Job : Busy(j)' /\ ~Excused(j)' => row'[j] \notin Done
    BY <1>0, <1>a
  <2> QED BY <1>0, <2>1, <2>2, <2>3 DEF DoneOnce
<1> USE DEF rpcVars, daemonVars, builderVars, Busy, Excused
<1>1. ASSUME NEW dead \in SUBSET Job, Attends(dead) PROVE DoneOnce'
  <2>1. UNCHANGED <<commit, wentOn>>
    BY <1>1 DEF Attends, rpcVars
  <2>2. \A j \in Job : builder[j] # "none" /\ Excused(j) => Excused(j)'
    BY <1>1, <2>1, AttendedMain
  <2>3. ASSUME NEW j \in Job
        PROVE  /\ builder[j] # "none" => builder'[j] # "none"
               /\ Busy(j)' =>
                    /\ row'[j] = row[j]
                    /\ \/ Busy(j) /\ builder[j] # "none"
                       \/ builder[j] = "none" /\ row[j] \in {"init", "queued"}
    BY <1>0, <1>1, AttendedJob DEF CustodyOf
  <2> HIDE DEF Busy, Excused
  <2> QED BY <1>a, <2>1, <2>2, <2>3 DEF Done, Finished
<1>2. CASE HearStop
  <2>1. /\ UNCHANGED <<commit, builder, wentOn>> /\ pids' \subseteq pids
        /\ daemon = "up" /\ \A j \in Job : row'[j] = row[j] \/ (row'[j] = "failed" /\ j \notin pids)
    BY <1>2, HeardStop
  <2> QED BY <1>a, <2>1 DEF Done, Finished
<1>3. CASE FinishStop
  <2>1. PICK j \in Job :
           /\ builder' = [builder EXCEPT ![j] = "gone"]
           /\ \A k \in Job : k # j => row'[k] = row[k]
           /\ UNCHANGED <<commit, wentOn, pids, daemon>>
    BY <1>3, FinishedStop
  <2> QED BY <1>0, <1>a, <2>1
<1>4. CASE KillStopped \/ Halt \/ Exit \/ UNCHANGED vars
  <2>1. UNCHANGED <<row, commit, builder, wentOn, pids>> /\ (UNCHANGED daemon \/ daemon' # "up")
    BY <1>4 DEF KillStopped, Halt, Exit, vars
  <2> QED BY <1>a, <2>1
<1>5. CASE Crash
  <2>1. UNCHANGED commit /\ \A j \in Job : builder'[j] = IF builder[j] = "none" THEN "none" ELSE "gone"
    BY <1>5 DEF Crash
  <2> QED BY <1>a, <2>1
<1>6. CASE Boot \/ Drain \/ Sweep
  <2>1. UNCHANGED <<commit, builder, wentOn>> /\ (daemon' # "up" \/ pids' = {})
    BY <1>6 DEF Boot, Drain, Sweep, Children
  <2> QED BY <1>a, <2>1
<1>7. CASE \E j \in Job : TermChild(j)
  <2>1. UNCHANGED <<row, commit, builder, wentOn, pids, daemon>>
    BY <1>7 DEF TermChild
  <2> QED BY <1>a, <2>1
<1>8. ASSUME NEW k \in Job, Writes(k) PROVE DoneOnce'
  <2>1. /\ UNCHANGED <<commit, pids, daemon>> /\ wentOn \subseteq wentOn'
        /\ \A j \in Job : j # k => builder'[j] = builder[j] /\ row'[j] = row[j]
        /\ builder'[k] # "none"
        /\ Busy(k)' => Busy(k) /\ (row'[k] = row[k] \/ row'[k] \notin Done \/ k \in wentOn')
    BY <1>0, <1>8 DEF Writes, Living
  <2> QED BY <1>a, <2>1
<1>9. ASSUME NEW k \in Job, RpcStep(k) PROVE DoneOnce'
  <2>1. UNCHANGED <<commit, pids, daemon, builder, wentOn>>
    BY <1>9, RpcJob
  <2>2. \A j \in Job : row'[j] = row[j] \/ row'[j] \in {"none", "init", "queued"}
    BY <1>9, RpcJob
  <2> QED BY <1>a, <2>1, <2>2 DEF Done, Finished
<1>10. ASSUME NEW c \in Client, Commits(c) PROVE DoneOnce'
  <2>1. /\ UNCHANGED <<pids, daemon, builder, wentOn>>
        /\ \A d \in Client : \A j \in Job : j \in Batch(d)' =>
              j \in Batch(d) \/ (j \in built /\ row[j] \in Finished)
        /\ \A j \in Job : row'[j] # row[j] => j \in Batch(c)
    BY <1>10 DEF Commits
  <2>2. \A j \in Job : Sealed(j)' <=> Sealed(j)
    BY <2>1 DEF Sealed
  <2>3. \A j \in Job : j \in built /\ row[j] \in Finished => Sealed(j)
    BY <1>0 DEF CustodyOf, Sealed, Done
  <2>4. \A j \in Job : Busy(j)' /\ ~Excused(j)' => row'[j] \notin Done
    BY <1>0, <2>1 DEF Sealed
  <2> QED BY <1>0, <2>1, <2>2, <2>3, <2>4 DEF DoneOnce
<1> QED
  BY <1>1, <1>2, <1>3, <1>4, <1>5, <1>6, <1>7, <1>8, <1>9, <1>10, Steps

LEMMA FramesDone ==
    ASSUME Types, Custody, Children, Frames, DoneJobs, BuildingJobs, [LifecycleNext]_vars
    PROVE  FramesHalted'
<1>0. /\ frames \in Seq(Frame) /\ \A i \in DOMAIN frames : frames[i] \in Frame /\ Halted(frames[i])
      /\ builder \in [Job -> BuilderPhase] /\ row \in [Job -> State]
  BY DEF DoneJobs, FramesHalted, Types
<1>a. ASSUME wentOn \subseteq wentOn',
             \A i \in DOMAIN frames' : \E k \in DOMAIN frames :
                /\ frames'[i].job = frames[k].job /\ frames'[i].copy = frames[k].copy
                /\ \A j \in Job : frames[k].job = j /\ Over(j) => Over(j)'
      PROVE  FramesHalted'
  <2>1. ASSUME NEW i \in DOMAIN frames' PROVE Halted(frames[i])'
    <3>1. PICK k \in DOMAIN frames :
             /\ frames'[i].job = frames[k].job /\ frames'[i].copy = frames[k].copy
             /\ \A j \in Job : frames[k].job = j /\ Over(j) => Over(j)'
      BY <1>a
    <3>2. PICK j \in Job : j = frames[k].job
      BY <1>0 DEF Frame
    <3>3. Halted(frames[k])
      BY <1>0
    <3>4. frames'[i].copy.state \in Done => j \in wentOn \/ Over(j)
      BY <3>1, <3>2, <3>3 DEF Halted
    <3>5. frames'[i].copy.state \in Done => j \in wentOn' \/ Over(j)'
      BY <1>a, <3>1, <3>2, <3>4
    <3> QED BY <3>1, <3>2, <3>5 DEF Halted, Over
  <2> QED BY <2>1 DEF FramesHalted
<1> USE DEF rpcVars, daemonVars, builderVars
<1>b. ASSUME wentOn \subseteq wentOn', frames' = frames \/ frames' = <<>>,
             \A j \in Job : Framed(j) /\ Over(j) => Over(j)'
      PROVE  FramesHalted'
  <2>1. \A i \in DOMAIN frames : \A j \in Job : frames[i].job = j => Framed(j)
    BY DEF Framed
  <2> QED BY <1>a, <1>b, <2>1
<1>1. ASSUME NEW dead \in SUBSET Job, Attends(dead) PROVE FramesHalted'
  <2>1. UNCHANGED wentOn
    BY <1>1 DEF Attends
  <2>2. frames' = <<>> \/ frames' = frames
    BY <1>1, AttendedMain
  <2>3. ASSUME NEW j \in Job, Framed(j), Over(j) PROVE Over(j)'
    <3>1. dead = {}
      BY <1>1, <2>3 DEF Attends, Children, Framed
    <3>2. row'[j] = row[j] \/ row'[j] = "failed"
      BY <1>1, AttendedJob
    <3>3. builder'[j] = builder[j]
      BY <1>1, <2>3, <3>1, AttendedJob DEF Over
    <3> QED BY <2>3, <3>2, <3>3 DEF Over, Building
  <2> QED BY <1>b, <2>1, <2>2, <2>3
<1>2. CASE HearStop
  <2>1. PICK j \in Job :
           /\ daemon = "up" /\ UNCHANGED <<wentOn, builder>>
           /\ \A k \in Job : row'[k] = row[k] \/ row'[k] = "failed"
           /\ \/ frames' = <<>> \/ frames' = frames
              \/ /\ j \in pids /\ UNCHANGED row
                 /\ frames' = <<[job |-> j, copy |-> Copy(j), killed |-> FALSE]>> \o frames
    <3>1. Raise(kids) => frames' = <<>>
      BY DEF Raise
    <3> QED BY <1>2, <3>1, HeardStop
  <2>2. \A k \in Job : Over(k) => Over(k)'
    BY <2>1 DEF Over, Building
  <2>3. CASE frames' = <<>> \/ frames' = frames
    BY <1>0, <1>b, <2>1, <2>2, <2>3 DEF Frame
  <2>4. CASE /\ j \in pids /\ UNCHANGED row
             /\ frames' = <<[job |-> j, copy |-> Copy(j), killed |-> FALSE]>> \o frames
    <3>1. PICK e \in Frame : /\ e = [job |-> j, copy |-> Copy(j), killed |-> FALSE]
                             /\ e.job = j /\ e.copy.state = row[j]
      <4>1. [job |-> j, copy |-> Copy(j), killed |-> FALSE] \in Frame /\ Copy(j).state = row[j]
        BY <1>0, CopyRead DEF Frame
      <4> QED BY <4>1
    <3>2. frames'[1] = e /\ \A i \in DOMAIN frames' :
             i = 1 \/ (i - 1 \in DOMAIN frames /\ frames'[i] = frames[i - 1])
      BY <1>0, <2>4, <3>1, Pushed
    <3>3. row[j] \in Done => j \in wentOn \/ Over(j)
      <4>1. j \in kids
        BY <2>1, <2>4 DEF Children
      <4>2. Alive(j) \/ Zombie(j)
        BY <4>1 DEF Children
      <4>3. row[j] \in Done => ~Busy(j) \/ j \in wentOn
        BY <2>1, <2>4 DEF DoneJobs, DoneOnce, Excused
      <4> QED BY <4>2, <4>3 DEF Busy, Alive, Zombie, Over, Done, Finished, Building
    <3>4. Halted(e)'
      BY <2>1, <2>2, <3>1, <3>3 DEF Halted, Over
    <3>5. \A f \in Frame : Halted(f) => Halted(f)'
      BY <2>1, <2>2 DEF Halted, Over, Frame
    <3>6. ASSUME NEW i \in DOMAIN frames' PROVE Halted(frames[i])'
      <4>1. CASE frames'[i] = e
        BY <3>4, <4>1
      <4>2. CASE i - 1 \in DOMAIN frames /\ frames'[i] = frames[i - 1]
        <5>1. Halted(frames[i - 1]) /\ frames[i - 1] \in Frame
          BY <1>0, <4>2
        <5> QED BY <3>5, <4>2, <5>1
      <4> QED BY <3>2, <4>1, <4>2
    <3> QED BY <3>6 DEF FramesHalted
  <2> QED BY <2>1, <2>3, <2>4
<1>3. CASE FinishStop
  <2>1. PICK j \in Job :
           /\ frames # <<>> /\ frames' = Tail(frames) /\ 1 \in DOMAIN frames /\ frames[1].job = j
           /\ builder' = [builder EXCEPT ![j] = "gone"] /\ UNCHANGED wentOn
           /\ \A k \in Job : k # j => row'[k] = row[k]
    BY <1>3, FinishedStop
  <2>2. ASSUME NEW i \in DOMAIN frames'
        PROVE  \E k \in DOMAIN frames :
                 /\ frames'[i].job = frames[k].job /\ frames'[i].copy = frames[k].copy
                 /\ \A l \in Job : frames[k].job = l /\ Over(l) => Over(l)'
    <3>1. i + 1 \in DOMAIN frames /\ frames'[i] = frames[i + 1]
      BY <1>0, <2>1, Popped
    <3>2. i \in Nat \ {0}
      <4>1. Tail(frames) \in Seq(Frame)
        BY <1>0, <2>1, Popped
      <4> QED BY <2>1, <4>1
    <3>3. frames[i + 1].job # j
      BY <1>0, <2>1, <3>1, <3>2 DEF Frames
    <3>4. \A l \in Job : l # j /\ Over(l) => Over(l)'
      BY <1>0, <2>1 DEF Over
    <3> QED BY <3>1, <3>3, <3>4
  <2> QED BY <1>a, <2>1, <2>2
<1>4. CASE KillStopped
  <2>1. /\ DOMAIN frames' = DOMAIN frames /\ UNCHANGED <<wentOn, row, builder>>
        /\ \A i \in DOMAIN frames : frames'[i].job = frames[i].job /\ frames'[i].copy = frames[i].copy
    BY <1>0, <1>4, Marked DEF KillStopped
  <2>2. \A j \in Job : Over(j) => Over(j)'
    BY <2>1 DEF Over
  <2> QED BY <1>a, <2>1, <2>2
<1>5. CASE Crash
  BY <1>5 DEF Crash, FramesHalted
<1>6. CASE Exit \/ Boot \/ Drain \/ Sweep
  BY <1>6 DEF Exit, Boot, Drain, Sweep, Children, FramesHalted
<1>7. CASE Halt \/ UNCHANGED vars \/ \E j \in Job : TermChild(j)
  <2>1. UNCHANGED <<wentOn, frames, row, builder>>
    BY <1>7 DEF Halt, TermChild, vars
  <2> QED BY <1>b, <2>1 DEF Over
<1>8. ASSUME NEW k \in Job, Writes(k) PROVE FramesHalted'
  <2>1. /\ UNCHANGED frames /\ wentOn \subseteq wentOn'
        /\ \A j \in Job : j # k => builder'[j] = builder[j] /\ row'[j] = row[j]
    BY <1>0, <1>8 DEF Writes
  <2>2. Over(k) => Over(k)'
    BY <1>0, <1>8 DEF Writes, Over, Living, Busy
  <2>3. \A j \in Job : Over(j) => Over(j)'
    BY <2>1, <2>2 DEF Over
  <2> QED BY <1>0, <1>b, <2>1, <2>3 DEF Frame
<1>9. ASSUME NEW k \in Job, RpcStep(k) PROVE FramesHalted'
  <2>1. UNCHANGED <<frames, wentOn, builder>>
    BY <1>9, RpcJob
  <2>2. \A j \in Job : row'[j] = row[j] \/ row'[j] \in {"none", "init", "queued"}
    BY <1>9, RpcJob
  <2>3. \A j \in Job : Over(j) => Over(j)'
    BY <2>1, <2>2 DEF Over, Building
  <2> QED BY <1>0, <1>b, <2>1, <2>3 DEF Frame
<1>10. ASSUME NEW c \in Client, Commits(c) PROVE FramesHalted'
  <2>1. UNCHANGED <<frames, wentOn, builder>>
    BY <1>10 DEF Commits
  <2>2. \A j \in Job : Over(j) => Over(j)'
    BY <1>10, <2>1 DEF Over, Building, Commits
  <2> QED BY <1>0, <1>b, <2>1, <2>2 DEF Frame
<1> QED
  BY <1>1, <1>2, <1>3, <1>4, <1>5, <1>6, <1>7, <1>8, <1>9, <1>10, Steps

LEMMA DoneJobsStep ==
    ASSUME Types, Custody, Children, Frames, DoneJobs, BuildingJobs, [LifecycleNext]_vars
    PROVE  DoneJobs'
  BY JobsDone, FramesDone DEF DoneJobs

\* Who commits a job.
CommitsJob(j, c) ==
    /\ j \in Batch(c)
    /\ commit[c].phase \in {"started", "lost", "done"}
    /\ commit[c].phase = "done" => j \notin Todo(c)

LEMMA CommitKept ==
    ASSUME Types, NEW c \in Client, CommitStep(c), NEW j \in Job, row'[j] = "committing",
           CommittingHasClient
    PROVE  \E d \in Client : CommitsJob(j, d)'
<1>0. row[j] = "committing" => \E d \in Client : CommitsJob(j, d)
  BY DEF CommittingHasClient, CommitsJob
<1>a. ASSUME NEW d \in Client, CommitsJob(j, d), commit'[d] = commit[d]
      PROVE  CommitsJob(j, d)'
  BY <1>a DEF CommitsJob, Batch, Todo
<1>b. ASSUME NEW from \in CommitPhase, NEW to \in CommitPhase, NEW J, NEW s \in State \ {"none"},
             Rpc(c, from, to, J, s)
      PROVE  /\ \A d \in Client : commit'[d].before = commit[d].before
             /\ \A d \in Client \ {c} : commit'[d] = commit[d]
             /\ row'[j] = row[j] \/ (row'[j] = s /\ j \in J)
             /\ commit[c].phase = from
             /\ \/ commit'[c].phase = "lost" /\ UNCHANGED row
                \/ commit'[c].phase = to /\ (j \in J => row'[j] = s)
  BY <1>b, Rpcs
<1>1. CASE ChooseJobs(c)
  <2>1. /\ row'[j] = row[j] /\ commit[c].phase = "none"
        /\ \A d \in Client \ {c} : commit'[d] = commit[d]
    BY <1>1 DEF ChooseJobs, Types
  <2> QED BY <1>0, <1>a, <2>1 DEF CommitsJob
<1>2. CASE StartCommit(c)
  <2>1. Rpc(c, "chosen", "started", Batch(c), "committing")
    BY <1>2 DEF StartCommit
  <2>2. {"chosen", "started"} \subseteq CommitPhase /\ "committing" \in State \ {"none"}
    BY DEF CommitPhase, State
  <2>3. CASE j \in Batch(c)
    <3>1. commit'[c].phase \in {"started", "lost"} /\ commit'[c].before = commit[c].before
      BY <1>b, <2>1, <2>2
    <3>2. CommitsJob(j, c)'
      BY <2>3, <3>1 DEF CommitsJob, Batch
    <3> QED BY <3>2
  <2>4. CASE j \notin Batch(c)
    <3>1. row[j] = "committing" /\ \A d \in Client \ {c} : commit'[d] = commit[d]
      BY <1>b, <2>1, <2>2, <2>4
    <3> QED BY <1>0, <1>a, <2>4, <3>1 DEF CommitsJob
  <2> QED BY <2>3, <2>4
<1>3. CASE CommitFails(c) \/ CommitSucceeds(c) \/ CommitLost(c)
  <2>1. /\ row[j] = "committing" /\ commit[c].phase = "started"
        /\ \A d \in Client : commit'[d].before = commit[d].before
        /\ \A d \in Client \ {c} : commit'[d] = commit[d]
        /\ \/ commit'[c].phase = "lost"
           \/ commit'[c].phase = "failed" /\ j \notin Batch(c)
           \/ commit'[c].phase = "done" /\ j \notin Todo(c)
    <3>1. CASE CommitFails(c)
      <4>1. Rpc(c, "started", "failed", Batch(c), "built")
        BY <3>1 DEF CommitFails
      <4>2. {"failed", "started"} \subseteq CommitPhase /\ "built" \in State \ {"none"}
        BY DEF CommitPhase, State
      <4> QED BY <1>b, <4>1, <4>2
    <3>2. CASE CommitSucceeds(c)
      <4>1. Rpc(c, "started", "done", Todo(c), "committed")
        BY <3>2 DEF CommitSucceeds
      <4>2. {"done", "started"} \subseteq CommitPhase /\ "committed" \in State \ {"none"}
        BY DEF CommitPhase, State
      <4> QED BY <1>b, <4>1, <4>2
    <3>3. CASE CommitLost(c)
      BY <3>3 DEF CommitLost, Types
    <3> QED BY <1>3, <3>1, <3>2, <3>3
  <2>2. PICK d \in Client : CommitsJob(j, d)
    BY <1>0, <2>1
  <2>3. CASE d # c
    BY <1>a, <2>1, <2>2, <2>3
  <2>4. CASE d = c
    <3>1. Batch(c)' = Batch(c) /\ Todo(c)' = Todo(c)
      BY <2>1 DEF Batch, Todo
    <3>2. CommitsJob(j, c)'
      BY <2>1, <2>2, <2>4, <3>1 DEF CommitsJob
    <3> QED BY <3>2
  <2> QED BY <2>3, <2>4
<1> QED BY <1>1, <1>2, <1>3 DEF CommitStep

LEMMA CommittingStep ==
    ASSUME Types, Custody, Children, BuildingJobs, CommittingHasClient, [LifecycleNext]_vars
    PROVE  CommittingHasClient'
<1> SUFFICES ASSUME NEW j \in Job, row'[j] = "committing"
             PROVE  \E d \in Client : CommitsJob(j, d)'
  BY DEF CommittingHasClient, CommitsJob
<1>1. CASE \E c \in Client : CommitStep(c)
  BY <1>1, CommitKept
<1>2. ASSUME UNCHANGED commit, row[j] = "committing" PROVE \E d \in Client : CommitsJob(j, d)'
  BY <1>2 DEF CommittingHasClient, CommitsJob, Batch, Todo
<1> USE DEF rpcVars, daemonVars, builderVars
<1>3. CASE DaemonStep
  <2>1. UNCHANGED commit
    BY <1>3 DEF DaemonStep, LoopStartsJob, HearQueued, HearStop, KillStopped, FinishStop,
                CollectChild, TermChild, ReapChild, Exit, Boot, Drain, Sweep
  <2>2. row'[j] = row[j] \/ row'[j] = "failed"
    <3>1. CASE \E dead \in SUBSET Job : Attends(dead)
      BY <3>1, AttendedJob
    <3>2. CASE HearStop
      BY <3>2, HeardStop
    <3>3. CASE FinishStop
      BY <3>3, FinishedStop
    <3>4. CASE Drain \/ Sweep
      <4>1. row' = row \/ \E J \in SUBSET (Job \cup {NextJob}) : Fails(J)
        BY <3>4, FailTypes DEF Drain, Sweep
      <4> QED BY <4>1, WrittenJob
    <3>5. CASE KillStopped \/ Exit \/ Boot \/ \E k \in Job : TermChild(k)
      BY <3>5 DEF KillStopped, Exit, Boot, TermChild
    <3> QED BY <1>3, <3>1, <3>2, <3>3, <3>4, <3>5, MainSteps DEF DaemonStep
  <2> QED BY <1>2, <2>1, <2>2
<1>4. CASE Halt \/ Crash \/ UNCHANGED vars
  BY <1>2, <1>4 DEF Halt, Crash, vars
<1>5. ASSUME NEW k \in Job, Own(k) PROVE \E d \in Client : CommitsJob(j, d)'
  <2>1. Writes(k)
    BY <1>5, OwnSteps
  <2>2. UNCHANGED commit /\ row[j] = "committing"
    BY <2>1 DEF Writes
  <2> QED BY <1>2, <2>2
<1>6. ASSUME NEW k \in Job, RpcStep(k) PROVE \E d \in Client : CommitsJob(j, d)'
  BY <1>2, <1>6, RpcJob
<1> QED BY <1>1, <1>3, <1>4, <1>5, <1>6 DEF LifecycleNext, Own

\* A job that counts as building is kept.
KeptJob(j) ==
    row[j] \in Building =>
        \/ Alive(j)
        \/ Zombie(j) /\ j \in kids
        \/ daemon # "up"
        \/ j \in (wentOn \cap stopped) \cup orphans

LEMMA KeeperStep ==
    ASSUME Invariant, [LifecycleNext]_vars
    PROVE  BuildingHasKeeper'
<1> SUFFICES ASSUME NEW j \in Job, row'[j] \in Building PROVE KeptJob(j)'
  BY DEF BuildingHasKeeper, KeptJob
<1>0. /\ Types /\ Custody /\ Children /\ BuildingJobs
      /\ CustodyOf(j) /\ KeptJob(j)
      /\ row \in [Job -> State] /\ builder \in [Job -> BuilderPhase]
      /\ row[j] \in Building => builder[j] \in {"started", "building", "killed", "gone"}
  BY DEF Invariant, Custody, BuildingHasKeeper, BuildingJobs, Types, KeptJob
<1>a. ASSUME row[j] \in Building, UNCHANGED <<builder, kids, wentOn, daemon>>,
             stopped \subseteq stopped', orphans \subseteq orphans'
      PROVE  KeptJob(j)'
  BY <1>0, <1>a DEF KeptJob, Alive, Zombie
<1>b. ASSUME daemon' # "up" PROVE KeptJob(j)'
  BY <1>b DEF KeptJob
<1> USE DEF rpcVars, daemonVars, builderVars
<1>1. ASSUME NEW dead \in SUBSET Job, Attends(dead) PROVE KeptJob(j)'
  <2>1. CASE daemon' # "up"
    BY <1>b, <2>1
  <2>2. CASE daemon' = "up"
    <3>1. row'[j] = row[j]
      BY <1>0, <1>1, AttendedJob DEF Building
    <3>2. /\ UNCHANGED <<daemon, orphans, stopped, wentOn>> /\ kids \ dead \subseteq kids'
      BY <1>0, <1>1, <2>2, AttendedMain DEF Attends
    <3>3. builder[j] # "none"
      BY <1>0, <3>1
    <3>4. CASE j \notin dead
      <4>1. builder'[j] = builder[j]
        BY <1>0, <1>1, <3>3, <3>4, AttendedJob
      <4> QED BY <1>0, <3>1, <3>2, <3>4, <4>1 DEF KeptJob, Alive, Zombie
    <3>5. CASE j \in dead
      <4>1. j \in kids /\ frames = <<>>
        BY <1>1, <2>2, <3>2, <3>5 DEF Attends
      <4>2. j \in pids
        BY <2>2, <3>2, <4>1 DEF Invariant, Frames, Framed
      <4>3. builder[j] # "exit0"
        BY <1>0, <3>1
      <4>4. ~Quiet(dead) /\ ~\E n \in queue : Dropped(dead, n) \/ Launched(dead, n)
        BY <2>2, <3>1, <3>2, <3>5, <4>2, <4>3 DEF Quiet, Dropped, Launched
      <4>5. ~Failed(dead)
        BY <3>5 DEF Failed, Building
      <4>6. ~Raised(dead)
        BY <2>2 DEF Raised, Raise
      <4> QED BY <1>1, <4>4, <4>5, <4>6 DEF Attends, Outcome
    <3> QED BY <3>4, <3>5
  <2> QED BY <2>1, <2>2
<1>2. CASE HearStop
  <2>1. Raise(kids) => daemon' # "up"
    BY DEF Raise
  <2> QED BY <1>0, <1>2, <1>a, <1>b, <2>1, HeardStop DEF Building
<1>3. CASE FinishStop
  <2>1. PICK k \in Job :
           /\ frames # <<>> /\ 1 \in DOMAIN frames /\ frames[1].job = k
           /\ builder' = [builder EXCEPT ![k] = "gone"]
           /\ kids' = kids \ {k} /\ stopped' = stopped \cup {k}
           /\ \A l \in Job : row'[l] =
                 IF l = k /\ frames[1].copy.state \notin Done /\ row[l] # "none" THEN "failed" ELSE row[l]
           /\ UNCHANGED <<daemon, orphans, wentOn>>
    BY <1>0, <1>3, FinishedStop
  <2>2. CASE j # k
    BY <1>0, <2>1, <2>2 DEF KeptJob, Alive, Zombie
  <2>3. CASE j = k
    <3>1. frames[1].copy.state \in Done /\ row[j] \in Building
      BY <2>1, <2>3 DEF Building
    <3>2. Halted(frames[1])
      BY <2>1 DEF Invariant, DoneJobs, FramesHalted
    <3>3. j \in wentOn
      BY <2>1, <2>3, <3>1, <3>2 DEF Halted, Over
    <3> QED BY <2>1, <2>3, <3>3 DEF KeptJob
  <2> QED BY <2>2, <2>3
<1>4. CASE KillStopped \/ UNCHANGED vars \/ \E k \in Job : TermChild(k)
  <2>1. UNCHANGED <<row, builder, kids, wentOn, daemon, stopped, orphans>>
    BY <1>4 DEF KillStopped, TermChild, vars
  <2> QED BY <1>a, <2>1
<1>5. CASE Halt \/ Exit \/ Crash \/ Boot \/ Drain
  BY <1>5, <1>b DEF Halt, Exit, Crash, Boot, Drain
<1>6. CASE Sweep
  <2>1. Fails({k \in Job : row[k] \in Active})
    BY <1>0, <1>6, FailTypes DEF Sweep
  <2> QED BY <1>0, <2>1, WrittenJob DEF Building, Active
<1>7. ASSUME NEW k \in Job, Writes(k) PROVE KeptJob(j)'
  <2>1. UNCHANGED <<kids, daemon, stopped, orphans>> /\ wentOn \subseteq wentOn'
    BY <1>7 DEF Writes
  <2>2. CASE j # k
    <3>1. builder'[j] = builder[j] /\ row'[j] = row[j]
      BY <1>0, <1>7, <2>2 DEF Writes
    <3> QED BY <1>0, <2>1, <3>1 DEF KeptJob, Alive, Zombie
  <2>3. CASE j = k
    <3>1. Alive(j) /\ (Alive(j)' \/ Zombie(j)')
      BY <1>0, <1>7, <2>3 DEF Writes, Living, Alive, Zombie
    <3>2. j \in kids \cup orphans
      BY <1>0, <3>1 DEF Children
    <3> QED BY <2>1, <3>1, <3>2 DEF KeptJob
  <2> QED BY <2>2, <2>3
<1>8. ASSUME NEW k \in Job, RpcStep(k) PROVE KeptJob(j)'
  <2>1. UNCHANGED <<builder, kids, wentOn, daemon, stopped, orphans>>
    BY <1>0, <1>8, RpcJob
  <2>2. row'[j] = row[j]
    BY <1>0, <1>8, RpcJob DEF Building
  <2> QED BY <1>a, <2>1, <2>2
<1>9. ASSUME NEW c \in Client, Commits(c) PROVE KeptJob(j)'
  <2>1. UNCHANGED <<builder, kids, wentOn, daemon, stopped, orphans>> /\ row'[j] = row[j]
    BY <1>9 DEF Commits, Building
  <2> QED BY <1>a, <2>1
<1> QED BY <1>0, <1>1, <1>2, <1>3, <1>4, <1>5, <1>6, <1>7, <1>8, <1>9, Steps

-----------------------------------------------------------------------------
(* The invariant.                                                             *)

LEMMA InvariantInit ==
    ASSUME LifecycleInit
    PROVE  Invariant
<1>1. PICK old \in SUBSET Job :
         /\ row \in [Job -> {"none"} \cup Finished]
         /\ \A j \in Job : Exists(j) <=> j \in old
         /\ queue = {} /\ ChrootTypes
         /\ call = [j \in Job |-> IF j \in old THEN "done" ELSE "none"]
         /\ commit = [c \in Client |-> NoCommit]
         /\ inbox = <<>> /\ daemon = "up" /\ frames = <<>>
         /\ kids = {} /\ pids = {}
         /\ builder = [j \in Job |-> IF j \in old THEN "gone" ELSE "none"]
         /\ built = old /\ termed = {} /\ stopped = {}
  BY DEF LifecycleInit, ChrootTypes
<1>2. Types
  <2>1. NoCommit \in [phase : CommitPhase, before : Before]
    <3>1. NoCommit.before \in [{} -> State] /\ {} \in SUBSET Job
      BY DEF NoCommit
    <3>2. NoCommit.before \in Before
      BY <3>1 DEF Before
    <3> QED BY <3>2 DEF NoCommit, CommitPhase
  <2> QED BY <1>1, <2>1
      DEF Types, State, Finished, CallPhase, BuilderPhase, DaemonPhase
<1>3. Custody
  BY <1>1 DEF Custody, CustodyOf, Exists, Finished
<1>4. Children /\ Frames /\ Stops
  BY <1>1 DEF Children, Frames, Framed, Stops, Settled, Asked, Alive, Zombie
<1>5. \A c \in Client : Batch(c) = {}
  BY <1>1 DEF Batch, NoCommit
<1>6. DoneJobs /\ BuildingJobs
  BY <1>1, <1>5 DEF DoneJobs, DoneOnce, FramesHalted, Busy, BuildingJobs, Building, Finished
<1>7. CommittingHasClient /\ FailsOnlyByDeletion /\ BuildingHasKeeper
  BY <1>1 DEF CommittingHasClient, FailsOnlyByDeletion, BuildingHasKeeper, Building, Finished
<1> QED BY <1>2, <1>3, <1>4, <1>6, <1>7 DEF Invariant

LEMMA InvariantStep ==
    ASSUME Invariant, [LifecycleNext]_vars
    PROVE  Invariant'
<1>1. /\ Types /\ Custody /\ Children /\ Frames /\ Stops /\ DoneJobs /\ BuildingJobs
      /\ CommittingHasClient /\ FailsOnlyByDeletion
  BY DEF Invariant
<1> QED
  BY <1>1, TypesStep, CustodyStep, ChildrenStep, FramesStep, StopsStep, DoneJobsStep,
     BuildingJobsStep, CommittingStep, FailsStep, KeeperStep DEF Invariant

LEMMA AlwaysInvariant == LifecycleSpec => []Invariant
<1>1. LifecycleInit => Invariant
  BY InvariantInit
<1>2. Invariant /\ [LifecycleNext]_vars => Invariant'
  BY InvariantStep
<1> QED BY <1>1, <1>2, PTL DEF LifecycleSpec

-----------------------------------------------------------------------------
(* What follows.                                                              *)

\* The rows, the queue and what the main process keeps of its builders have their
\* types: it has in _pids only processes that run or wait to be reaped, and each
\* stopJob that has not returned waits for one of those.
THEOREM TypeCorrect == LifecycleSpec => []LifecycleTypeOK
<1>1. Invariant => LifecycleTypeOK
  <2> SUFFICES ASSUME Invariant PROVE LifecycleTypeOK
    OBVIOUS
  <2>1. Types /\ Children /\ Frames
    BY DEF Invariant
  <2> QED BY <2>1 DEF LifecycleTypeOK, Types, ChrootTypes, Children, Frames, CallPhase, DaemonPhase
<1> QED BY <1>1, AlwaysInvariant, PTL

\* No job keeps a slot without a builder, or a main process that will hear of the
\* builder's end, but for the two kinds of job that the property names.
THEOREM SlotsComeBack == LifecycleSpec => []BuildingHasKeeper
<1>1. Invariant => BuildingHasKeeper
  BY DEF Invariant
<1> QED BY <1>1, AlwaysInvariant, PTL

\* After stopJob has dealt with a job, nothing builds it any more.
THEOREM StopsAreFinal == LifecycleSpec => []StopSticks
<1>1. Invariant => StopSticks
  <2> SUFFICES ASSUME Invariant, daemon = "up", NEW j \in stopped \cap kids
               PROVE  \E i \in DOMAIN frames : frames[i].job = j
    BY DEF StopSticks
  <2>1. j \notin pids
    BY DEF Invariant, Stops
  <2> QED BY <2>1 DEF Invariant, Frames, Framed
<1> QED BY <1>1, AlwaysInvariant, PTL

\* The server gives up only when a job was deleted between two of its steps.
THEOREM GivesUpOnlyByDeletion == LifecycleSpec => []FailsOnlyByDeletion
<1>1. Invariant => FailsOnlyByDeletion
  BY DEF Invariant
<1> QED BY <1>1, AlwaysInvariant, PTL

\* A job that is being committed has a client that commits it, or has lost it, or
\* has committed it already once.
THEOREM CommitsAreKnown == LifecycleSpec => []CommittingHasClient
<1>1. Invariant => CommittingHasClient
  BY DEF Invariant
<1> QED BY <1>1, AlwaysInvariant, PTL

\* The first job of the queue has no builder, so that it is not built or committed.
LEMMA QueuedJob ==
    ASSUME Types, Custody, NEW j \in queue
    PROVE  /\ j \in Job /\ builder[j] = "none" /\ call[j] \notin {"none", "filed"}
           /\ row[j] \in {"none", "init", "queued", "failed"}
  BY DEF Types, Custody, CustodyOf

LEMMA FinishedStep ==
    ASSUME Invariant, [LifecycleNext]_vars, NEW j \in Job,
           row[j] \in Finished, ~Underway(j), row'[j] # row[j]
    PROVE  row'[j] \in {"committing", "none"}
<1>0. /\ Types /\ Custody /\ Children /\ BuildingJobs /\ CustodyOf(j)
      /\ row \in [Job -> State] /\ call[j] # "queued" /\ ~Alive(j)
      /\ \A i \in DOMAIN frames : frames[i].job # j
      /\ \A c \in Client : commit[c].phase = "started" => j \notin Batch(c)
  BY DEF Invariant, Custody, Types, Underway
<1> USE DEF rpcVars, daemonVars, builderVars
<1>1. ASSUME NEW dead \in SUBSET Job, Attends(dead) PROVE FALSE
  <2>1. CASE Quiet(dead) \/ Raised(dead) \/ \E n \in queue : Launched(dead, n)
    BY <2>1 DEF Quiet, Raised, Launched
  <2>2. CASE Failed(dead)
    BY <1>0, <2>2 DEF Failed, Building, Finished
  <2>3. ASSUME NEW n \in queue, Dropped(dead, n) PROVE FALSE
    <3>1. n \in Job /\ row[n] \in {"none", "init", "queued", "failed"}
      BY <1>0, QueuedJob
    <3> QED BY <1>0, <2>3, <3>1 DEF Dropped, Finished
  <2> QED BY <1>1, <2>1, <2>2, <2>3 DEF Attends, Outcome
<1>2. CASE HearStop
  BY <1>0, <1>2, HeardStop DEF Done
<1>3. CASE FinishStop
  BY <1>0, <1>3, FinishedStop
<1>4. CASE KillStopped \/ Halt \/ Exit \/ Crash \/ Boot \/ UNCHANGED vars
  BY <1>4 DEF KillStopped, Halt, Exit, Crash, Boot, vars
<1>5. CASE Drain
  <2>1. NextJob \in queue
    BY <1>0, <1>5, NextInQueue DEF Drain
  <2>2. row[NextJob] \in {"none", "init", "queued", "failed"}
    BY <1>0, <2>1, QueuedJob
  <2>3. row' = row \/ Fails({NextJob})
    BY <1>0, <1>5, FailTypes DEF Drain
  <2> QED BY <1>0, <2>2, <2>3, WrittenJob DEF Finished
<1>6. CASE Sweep
  BY <1>0, <1>6, FailTypes, WrittenJob DEF Sweep, Active, Finished
<1>7. CASE \E k \in Job : TermChild(k)
  BY <1>7 DEF TermChild
<1>8. ASSUME NEW k \in Job, Writes(k) PROVE FALSE
  BY <1>0, <1>8 DEF Writes, Living, Alive
<1>9. ASSUME NEW k \in Job, RpcStep(k) PROVE row'[j] \in {"committing", "none"}
  BY <1>0, <1>9, RpcJob DEF CustodyOf, Finished
<1>10. ASSUME NEW c \in Client, Commits(c) PROVE row'[j] \in {"committing", "none"}
  BY <1>0, <1>10 DEF Commits
<1> QED BY <1>0, <1>1, <1>2, <1>3, <1>4, <1>5, <1>6, <1>7, <1>8, <1>9, <1>10, Steps

\* A finished job keeps its result: no reaping, starting, draining or late stop
\* writes over it once what began before is over.
THEOREM ResultsStay == LifecycleSpec => FinishedStays
<1>1. Invariant /\ [LifecycleNext]_vars =>
         [\A j \in Job :
             row[j] \in Finished /\ ~Underway(j) /\ row'[j] # row[j]
                 => row'[j] \in {"committing", "none"}]_vars
  BY FinishedStep
<1> QED BY <1>1, AlwaysInvariant, PTL DEF LifecycleSpec, FinishedStays

-----------------------------------------------------------------------------
(* The chroots.                                                               *)

\* A job that was not stopped, deleted or left behind.
Free(j) == j \notin stopped \cup deleted \cup orphans
Uncommitted(j) == \A c \in Client : j \notin Batch(c)
Holding(j) == builder[j] = "building" \/ (builder[j] = "killed" /\ held[j] # {})

\* A builder has chroots only while it builds, or when it was killed meanwhile; the
\* database then knows them, and does not call the job finished.
HoldsOf(j) ==
    /\ held[j] # {} => builder[j] \in {"building", "killed", "gone"} \/ j \in deleted
    /\ j \in built => builder[j] \in {"building", "ended", "exit0", "killed", "gone"}
    /\ j \in kids /\ Free(j) => held[j] \subseteq using[j]
    /\ j \in kids /\ Free(j) /\ Holding(j) => row[j] \in {"build", "queued"} /\ Uncommitted(j)

Holds == \A j \in Job : HoldsOf(j)

Batched == \A c \in Client : Batch(c) \subseteq built

KeptBy(j) == ~Free(j) \/ (daemon = "up" /\ (j \in kids \/ (row[j] = "queued" /\ Uncommitted(j))))

Keepers ==
    daemon \in {"up", "starting"} => \A p \in active : \E j \in Job : p \in held[j] /\ KeptBy(j)

Chroots == Batched /\ Holds /\ Keepers

\* Jobs that fail.
LEMMA FailedChroots ==
    ASSUME Types, NEW J, NEW known, FailFrom(J, known)
    PROVE  /\ owner' = owner /\ active' \subseteq active
           /\ \A j \in Job : j \notin J => row'[j] = row[j] /\ using'[j] = using[j]
           /\ \A j \in J \cap Job : row[j] # "none" => active' \cap known[j] = {}
           /\ \A j \in Job : row[j] = "none" => using'[j] = using[j]
<1>1. /\ row' = [j \in Job |-> IF j \in J /\ Exists(j) THEN "failed" ELSE row[j]]
      /\ active' = active \ UNION {known[j] : j \in {j \in J : Exists(j)}}
      /\ owner' = owner
  BY DEF FailFrom, WriteAll
<1>2. \E kept : using' = [j \in Job |-> IF j \in {k \in J : Exists(k)} THEN (using[j] \ known[j]) \cap kept
                                                                     ELSE using[j]]
  BY DEF FailFrom
<1>3. \A j \in J \cap Job : row[j] # "none" => active' \cap known[j] = {}
  BY <1>1 DEF Exists
<1>4. \A j \in Job : j \notin J => row'[j] = row[j]
  BY <1>1
<1>5. \A j \in Job : j \notin J \/ row[j] = "none" => using'[j] = using[j]
  BY <1>2 DEF Exists
<1> QED BY <1>1, <1>3, <1>4, <1>5

LEMMA BatchedStep ==
    ASSUME Invariant, Batched, [LifecycleNext]_vars
    PROVE  Batched'
<1>0. Types /\ Custody /\ Children /\ BuildingJobs
  BY DEF Invariant
<1>1. ASSUME NEW c \in Client, Commits(c) PROVE Batched'
  <2>1. UNCHANGED built /\ \A d \in Client : \A j \in Job : j \in Batch(d)' => j \in Batch(d) \/ j \in built
    BY <1>1 DEF Commits, builderVars
  <2>2. \A d \in Client : Batch(d)' \subseteq Job
    <3>1. commit' \in [Client -> [phase : CommitPhase, before : Before]]
      BY <1>1 DEF Commits
    <3>2. \A d \in Client : commit'[d].before \in Before
      BY <3>1
    <3>3. \A f \in Before : DOMAIN f \subseteq Job
      BY DEF Before
    <3> QED BY <3>2, <3>3 DEF Batch
  <2> QED BY <2>1, <2>2 DEF Batched
<1>2. ASSUME UNCHANGED commit, built \subseteq built' PROVE Batched'
  BY <1>2 DEF Batched, Batch
<1> USE DEF rpcVars, daemonVars, builderVars
<1>3. ASSUME NEW dead \in SUBSET Job, Attends(dead) PROVE Batched'
  BY <1>2, <1>3 DEF Attends
<1>4. CASE HearStop \/ KillStopped \/ FinishStop \/ Halt \/ Exit \/ Crash \/ Boot \/ Drain \/ Sweep
           \/ UNCHANGED vars
  BY <1>2, <1>4 DEF HearStop, KillStopped, FinishStop, Halt, Exit, Crash, Boot, Drain, Sweep, vars
<1>5. ASSUME NEW j \in Job, TermChild(j) \/ Writes(j) PROVE Batched'
  BY <1>2, <1>5 DEF TermChild, Writes
<1>6. ASSUME NEW j \in Job, RpcStep(j) PROVE Batched'
  BY <1>0, <1>2, <1>6, RpcJob
<1> QED BY <1>0, <1>1, <1>3, <1>4, <1>5, <1>6, Steps

\* Steps of the main process and of RPCs, which take no chroot and let no builder go
\* on.
LEMMA OutsideHolds ==
    ASSUME Invariant, Holds, UNCHANGED <<held, built, commit>>,
           \A j \in Job : Free(j)' => Free(j),
           deleted \subseteq deleted',
           \A j \in Job : \/ builder'[j] = builder[j]
                          \/ builder[j] = "none" /\ builder'[j] = "forked"
                          \/ builder[j] # "none" /\ builder'[j] = "gone",
           \A j \in Job : j \in kids' /\ Free(j)' =>
              \/ builder[j] = "none"
              \/ /\ j \in kids /\ using'[j] = using[j]
                 /\ row'[j] = row[j] \/ row'[j] = "queued"
    PROVE  Holds'
<1> SUFFICES ASSUME NEW j \in Job PROVE HoldsOf(j)'
  BY DEF Holds
<1>1. HoldsOf(j) /\ (Uncommitted(j) => Uncommitted(j)')
  BY DEF Holds, Uncommitted, Batch
<1>2. held'[j] # {} => builder'[j] \in {"building", "killed", "gone"} \/ j \in deleted'
  BY <1>1 DEF HoldsOf
<1>3. j \in built' => builder'[j] \in {"building", "ended", "exit0", "killed", "gone"}
  BY <1>1 DEF HoldsOf
<1>4. ASSUME j \in kids', Free(j)'
      PROVE  held'[j] \subseteq using'[j]
  BY <1>1, <1>4 DEF HoldsOf, Free
<1>5. ASSUME j \in kids', Free(j)', Holding(j)'
      PROVE  row'[j] \in {"build", "queued"} /\ Uncommitted(j)'
  <2>1. builder'[j] \in {"building", "killed"} /\ builder'[j] = builder[j] /\ builder[j] # "none"
    BY <1>5 DEF Holding
  <2>2. Holding(j)
    BY <1>5, <2>1 DEF Holding
  <2> QED BY <1>1, <1>5, <2>1, <2>2 DEF HoldsOf
<1> QED BY <1>2, <1>3, <1>4, <1>5 DEF HoldsOf

LEMMA OutsideKeepers ==
    ASSUME Keepers, held' = held, active' \subseteq active,
           daemon' \in {"up", "starting"} =>
              /\ daemon \in {"up", "starting"}
              /\ \A j \in Job : \A p \in active' : p \in held[j] /\ KeptBy(j) => KeptBy(j)'
    PROVE  Keepers'
<1> SUFFICES ASSUME daemon' \in {"up", "starting"}, NEW p \in active'
             PROVE  \E j \in Job : p \in held'[j] /\ KeptBy(j)'
  BY DEF Keepers
<1>1. PICK j \in Job : p \in held[j] /\ KeptBy(j)
  BY DEF Keepers
<1> QED BY <1>1

\* The job of a builder that is reaped gives its chroots up, or is called queued.
LEMMA AttendedChroots ==
    ASSUME Invariant, Chroots, NEW dead \in SUBSET Job, Attends(dead)
    PROVE  Holds' /\ Keepers'
<1>0. /\ Types /\ Custody /\ Children /\ Frames /\ Holds /\ Keepers
      /\ \A j \in Job : CustodyOf(j) /\ HoldsOf(j)
      /\ row \in [Job -> State] /\ builder \in [Job -> BuilderPhase]
  BY DEF Invariant, Custody, Types, Chroots, Holds
<1>1. /\ UNCHANGED <<built, commit, deleted, stopped, wentOn>> /\ orphans \subseteq orphans'
      /\ \A j \in dead : builder[j] \in {"exit0", "killed"} /\ j \in kids
  <2>1. orphans \subseteq orphans'
    BY <1>0, AttendedMain
  <2> QED BY <2>1 DEF Attends, rpcVars, Zombie
<1>2. \A j \in Job : \/ builder'[j] = builder[j]
                     \/ builder[j] = "none" /\ builder'[j] = "forked"
                     \/ builder[j] # "none" /\ builder'[j] = "gone"
  BY <1>0, <1>1, AttendedJob
<1>3. \A j \in Job : Free(j)' => Free(j)
  BY <1>1 DEF Free
<1>4. \A j \in Job : Uncommitted(j)' <=> Uncommitted(j)
  BY <1>1 DEF Uncommitted, Batch
<1>5. \A n \in queue : n \in Job /\ builder[n] = "none" /\ n \notin kids /\ (Free(n) => held[n] = {})
  <2>1. \A n \in queue : n \in Job /\ builder[n] = "none"
    BY <1>0, QueuedJob
  <2> QED BY <1>0, <2>1 DEF Children, Alive, Zombie, HoldsOf, Free
<1>6. /\ held' = held /\ active' \subseteq active
      /\ \A j \in Job : j \in kids' => \/ builder[j] = "none"
                                       \/ j \in kids /\ using'[j] = using[j] /\ row'[j] = row[j]
  <2> DEFINE Goal == /\ held' = held /\ active' \subseteq active
                     /\ \A j \in Job : j \in kids' =>
                           \/ builder[j] = "none"
                           \/ j \in kids /\ using'[j] = using[j] /\ row'[j] = row[j]
  <2>1. CASE Quiet(dead) \/ Raised(dead)
    BY <2>1 DEF Quiet, Raised, Calm, Raise, chroots
  <2>2. CASE Failed(dead)
    <3>1. FailFrom(dead, using) /\ held' = held /\ kids' = kids \ dead
      BY <2>2 DEF Failed, Fail, Calm
    <3> QED BY <1>0, <3>1, FailedChroots
  <2>3. ASSUME NEW n \in queue, Dropped(dead, n) PROVE Goal
    <3>1. kids' = kids \ dead /\ (UNCHANGED <<chroots, row>> \/ (FailFrom({n}, using) /\ held' = held)
                                  \/ (UNCHANGED chroots /\ \A j \in Job : j # n => row'[j] = row[j]))
      BY <1>0, <2>3 DEF Dropped, Fail, Calm
    <3>2. CASE FailFrom({n}, using) /\ held' = held
      BY <1>0, <1>5, <3>1, <3>2, FailedChroots
    <3>3. CASE UNCHANGED chroots /\ \A j \in Job : j # n => row'[j] = row[j]
      BY <1>5, <3>1, <3>3 DEF chroots
    <3> QED BY <3>1, <3>2, <3>3
  <2>4. ASSUME NEW n \in queue, Launched(dead, n) PROVE Goal
    BY <1>5, <2>4 DEF Launched, Calm, chroots
  <2> QED BY <2>1, <2>2, <2>3, <2>4 DEF Attends, Outcome
<1>7. Holds'
  BY <1>0, <1>1, <1>2, <1>3, <1>6, OutsideHolds
<1>8. ASSUME daemon' \in {"up", "starting"},
             NEW j \in Job, NEW p \in active', p \in held[j], KeptBy(j)
      PROVE  daemon = "up" /\ KeptBy(j)'
  <2>1. daemon = "up" /\ daemon' = "up" /\ UNCHANGED orphans /\ ~Raised(dead)
    <3>1. daemon \in {"up", "halting", "failing"}
      BY DEF Attends
    <3>2. Raised(dead) => daemon' \in {"failing", "down"}
      BY DEF Raised, Raise
    <3>3. ~Raised(dead) => UNCHANGED <<daemon, orphans>>
      BY DEF Attends, Outcome, Quiet, Failed, Dropped, Launched, Calm
    <3> QED BY <1>8, <3>1, <3>2, <3>3
  <2>2. CASE ~Free(j)
    BY <1>1, <2>1, <2>2 DEF KeptBy, Free
  <2>3. CASE Free(j) /\ j \notin kids
    <3>1. row[j] = "queued" /\ Uncommitted(j)
      BY <1>8, <2>3 DEF KeptBy
    <3>2. j \notin dead /\ j \notin queue
      BY <1>1, <1>5, <1>8, <2>3
    <3>3. row'[j] = row[j]
      <4>1. ASSUME NEW n \in queue, Dropped(dead, n) PROVE row'[j] = row[j]
        <5>1. row' = [row EXCEPT ![n] = "failed"] /\ n # j
          BY <3>2, <4>1 DEF Dropped
        <5> QED BY <5>1
      <4> QED BY <2>1, <3>2, <4>1 DEF Attends, Outcome, Quiet, Failed, Launched
    <3> QED BY <1>4, <2>1, <3>1, <3>3 DEF KeptBy
  <2>4. CASE Free(j) /\ j \in kids /\ j \notin dead
    <3>1. j \in kids'
      BY <2>1, <2>4 DEF Attends, Outcome, Quiet, Failed, Dropped, Launched, Calm
    <3> QED BY <2>1, <3>1 DEF KeptBy
  <2>5. CASE Free(j) /\ j \in dead
    <3>1. j \in pids
      <4>1. frames = <<>>
        BY <2>1, <2>5 DEF Attends
      <4> QED BY <1>0, <1>1, <2>1, <2>5, <4>1 DEF Frames, Framed
    <3>2. builder[j] = "killed" /\ row[j] \in {"build", "queued"} /\ Uncommitted(j)
          /\ held[j] \subseteq using[j]
      <4>1. builder[j] = "killed"
        BY <1>0, <1>1, <1>8, <2>5 DEF HoldsOf, Free
      <4> QED BY <1>0, <1>1, <1>8, <2>5, <4>1 DEF HoldsOf, Holding
    <3>3. CASE Quiet(dead)
      <4>1. row[j] = "queued" /\ row' = row
        BY <2>1, <2>5, <3>1, <3>2, <3>3 DEF Quiet, Building
      <4> QED BY <1>4, <2>1, <3>2, <4>1 DEF KeptBy
    <3>4. CASE Failed(dead)
      <4>1. FailFrom(dead, using)
        BY <3>4 DEF Failed, Fail
      <4>2. active' \cap using[j] = {}
        BY <1>0, <2>5, <3>2, <4>1, FailedChroots
      <4> QED BY <1>8, <3>2, <4>2
    <3>5. CASE \E n \in queue : Dropped(dead, n) \/ Launched(dead, n)
      BY <2>5, <3>1, <3>2, <3>5 DEF Dropped, Launched
    <3> QED BY <2>1, <3>3, <3>4, <3>5 DEF Attends, Outcome
  <2> QED BY <1>1, <2>1, <2>2, <2>3, <2>4, <2>5
<1>9. daemon' \in {"up", "starting"} => daemon = "up"
  <2>1. Raised(dead) => daemon' \in {"failing", "down"}
    BY DEF Raised, Raise
  <2>2. ~Raised(dead) => UNCHANGED daemon
    BY DEF Attends, Outcome, Quiet, Failed, Dropped, Launched, Calm
  <2> QED BY <2>1, <2>2 DEF Attends
<1>10. Keepers'
  BY <1>0, <1>6, <1>8, <1>9, OutsideKeepers
<1> QED BY <1>7, <1>10

LEMMA MarkedChroots ==
    ASSUME Types, NEW j \in Job, NEW copy, MarkStopped(j, copy)
    PROVE  /\ held' = held /\ active' \subseteq active /\ j \in stopped' /\ stopped \subseteq stopped'
           /\ \A k \in Job \ {j} : row'[k] = row[k] /\ using'[k] = using[k]
<1>1. UNCHANGED <<row, chroots>> \/ (FailFrom({j}, [k \in Job |-> copy.chroots]) /\ held' = held)
  BY DEF MarkStopped, Fail
<1>2. stopped' = stopped \cup {j}
  BY DEF MarkStopped
<1>3. CASE UNCHANGED <<row, chroots>>
  BY <1>2, <1>3 DEF chroots
<1>4. CASE FailFrom({j}, [k \in Job |-> copy.chroots]) /\ held' = held
  BY <1>2, <1>4, FailedChroots
<1> QED BY <1>1, <1>3, <1>4

\* A stop that fails a job, and may leave chroots active.
LEMMA StoppedChroots ==
    ASSUME Invariant, Holds, Keepers, NEW j \in Job, NEW copy, MarkStopped(j, copy),
           UNCHANGED <<built, commit, deleted, orphans, daemon>>,
           kids' = kids \/ kids' = kids \ {j},
           \A k \in Job : builder'[k] = builder[k] \/ (builder[k] # "none" /\ builder'[k] = "gone")
    PROVE  Holds' /\ Keepers'
<1>1. /\ held' = held /\ active' \subseteq active /\ j \in stopped' /\ stopped \subseteq stopped'
      /\ \A k \in Job \ {j} : row'[k] = row[k] /\ using'[k] = using[k]
  BY MarkedChroots DEF Invariant
<1>2. \A k \in Job : (Free(k)' => Free(k) /\ k # j) /\ (Uncommitted(k)' <=> Uncommitted(k))
  BY <1>1 DEF Free, Uncommitted, Batch
<1>3. Holds'
  BY <1>1, <1>2, OutsideHolds
<1>4. \A k \in Job : KeptBy(k) => KeptBy(k)'
  BY <1>1, <1>2 DEF KeptBy
<1>5. Keepers'
  BY <1>1, <1>4, OutsideKeepers
<1> QED BY <1>3, <1>5

\* The main process as it hears of stops, ends and starts.
LEMMA MainChroots ==
    ASSUME Invariant, Holds, Keepers,
           \/ HearStop \/ KillStopped \/ FinishStop \/ Halt \/ Exit \/ Crash
           \/ Boot \/ Drain \/ Sweep \/ UNCHANGED vars \/ \E j \in Job : TermChild(j)
    PROVE  Holds' /\ Keepers'
<1>0. /\ Types /\ Children /\ row \in [Job -> State] /\ builder \in [Job -> BuilderPhase]
      /\ (daemon \in {"down", "starting"} => kids = {})
  BY DEF Invariant, Types, Children
<1> USE DEF rpcVars, daemonVars, builderVars, chroots
\* Nothing that matters has changed, or the server is not up.
<1>1. ASSUME UNCHANGED <<row, chroots, built, commit, deleted, stopped>>,
             \/ UNCHANGED <<builder, kids, daemon, orphans>>
             \/ /\ daemon' \notin {"up", "starting"} /\ kids' \subseteq kids /\ orphans \subseteq orphans'
                /\ \A j \in Job : builder'[j] = builder[j] \/ (builder[j] # "none" /\ builder'[j] = "gone")
      PROVE  Holds' /\ Keepers'
  <2>1. \A j \in Job : (Free(j)' => Free(j)) /\ (Uncommitted(j)' <=> Uncommitted(j))
    BY <1>1 DEF Free, Uncommitted, Batch
  <2>2. Holds'
    BY <1>1, <2>1, OutsideHolds
  <2>3. daemon' \in {"up", "starting"} => \A j \in Job : KeptBy(j) => KeptBy(j)'
    BY <1>1 DEF KeptBy, Free, Uncommitted, Batch
  <2>4. Keepers'
    BY <1>1, <2>3, OutsideKeepers
  <2> QED BY <2>2, <2>4
<1>2. CASE KillStopped \/ Halt \/ Exit \/ (\E j \in Job : TermChild(j)) \/ UNCHANGED vars
  BY <1>1, <1>2 DEF KillStopped, Halt, Exit, TermChild, vars
<1>3. CASE Crash
  BY <1>0, <1>1, <1>3 DEF Crash
<1>4. CASE HearStop
  <2> DEFINE j == Head(inbox).job
  <2>1. daemon = "up" /\ inbox # <<>>
    BY <1>4 DEF HearStop, Listening
  <2>2. Head(inbox) \in Message
    BY <1>0, <2>1, Popped DEF Types
  <2>3. j \in Job
    BY <2>2 DEF Message
  <2>4. UNCHANGED <<built, commit, deleted, builder>>
    BY <1>4 DEF HearStop
  <2>5. CASE Raise(kids) /\ UNCHANGED <<row, chroots, stopped>>
    BY <1>1, <2>1, <2>4, <2>5 DEF Raise
  <2>6. CASE UNCHANGED <<daemon, kids, orphans, row, chroots, stopped>>
    BY <1>1, <2>4, <2>6
  <2>7. CASE MarkStopped(j, Copy(j)) /\ UNCHANGED <<daemon, kids, orphans>>
    BY <2>3, <2>4, <2>7, StoppedChroots
  <2> QED BY <1>4, <2>5, <2>6, <2>7 DEF HearStop
<1>5. CASE FinishStop
  <2> DEFINE j == Head(frames).job
  <2>1. frames # <<>>
    BY <1>5 DEF FinishStop
  <2>2. Head(frames) \in Frame
    BY <1>0, <2>1, Popped DEF Types
  <2>3. j \in Job
    BY <2>2 DEF Frame
  <2>4. /\ UNCHANGED <<built, commit, deleted, orphans, daemon>>
        /\ MarkStopped(j, Head(frames).copy) /\ kids' = kids \ {j}
        /\ builder' = [builder EXCEPT ![j] = "gone"] /\ Zombie(j)
    BY <1>5 DEF FinishStop, Collect
  <2>5. \A k \in Job : builder'[k] = builder[k] \/ (builder[k] # "none" /\ builder'[k] = "gone")
    BY <1>0, <2>4 DEF Zombie
  <2> QED BY <2>3, <2>4, <2>5, StoppedChroots
<1>6. CASE Boot \/ Drain \/ Sweep
  <2>1. /\ UNCHANGED <<held, built, commit, deleted, stopped, orphans, builder>>
        /\ kids = {} /\ kids' = {}
    BY <1>0, <1>6 DEF Boot, Drain, Sweep, Fail
  <2>2. \A j \in Job : Free(j)' <=> Free(j)
    BY <2>1 DEF Free
  <2>3. Holds'
    BY <2>1, <2>2, OutsideHolds
  <2>4. Keepers'
    <3>1. CASE Boot
      BY <3>1 DEF Boot, Keepers
    <3>2. CASE Drain \/ Sweep
      <4>1. daemon = "starting" /\ active' \subseteq active
        BY <1>0, <3>2, FailedChroots DEF Drain, Sweep, Fail
      <4>2. \A j \in Job : KeptBy(j) => KeptBy(j)'
        BY <2>2, <4>1 DEF KeptBy
      <4> QED BY <2>1, <4>1, <4>2, OutsideKeepers
    <3> QED BY <1>6, <3>1, <3>2
  <2> QED BY <2>3, <2>4
<1> QED BY <1>2, <1>3, <1>4, <1>5, <1>6

\* What a builder does with the chroots: nothing, for most of its steps, ...
Turns(j) ==
    /\ UNCHANGED <<chroots, built>>
    /\ builder[j] = "building" => held[j] = {}
    /\ builder[j] \in {"building", "ended"} => builder'[j] \in {"ended", "exit0"}
    /\ builder'[j] \notin {"none", "building", "killed"}

\* ... nor when it begins to build, ...
Begins(j) ==
    /\ UNCHANGED <<chroots, built>>
    /\ builder[j] \in {"started", "loaded"} /\ builder'[j] = "building"
    /\ row[j] = "none" \/ row'[j] = "build"

\* ... is killed, ...
Falls(j) == UNCHANGED <<row, chroots, built>> /\ builder'[j] = "killed"

\* ... or fails, which gives them up, ...
GivesUp(j) ==
    /\ FailOwn(j) /\ UNCHANGED built
    /\ builder'[j] \in {"ended", "killed", "loaded"}
    /\ builder'[j] = "loaded" => builder[j] = "loading"

\* ... or it takes or leaves one.
Moves(j) ==
    /\ builder[j] = "building" /\ builder'[j] = "building" /\ UNCHANGED row
    /\ \/ UNCHANGED built /\ \E p \in Path : Activate(j, p)
       \/ /\ built' \in {built, built \cup {j}}
          /\ \E p \in held[j] :
                /\ active' = active \ {p}
                /\ using' = [using EXCEPT ![j] = @ \ {p}]
                /\ held' = [held EXCEPT ![j] = @ \ {p}]

LEMMA OwnChroots ==
    ASSUME Types, NEW j \in Job, Own(j)
    PROVE  Turns(j) \/ Begins(j) \/ Falls(j) \/ GivesUp(j) \/ Moves(j)
<1>0. builder \in [Job -> BuilderPhase] /\ row \in [Job -> State]
  BY DEF Types
<1>1. \A from, to : Step(j, from, to) => builder[j] = from /\ builder'[j] = to
  BY <1>0 DEF Step
<1>2. \A s : Write(j, s) => UNCHANGED chroots /\ (row[j] = "none" \/ row'[j] = s)
  BY <1>0 DEF Write, WriteAll, Exists
<1>3. CASE BuilderStarts(j) \/ Loads(j) \/ BuilderExits(j)
  BY <1>1, <1>2, <1>3 DEF BuilderStarts, Loads, BuilderExits, Turns
<1>4. CASE BuilderNotMade(j)
  BY <1>1, <1>4 DEF BuilderNotMade, Falls, GivesUp
<1>5. CASE LoadEnds(j)
  BY <1>1, <1>2, <1>5 DEF LoadEnds, Turns, GivesUp
<1>6. CASE Builds(j)
  BY <1>1, <1>2, <1>6 DEF Builds, Begins, GivesUp
<1>7. CASE TakesChroot(j) \/ TroveEnds(j)
  BY <1>1, <1>7 DEF TakesChroot, TroveEnds, Moves
<1>8. CASE BuildEnds(j)
  BY <1>1, <1>2, <1>8 DEF BuildEnds, Turns, GivesUp
<1>9. CASE BuilderRaises(j)
  BY <1>1, <1>9 DEF BuilderRaises, GivesUp
<1>10. CASE Signalled(j)
  BY <1>0, <1>10 DEF Signalled, Falls, GivesUp
<1>11. CASE BuilderDies(j) \/ KillHarder(j)
  BY <1>0, <1>11 DEF BuilderDies, KillHarder, Falls
<1> QED
  BY <1>3, <1>4, <1>5, <1>6, <1>7, <1>8, <1>9, <1>10, <1>11 DEF Own, BuilderProgress, WorkStep

LEMMA OwnChrootsStep ==
    ASSUME Invariant, Chroots, NEW j \in Job, Own(j)
    PROVE  Holds' /\ Keepers'
<1>0. /\ Types /\ Children /\ CustodyOf(j) /\ HoldsOf(j) /\ Batched /\ Keepers
      /\ row \in [Job -> State] /\ builder \in [Job -> BuilderPhase]
      /\ using \in [Job -> SUBSET Path] /\ held \in [Job -> SUBSET Path]
  BY DEF Invariant, Custody, Types, ChrootTypes, Chroots, Holds
<1>1. /\ builder[j] \in Living /\ \A k \in Job \ {j} : row'[k] = row[k] /\ builder'[k] = builder[k]
      /\ builder'[j] \in (Living \ {"forked"}) \cup {"exit0", "killed"}
      /\ UNCHANGED <<commit, kids, daemon, stopped, deleted, orphans>>
      /\ row'[j] = "none" <=> row[j] = "none"
  <2>1. Writes(j)
    BY <1>0, OwnSteps DEF Invariant
  <2> QED BY <1>0, <2>1 DEF Writes, rpcVars, daemonVars, Living, BuilderPhase
<1>2. Turns(j) \/ Begins(j) \/ Falls(j) \/ GivesUp(j) \/ Moves(j)
  BY <1>0, OwnChroots
<1>3. \A k \in Job : (Free(k)' <=> Free(k)) /\ (Uncommitted(k)' <=> Uncommitted(k))
  BY <1>1 DEF Free, Uncommitted, Batch
<1>4. row[j] = "none" => ~Free(j)
  BY <1>0, <1>1 DEF CustodyOf, Living, Free
<1>5. GivesUp(j) =>
         /\ active' \subseteq active /\ \A k \in Job \ {j} : using'[k] = using[k] /\ held'[k] = held[k]
         /\ row[j] = "none" => held'[j] = held[j] /\ using'[j] = using[j]
         /\ row[j] # "none" => held'[j] = {} /\ active' \cap held[j] = {}
  <2>1. FailOwn(j) => FailFrom({j}, held) /\ held' = IF row[j] # "none" THEN [held EXCEPT ![j] = {}] ELSE held
    BY DEF FailOwn, Exists
  <2> QED BY <1>0, <2>1, FailedChroots DEF GivesUp
<1>6. ASSUME NEW k \in Job, k # j PROVE HoldsOf(k)' /\ held'[k] = held[k]
  <2>1. held'[k] = held[k] /\ using'[k] = using[k] /\ (k \in built' <=> k \in built)
    BY <1>0, <1>2, <1>5, <1>6 DEF Turns, Begins, Falls, GivesUp, Moves, Activate, chroots
  <2>2. HoldsOf(k)
    BY DEF Chroots, Holds
  <2> QED BY <1>1, <1>3, <1>6, <2>1, <2>2 DEF HoldsOf, Holding
<1>7. j \in built => builder[j] \in {"building", "ended"}
  BY <1>0, <1>1 DEF HoldsOf, Living
<1>8. held[j] # {} => builder[j] = "building" \/ (~Free(j) /\ j \in deleted)
  BY <1>0, <1>1 DEF HoldsOf, Living, Free
<1>9. HoldsOf(j)'
  <2>1. CASE Turns(j)
    BY <1>0, <1>1, <1>3, <1>7, <1>8, <2>1 DEF Turns, HoldsOf, Holding, chroots, Living
  <2>2. CASE Begins(j)
    <3>1. Uncommitted(j)
      BY <1>0, <1>7, <2>2 DEF Begins, Batched, Uncommitted
    <3> QED BY <1>0, <1>1, <1>3, <1>4, <2>2, <3>1 DEF Begins, HoldsOf, Holding, chroots
  <2>3. CASE Falls(j)
    BY <1>0, <1>1, <1>3, <1>8, <2>3 DEF Falls, HoldsOf, Holding, chroots
  <2>4. CASE GivesUp(j)
    <3>1. j \in built' => builder'[j] \in {"building", "ended", "exit0", "killed", "gone"}
      BY <1>7, <2>4 DEF GivesUp
    <3>2. CASE row[j] # "none"
      <4>1. held'[j] = {} /\ builder'[j] # "building"
        BY <1>5, <2>4, <3>2 DEF GivesUp
      <4> QED BY <3>1, <4>1 DEF HoldsOf, Holding
    <3>3. CASE row[j] = "none"
      <4>1. ~Free(j)' /\ held'[j] = held[j] /\ builder[j] # "none" /\ j \in deleted'
        BY <1>0, <1>1, <1>3, <1>4, <1>5, <2>4, <3>3 DEF CustodyOf, Living
      <4> QED BY <3>1, <4>1 DEF HoldsOf
    <3> QED BY <3>2, <3>3
  <2>5. CASE Moves(j)
    <3>1. held[j] \subseteq using[j] => held'[j] \subseteq using'[j]
      BY <1>0, <2>5 DEF Moves, Activate
    <3>2. Holding(j) /\ row'[j] = row[j] /\ builder'[j] = "building"
      BY <2>5 DEF Moves, Holding
    <3> QED BY <1>0, <1>1, <1>3, <3>1, <3>2 DEF HoldsOf
  <2> QED BY <1>2, <2>1, <2>2, <2>3, <2>4, <2>5
<1>10. ASSUME daemon' \in {"up", "starting"} PROVE KeptBy(j)'
  <2>1. j \in kids \cup orphans
    BY <1>0, <1>1 DEF Children, Alive, Living
  <2> QED BY <1>0, <1>1, <1>3, <1>10, <2>1 DEF KeptBy, Children, Free
<1>11. \A k \in Job : k # j /\ KeptBy(k) => KeptBy(k)'
  BY <1>1, <1>3 DEF KeptBy
<1>12. ASSUME daemon' \in {"up", "starting"}, NEW p \in active'
       PROVE  \E k \in Job : p \in held'[k] /\ KeptBy(k)'
  <2>1. p \in held'[j] \/ (p \in active /\ (p \in held[j] => p \in held'[j]))
    BY <1>0, <1>2, <1>5 DEF Turns, Begins, Falls, GivesUp, Moves, Activate, chroots
  <2>2. CASE p \in held'[j]
    BY <1>10, <1>12, <2>2
  <2>3. CASE p \in active /\ p \notin held'[j]
    <3>1. PICK k \in Job : p \in held[k] /\ KeptBy(k)
      BY <1>0, <1>1, <1>12, <2>3 DEF Keepers
    <3>2. k # j
      BY <2>1, <2>3, <3>1
    <3> QED BY <1>6, <1>11, <3>1, <3>2
  <2> QED BY <2>1, <2>2, <2>3
<1> QED BY <1>6, <1>9, <1>12 DEF Holds, Keepers

LEMMA RpcChroots ==
    ASSUME Invariant, Holds, Keepers, NEW k \in Job, RpcStep(k)
    PROVE  Holds' /\ Keepers'
<1>0. /\ Types /\ Custody /\ Children
      /\ \A j \in Job : CustodyOf(j)
  BY DEF Invariant, Custody
<1> USE DEF rpcVars, daemonVars, builderVars
<1>1. \A j \in Job :
         /\ UNCHANGED <<commit, daemon, kids, orphans, stopped, builder, built>>
         /\ \/ row'[j] = row[j] \/ row'[j] = "none"
            \/ row'[j] = "init" /\ builder[j] = "none" /\ row[j] = "none"
            \/ row'[j] = "queued"
         /\ deleted \subseteq deleted'
  BY <1>0, RpcJob DEF CustodyOf
<1>2. /\ UNCHANGED <<active, held>> /\ deleted \subseteq deleted'
      /\ UNCHANGED <<commit, daemon, kids, orphans, stopped, builder, built>>
      /\ \A j \in Job : \/ j \in deleted'
                        \/ using'[j] = using[j] /\ (row'[j] = "none" => row[j] = "none")
  <2>1. CASE AddJob(k) \/ QueueJob(k) \/ JobQueued(k) \/ RequestStop(k) \/ CheckDelete(k)
    <3>1. UNCHANGED chroots
      BY <2>1 DEF AddJob, QueueJob, JobQueued, RequestStop, CheckDelete, Write
    <3>2. \A j \in Job : row'[j] = "none" => row[j] = "none"
      BY <1>0, <2>1 DEF AddJob, QueueJob, JobQueued, RequestStop, CheckDelete, Write, WriteAll, Exists,
                        FileSaved, File, Types
    <3> QED BY <1>1, <3>1, <3>2 DEF chroots
  <2>2. CASE DeleteJob(k)
    BY <1>0, <1>1, <2>2 DEF DeleteJob, Types, ChrootTypes
  <2> QED BY <2>1, <2>2 DEF RpcStep
<1>3. \A j \in Job : (Free(j)' => Free(j)) /\ (Uncommitted(j)' <=> Uncommitted(j))
  BY <1>2 DEF Free, Uncommitted, Batch
<1>4. \A j \in Job : j \in kids' /\ Free(j)' =>
         \/ builder[j] = "none"
         \/ j \in kids /\ using'[j] = using[j] /\ (row'[j] = row[j] \/ row'[j] = "queued")
  BY <1>1, <1>2 DEF Free
<1>5. Holds'
  BY <1>2, <1>3, <1>4, OutsideHolds
<1>6. \A j \in Job : KeptBy(j) => KeptBy(j)'
  BY <1>1, <1>2, <1>3 DEF KeptBy, Free
<1>7. Keepers'
  BY <1>2, <1>6, OutsideKeepers
<1> QED BY <1>5, <1>7

\* A client commits jobs that are built, and a job that holds chroots has not been
\* committed.
LEMMA CommitChroots ==
    ASSUME Invariant, Holds, Keepers, NEW c \in Client, Commits(c)
    PROVE  Holds' /\ Keepers'
<1>1. /\ UNCHANGED <<active, using, held, daemon, kids, orphans, stopped, deleted, builder, built>>
      /\ \A d \in Client : \A j \in Job : j \in Batch(d)' => j \in Batch(d) \/ row[j] \in Finished
      /\ \A j \in Job : row'[j] # row[j] => j \in Batch(c)
  BY DEF Commits, chroots, daemonVars, builderVars
<1>2. \A j \in Job : (Free(j)' <=> Free(j)) /\ (Holding(j)' <=> Holding(j))
  BY <1>1 DEF Free, Holding
<1>3. ASSUME NEW j \in Job, row[j] \in {"build", "queued"}, Uncommitted(j)
      PROVE  row'[j] = row[j] /\ Uncommitted(j)'
  BY <1>1, <1>3 DEF Uncommitted, Finished
<1>4. \A j \in Job : HoldsOf(j)'
  <2> SUFFICES ASSUME NEW j \in Job PROVE HoldsOf(j)'
    OBVIOUS
  <2>1. HoldsOf(j)
    BY DEF Holds
  <2> QED BY <1>1, <1>2, <1>3, <2>1 DEF HoldsOf
<1>5. \A j \in Job : KeptBy(j) => KeptBy(j)'
  BY <1>1, <1>2, <1>3 DEF KeptBy
<1>6. Keepers'
  BY <1>1, <1>5, OutsideKeepers
<1> QED BY <1>4, <1>6 DEF Holds

LEMMA ChrootsStep ==
    ASSUME Invariant, Chroots, [LifecycleNext]_vars
    PROVE  Chroots'
<1>0. /\ Types /\ Children /\ BuildingJobs /\ Holds /\ Keepers /\ Batched'
  BY BatchedStep DEF Invariant, Chroots
<1>1. CASE DaemonStep \/ Halt \/ Crash
  <2>1. \/ \E dead \in SUBSET Job : Attends(dead)
        \/ HearStop \/ KillStopped \/ FinishStop \/ Halt \/ Exit \/ Crash
        \/ Boot \/ Drain \/ Sweep \/ \E j \in Job : TermChild(j)
    BY <1>0, <1>1, MainSteps DEF DaemonStep
  <2> QED BY <1>0, <2>1, AttendedChroots, MainChroots DEF Chroots
<1>2. CASE \E j \in Job : Own(j)
  BY <1>0, <1>2, OwnChrootsStep DEF Chroots
<1>3. CASE \E j \in Job : RpcStep(j)
  BY <1>0, <1>3, RpcChroots DEF Chroots
<1>4. CASE \E c \in Client : CommitStep(c)
  BY <1>0, <1>4, CommitSteps, CommitChroots DEF Chroots
<1>5. CASE UNCHANGED vars
  BY <1>0, <1>5, MainChroots DEF Chroots
<1> QED BY <1>1, <1>2, <1>3, <1>4, <1>5 DEF LifecycleNext, Own

LEMMA ChrootsInit == LifecycleInit => Chroots
<1> SUFFICES ASSUME LifecycleInit PROVE Chroots
  OBVIOUS
<1>1. PICK old \in SUBSET Job :
         /\ active = {} /\ held = [j \in Job |-> {}] /\ kids = {} /\ built = old
         /\ builder = [j \in Job |-> IF j \in old THEN "gone" ELSE "none"]
         /\ commit = [c \in Client |-> NoCommit]
  BY DEF LifecycleInit
<1>2. \A c \in Client : Batch(c) = {}
  BY <1>1 DEF Batch, NoCommit
<1> QED BY <1>1, <1>2 DEF Chroots, Batched, Holds, HoldsOf, Keepers

\* A chroot that is active belongs to a job that will give it up, or has been left
\* active in one of the four ways that ChrootsHaveKeeper lists: no other order of
\* stops, deaths, deletions, commits and restarts costs the server a slot.
THEOREM ChrootsAreKept == LifecycleSpec => []ChrootsHaveKeeper
<1>1. ASSUME Invariant, Chroots PROVE ChrootsHaveKeeper
  <2> SUFFICES ASSUME daemon = "up", NEW p \in active PROVE Kept(p) \/ LeftActive(p)
    BY DEF ChrootsHaveKeeper
  <2>1. PICK j \in Job : p \in held[j] /\ KeptBy(j)
    BY <1>1 DEF Chroots, Keepers
  <2>2. j \in kids => Alive(j) \/ Zombie(j)
    BY <1>1 DEF Invariant, Children
  <2> QED BY <2>1, <2>2 DEF KeptBy, Free, Kept, LeftActive
<1>2. LifecycleInit => Chroots
  BY ChrootsInit
<1>3. ASSUME Invariant, Chroots, [LifecycleNext]_vars PROVE Chroots'
  BY <1>3, ChrootsStep
<1> QED BY <1>1, <1>2, <1>3, AlwaysInvariant, PTL DEF LifecycleSpec

-----------------------------------------------------------------------------
(* The slots.                                                                 *)

LEMMA Larger ==
    ASSUME NEW a \in Int, NEW b \in Int
    PROVE  Max({a, b}) = IF a >= b THEN a ELSE b
<1> DEFINE m == IF a >= b THEN a ELSE b
<1>1. m \in {a, b} /\ \A y \in {a, b} : m >= y
  OBVIOUS
<1>2. ASSUME NEW x \in {a, b}, \A y \in {a, b} : x >= y PROVE x = m
  BY <1>2
<1> QED BY <1>1, <1>2 DEF Max

\* Let each element of B take as much as f gives it, and at least one, and let
\* S hold those of B, and perhaps others, to which f gives anything.  Then the
\* sum of what B takes can be told from that over S, as getEmptySlots does.
LEMMA TakenBelow ==
    ASSUME NEW D, IsFiniteSet(D), NEW f \in [D -> Nat], NEW g \in [D -> Nat],
           NEW B \in SUBSET D, NEW S \in SUBSET D,
           \A x \in D : g[x] = IF f[x] >= 1 THEN f[x] ELSE 1,
           \A x \in B : f[x] > 0 => x \in S,
           \A x \in S : f[x] > 0
    PROVE  SumFunctionOnSet(g, B) + Cardinality(S) <= SumFunctionOnSet(f, S) + Cardinality(B)
<1> DEFINE G(U) == SumFunctionOnSet(g, U)
           F(U) == SumFunctionOnSet(f, U)
           Small(T) == G(T \cap B) + Cardinality(T \cap S) <= F(T \cap S) + Cardinality(T \cap B)
           C == {T \in SUBSET D : ~Small(T)}
<1>1. ASSUME NEW U \in SUBSET D
      PROVE  /\ IsFiniteSet(U) /\ G(U) \in Nat /\ F(U) \in Nat /\ Cardinality(U) \in Nat
             /\ \A x \in U : /\ G(U) = g[x] + G(U \ {x})
                            /\ F(U) = f[x] + F(U \ {x})
                            /\ Cardinality(U) = Cardinality(U \ {x}) + 1
  <2>1. IsFiniteSet(U)
    BY FS_Subset
  <2>2. \A x \in U : f[x] \in Nat /\ g[x] \in Nat
    OBVIOUS
  <2>3. Cardinality(U) \in Nat /\ \A x \in U : Cardinality(U) = Cardinality(U \ {x}) + 1
    <3>1. Cardinality(U) \in Nat
      BY <2>1, FS_CardinalityType
    <3>2. ASSUME NEW x \in U PROVE Cardinality(U) = Cardinality(U \ {x}) + 1
      <4>1. IsFiniteSet(U \ {x}) /\ Cardinality(U \ {x}) = Cardinality(U) - 1
        BY <2>1, FS_RemoveElement
      <4> QED BY <3>1, <4>1
    <3> QED BY <3>1, <3>2
  <2> QED BY <2>1, <2>2, <2>3, SumIsNat, SumTakesAny
<1>2. G({}) = 0 /\ F({}) = 0 /\ Cardinality({}) = 0
  BY FS_EmptySet, SumTakesFirst
<1> HIDE DEF G, F
<1>3. SUFFICES Small(D)
  <2>1. D \cap B = B /\ D \cap S = S
    OBVIOUS
  <2> QED BY <1>3, <2>1 DEF G, F
<1>4. SUFFICES ASSUME C # {} PROVE FALSE
  OBVIOUS
<1>5. PICK T \in C : \A U \in C : U \subseteq T => U = T
  <2>1. C \subseteq SUBSET D
    OBVIOUS
  <2> HIDE DEF C
  <2> QED BY <1>4, <2>1, SmallestSet
<1>6. T \in SUBSET D /\ ~Small(T) /\ \A U \in SUBSET T : U # T => Small(U)
  <2>1. T \in SUBSET D /\ ~Small(T)
    BY <1>5
  <2>2. ASSUME NEW U \in SUBSET T, U # T, ~Small(U) PROVE FALSE
    <3>1. U \in C
      BY <2>1, <2>2
    <3> QED BY <1>5, <2>2, <3>1
  <2> QED BY <2>1, <2>2
<1>7. PICK x \in T : TRUE
  <2>1. {} \cap B = {} /\ {} \cap S = {}
    OBVIOUS
  <2>2. Small({})
    BY <1>2, <2>1
  <2> QED BY <1>6, <2>2
<1> DEFINE V == T \ {x}
<1>8. Small(V)
  <2>1. V \in SUBSET T /\ V # T
    BY <1>7
  <2> HIDE DEF Small
  <2> QED BY <1>6, <2>1
<1>9. /\ f[x] \in Nat /\ g[x] = IF f[x] >= 1 THEN f[x] ELSE 1
      /\ T \cap B \in SUBSET D /\ T \cap S \in SUBSET D
      /\ V \cap B \in SUBSET D /\ V \cap S \in SUBSET D
  BY <1>6, <1>7
<1>10. /\ G(V \cap B) \in Nat /\ F(V \cap S) \in Nat
       /\ Cardinality(V \cap B) \in Nat /\ Cardinality(V \cap S) \in Nat
  BY <1>1, <1>9
<1>11. IF x \in B
       THEN /\ G(T \cap B) = g[x] + G(V \cap B)
            /\ Cardinality(T \cap B) = Cardinality(V \cap B) + 1
       ELSE T \cap B = V \cap B
  <2>1. x \in B => (T \cap B) \ {x} = V \cap B /\ x \in T \cap B
    BY <1>7
  <2> QED BY <1>1, <1>9, <2>1
<1>12. IF x \in S
       THEN /\ F(T \cap S) = f[x] + F(V \cap S)
            /\ Cardinality(T \cap S) = Cardinality(V \cap S) + 1
       ELSE T \cap S = V \cap S
  <2>1. x \in S => (T \cap S) \ {x} = V \cap S /\ x \in T \cap S
    BY <1>7
  <2> QED BY <1>1, <1>9, <2>1
<1>13. /\ x \in B => x \in S \/ f[x] = 0
       /\ x \in S => f[x] >= 1
  BY <1>6, <1>7, <1>9
<1>14. ~Small(T)
  BY <1>6
<1>15. CASE x \in B /\ x \in S
  BY <1>8, <1>9, <1>10, <1>11, <1>12, <1>13, <1>14, <1>15
<1>16. CASE x \in B /\ x \notin S
  BY <1>8, <1>9, <1>10, <1>11, <1>12, <1>13, <1>14, <1>16
<1>17. CASE x \notin B /\ x \in S
  BY <1>8, <1>9, <1>10, <1>11, <1>12, <1>13, <1>14, <1>17
<1>18. CASE x \notin B /\ x \notin S
  BY <1>8, <1>11, <1>12, <1>14, <1>18
<1> QED BY <1>15, <1>16, <1>17, <1>18

LEMMA SlotsTaken ==
    ASSUME Types, allowed \in [Event -> Nat], Attributed, EmptySlots # 0
    PROVE  Taken < Max({NodeSlots, 1})
<1> DEFINE total == Max({NodeSlots, 1})
           B == {k \in Job : row[k] \in Building}
           f == [k \in Job |-> Counted(k)]
           S == {k \in Job : Exists(k) /\ Counted(k) > 0}
           g == [k \in Job |-> Max({Cardinality(using[k]), 1})]
           h == [k \in Job |-> IF f[k] >= 1 THEN f[k] ELSE 1]
           used == SumFunctionOnSet(f, S) + Cardinality(B) - Cardinality(S)
<1>1. IsFiniteSet(Job) /\ IsFiniteSet(Path) /\ NodeSlots \in Nat /\ active \subseteq Path
      /\ using \in [Job -> SUBSET Path]
  BY JobAssumption DEF Types, ChrootTypes, NodeSlots
<1>2. total \in Nat
  BY <1>1, Larger
<1>3. \A k \in Job : Counted(k) \in Nat /\ Cardinality(using[k]) \in Nat
  <2>1. ASSUME NEW P \in SUBSET Path PROVE Cardinality(P) \in Nat
    BY <1>1, FS_Subset, FS_CardinalityType
  <2> QED BY <1>1, <2>1 DEF Counted
<1>4. \A k \in B : Cardinality(using[k]) <= Counted(k)
  <2> SUFFICES ASSUME NEW k \in B PROVE Cardinality(using[k]) <= Counted(k)
    OBVIOUS
  <2>1. using[k] \subseteq {p \in active : owner[p] = k}
    BY DEF Attributed
  <2>2. IsFiniteSet({p \in active : owner[p] = k})
    BY <1>1, FS_Subset
  <2> QED BY <2>1, <2>2, FS_Subset DEF Counted
<1>5. f \in [Job -> Nat] /\ h \in [Job -> Nat] /\ \A k \in Job : f[k] = Counted(k)
  BY <1>3
<1>6. \A k \in Job : g[k] = IF Cardinality(using[k]) >= 1 THEN Cardinality(using[k]) ELSE 1
  BY <1>3, Larger
<1>7. B \in SUBSET Job /\ S \in SUBSET Job /\ IsFiniteSet(B) /\ IsFiniteSet(S)
  BY <1>1, FS_Subset
<1>8. /\ \A k \in B : f[k] > 0 => k \in S
      /\ \A k \in S : f[k] > 0
  BY <1>5 DEF Exists, Building
<1>9. /\ \A k \in Job : h[k] = IF f[k] >= 1 THEN f[k] ELSE 1
      /\ \A k \in B : g[k] \in Nat /\ h[k] \in Nat /\ g[k] <= h[k]
  BY <1>3, <1>4, <1>5, <1>6
<1>10. EmptySlots = IF total < Cardinality(B) THEN 0 ELSE Max({total - used, 0})
  BY DEF EmptySlots
<1>11. Taken = SumFunctionOnSet(g, B)
  BY DEF Taken
<1> HIDE DEF g, h, f, B, S, total
<1>12. SumFunctionOnSet(h, B) + Cardinality(S) <= SumFunctionOnSet(f, S) + Cardinality(B)
  BY <1>1, <1>5, <1>7, <1>8, <1>9, TakenBelow
<1>13. SumFunctionOnSet(g, B) <= SumFunctionOnSet(h, B)
  BY <1>7, <1>9, SumBelow
<1>14. /\ SumFunctionOnSet(g, B) \in Nat /\ SumFunctionOnSet(h, B) \in Nat
       /\ SumFunctionOnSet(f, S) \in Nat /\ Cardinality(B) \in Nat /\ Cardinality(S) \in Nat
  <2>1. \A k \in S : f[k] \in Nat
    BY <1>5, <1>7
  <2> QED BY <1>7, <1>9, <2>1, FS_CardinalityType, SumIsNat
<1>15. total - used > 0
  BY <1>2, <1>10, <1>14, Larger
<1>16. SumFunctionOnSet(g, B) < total
  BY <1>2, <1>12, <1>13, <1>14, <1>15
<1> QED BY <1>11, <1>16 DEF total

LEMMA ForksInSlots ==
    ASSUME Invariant, [LifecycleNext]_vars, NEW j \in Job,
           builder[j] = "none", builder'[j] = "forked"
    PROVE  EmptySlots # 0
<1>0. Types /\ Custody /\ Children /\ BuildingJobs
  BY DEF Invariant
<1>1. ASSUME NEW dead \in SUBSET Job, Attends(dead) PROVE EmptySlots # 0
  <2>1. After(dead)[j] # "forked"
    BY DEF After
  <2> QED BY <1>1, <2>1 DEF Attends, Outcome, Quiet, Failed, Raised, Dropped, Launched
<1> USE DEF rpcVars, daemonVars, builderVars
<1>2. CASE HearStop \/ KillStopped \/ Halt \/ Exit \/ Drain \/ Sweep \/ UNCHANGED vars
  BY <1>2 DEF HearStop, KillStopped, Halt, Exit, Drain, Sweep, vars
<1>3. CASE FinishStop
  BY <1>0, <1>3 DEF FinishStop, Collect, Types
<1>4. CASE Crash \/ Boot
  BY <1>4 DEF Crash, Boot
<1>5. ASSUME NEW k \in Job, TermChild(k) \/ RpcStep(k) PROVE FALSE
  BY <1>0, <1>5, RpcJob DEF TermChild
<1>6. ASSUME NEW k \in Job, Writes(k) PROVE FALSE
  BY <1>0, <1>6 DEF Writes, Living, Types
<1>7. ASSUME NEW c \in Client, Commits(c) PROVE FALSE
  BY <1>7 DEF Commits
<1> QED BY <1>0, <1>1, <1>2, <1>3, <1>4, <1>5, <1>6, <1>7, Steps

\* What may still happen is counted down.
LEMMA AllowedStep ==
    ASSUME allowed \in [Event -> Nat], [LifecycleNext]_vars
    PROVE  allowed' \in [Event -> Nat]
<1>1. ASSUME NEW e, Spend(e) PROVE allowed' \in [Event -> Nat]
  <2>1. allowed[e] > 0 /\ allowed' = [allowed EXCEPT ![e] = allowed[e] - 1]
    BY <1>1 DEF Spend
  <2>2. e \in Event => allowed[e] - 1 \in Nat
    BY <2>1
  <2> QED BY <2>1, <2>2
<1>2. allowed' = allowed \/ \E e : Spend(e)
  <2>1. ASSUME NEW skip, NEW bs, NEW ks, NEW ps, StartUnless(skip, bs, ks, ps)
        PROVE  allowed' = allowed \/ \E e : Spend(e)
    BY <2>1 DEF StartUnless
  <2>2. ASSUME NEW j, NEW ks, NEW ps, PidDied(j, ks, ps) PROVE allowed' = allowed \/ \E e : Spend(e)
    BY <2>1, <2>2 DEF PidDied, Reaped, StartJob
  <2>3. CASE DaemonStep
    BY <2>1, <2>2, <2>3
    DEF DaemonStep, LoopStartsJob, HearQueued, HearStop, KillStopped, FinishStop, CollectChild,
        TermChild, ReapChild, Exit, Boot, Drain, Sweep, StartJob
  <2>4. ASSUME NEW j \in Job, Own(j) PROVE allowed' = allowed \/ \E e : Spend(e)
    BY <2>4 DEF Own, BuilderProgress, WorkStep, BuilderStarts, Loads, Builds, BuilderExits, Signalled,
                LoadEnds, TakesChroot, TroveEnds, BuildEnds, BuilderNotMade, BuilderRaises,
                BuilderDies, KillHarder
  <2>5. ASSUME NEW j \in Job, RpcStep(j) PROVE allowed' = allowed \/ \E e : Spend(e)
    BY <2>5 DEF RpcStep, AddJob, QueueJob, JobQueued, RequestStop, CheckDelete, DeleteJob
  <2>6. ASSUME NEW c \in Client, CommitStep(c) PROVE allowed' = allowed \/ \E e : Spend(e)
    BY <2>6 DEF CommitStep, ChooseJobs, StartCommit, CommitFails, CommitSucceeds, Rpc, CommitLost
  <2>7. CASE Halt \/ Crash \/ UNCHANGED vars
    BY <2>7 DEF Halt, Crash, vars
  <2> QED BY <2>3, <2>4, <2>5, <2>6, <2>7 DEF LifecycleNext, Own
<1> QED BY <1>1, <1>2

\* While the chroots of the jobs that build are active and counted for them, a job
\* is started only when what these jobs take, a slot each and one for each chroot
\* beyond the first, leaves a slot empty.  getEmptySlots counts the active chroots of
\* all jobs, with those that no running job uses any more, and then the jobs that
\* have none; what it counts too much it never gives away.
THEOREM SlotsSuffice == LifecycleSpec => StartsWithinSlots
<1> DEFINE Numbers == allowed \in [Event -> Nat]
<1>1. LifecycleInit => Numbers
  BY JobAssumption DEF LifecycleInit
<1>2. Numbers /\ [LifecycleNext]_vars => Numbers'
  BY AllowedStep
<1>3. Invariant /\ Numbers /\ [LifecycleNext]_vars =>
         [\A j \in Job : Starts(j) /\ Attributed => Taken < Max({NodeSlots, 1})]_vars
  BY ForksInSlots, SlotsTaken DEF Invariant, Starts
<1> QED BY <1>1, <1>2, <1>3, AlwaysInvariant, PTL DEF LifecycleSpec, StartsWithinSlots

-----------------------------------------------------------------------------
(* The refinement.                                                            *)

LifeMap == [j \in Job |-> LifeOf(j)]

LEMMA LifeInit ==
    ASSUME LifecycleInit
    PROVE  Life!Init
<1>1. PICK old \in SUBSET Job :
         /\ queue = {} /\ call = [j \in Job |-> IF j \in old THEN "done" ELSE "none"]
         /\ builder = [j \in Job |-> IF j \in old THEN "gone" ELSE "none"]
  BY DEF LifecycleInit
<1>2. \A j \in Job : LifeOf(j) \in {"none", "over"}
  BY <1>1 DEF LifeOf, Alive
<1> QED BY <1>2 DEF Life!Init

\* Jobs that end, if any do, end at once.
LEMMA LifeEnds ==
    ASSUME \A j \in Job : \/ LifeOf(j)' = LifeOf(j)
                          \/ LifeOf(j) \in {"filed", "queued", "running"} /\ LifeOf(j)' = "over"
    PROVE  Life!Next
<1> DEFINE J == {j \in Job : LifeOf(j) \in {"filed", "queued", "running"} /\ LifeOf(j)' = "over"}
<1>1. \A j \in J : LifeMap[j] \in {"filed", "queued", "running"}
  BY DEF LifeMap
<1>2. LifeMap' = [j \in Job |-> IF j \in J THEN "over" ELSE LifeMap[j]]
  BY DEF LifeMap
<1>3. Life!End(J)
  BY <1>1, <1>2 DEF Life!End, LifeMap
<1>4. J \in SUBSET Job
  OBVIOUS
<1> HIDE DEF J
<1> QED BY <1>3, <1>4 DEF Life!Next

LEMMA LifeMoves ==
    ASSUME NEW n \in Job, NEW to, LifeOf(n)' = to, \A j \in Job \ {n} : LifeOf(j)' = LifeOf(j)
    PROVE  LifeMap' = [LifeMap EXCEPT ![n] = to]
  BY DEF LifeMap

LEMMA LifeStep ==
    ASSUME Invariant, [LifecycleNext]_vars
    PROVE  [Life!Next]_LifeMap
<1>0. /\ Types /\ Custody /\ Children /\ BuildingJobs /\ \A j \in Job : CustodyOf(j)
      /\ builder \in [Job -> BuilderPhase] /\ call \in [Job -> CallPhase] /\ Job \subseteq Nat
      /\ queue \subseteq Job
  BY JobAssumption DEF Invariant, Custody, Types
<1>a. ASSUME UNCHANGED queue, \A j \in Job : Alive(j)' <=> Alive(j),
             \A j \in Job : call'[j] = call[j] \/ (call[j] = "queued" /\ call'[j] \in {"done", "cut"})
      PROVE  Life!Next
  <2>1. \A j \in Job : LifeOf(j)' = LifeOf(j)
    BY <1>a DEF LifeOf
  <2> QED BY <2>1, LifeEnds
<1> USE DEF rpcVars, daemonVars, builderVars, CustodyOf
<1>1. ASSUME NEW dead \in SUBSET Job, Attends(dead) PROVE Life!Next
  <2>1. UNCHANGED call /\ \A j \in dead : builder[j] \in {"exit0", "killed"}
    BY <1>1 DEF Attends, Zombie
  <2>2. CASE \E n \in queue : Launched(dead, n)
    <3>1. PICK n \in queue : Launched(dead, n)
      BY <2>2
    <3>2. n \in Job /\ builder[n] = "none" /\ call[n] \notin {"none", "filed"}
      BY <1>0, QueuedJob
    <3>3. n \notin dead
      BY <2>1, <3>2
    <3>4. /\ queue' = queue \ {n} /\ builder'[n] = "forked"
          /\ \A j \in Job \ {n} : builder'[j] = IF j \in dead THEN "gone" ELSE builder[j]
      BY <1>0, <3>1, <3>2, <3>3 DEF Launched, After
    <3>5. LifeOf(n) = "queued" /\ LifeOf(n)' = "running"
      BY <2>1, <3>2, <3>4 DEF LifeOf, Alive
    <3>6. \A j \in Job \ {n} : LifeOf(j)' = LifeOf(j)
      BY <2>1, <3>4 DEF LifeOf, Alive
    <3>7. \A k \in Job : k < n => LifeOf(k) # "queued"
      <4>1. \A k \in queue : n <= k
        BY <3>1 DEF Launched
      <4>2. \A k \in Job : k < n => k \notin queue
        BY <1>0, <3>2, <4>1
      <4> QED BY <4>2 DEF LifeOf
    <3>8. Life!Start(n)
      BY <3>2, <3>5, <3>6, <3>7, LifeMoves DEF Life!Start, Life!Move, LifeMap
    <3> QED BY <3>2, <3>8 DEF Life!Next
  <2>3. CASE Quiet(dead) \/ Failed(dead) \/ Raised(dead) \/ \E n \in queue : Dropped(dead, n)
    <3>1. queue' \subseteq queue /\ builder' = After(dead)
      BY <2>3 DEF Quiet, Failed, Raised, Dropped
    <3>2. \A j \in Job : Alive(j)' <=> Alive(j)
      BY <2>1, <3>1 DEF After, Alive
    <3>3. \A j \in queue : call[j] \notin {"none", "filed"} /\ ~Alive(j)
      BY <1>0, QueuedJob DEF Alive
    <3>4. \A j \in Job : LifeOf(j)' = LifeOf(j) \/ (LifeOf(j) = "queued" /\ LifeOf(j)' = "over")
      BY <2>1, <3>1, <3>2, <3>3 DEF LifeOf
    <3> QED BY <3>4, LifeEnds
  <2> QED BY <1>1, <2>2, <2>3 DEF Attends, Outcome
<1>2. CASE HearStop \/ KillStopped \/ Halt \/ Exit \/ Sweep
  <2>1. UNCHANGED <<queue, call, builder>>
    BY <1>2 DEF HearStop, KillStopped, Halt, Exit, Sweep
  <2> QED BY <1>a, <2>1 DEF Alive
<1>3. CASE FinishStop
  <2>1. UNCHANGED <<queue, call>> /\ \A j \in Job : Alive(j)' <=> Alive(j)
    BY <1>0, <1>3, FinishedStop DEF Alive
  <2> QED BY <1>a, <2>1
<1>4. CASE Crash
  <2>1. \A j \in Job : /\ Alive(j) => j \notin queue /\ call[j] \notin {"none", "filed"}
                       /\ ~Alive(j)'
    BY <1>0, <1>4 DEF Crash, Alive
  <2>2. \A j \in Job : LifeOf(j)' = LifeOf(j) \/ (LifeOf(j) = "running" /\ LifeOf(j)' = "over")
    BY <1>4, <2>1 DEF LifeOf, Crash
  <2> QED BY <2>2, LifeEnds
<1>5. CASE Boot
  <2>1. \A j \in Job : /\ call'[j] = IF call[j] \in {"filed", "queued"} THEN "cut" ELSE call[j]
                       /\ Alive(j)' <=> Alive(j)
                       /\ call[j] = "filed" => ~Alive(j) /\ j \notin queue
    BY <1>0, <1>5 DEF Boot, Alive
  <2>2. \A j \in Job : LifeOf(j)' = LifeOf(j) \/ (LifeOf(j) = "filed" /\ LifeOf(j)' = "over")
    BY <1>5, <2>1 DEF LifeOf, Boot
  <2> QED BY <2>2, LifeEnds
<1>6. ASSUME NEW J, queue' = queue \ J, UNCHANGED <<call, builder>>
      PROVE  Life!Next
  <2>1. \A j \in queue : call[j] \notin {"none", "filed"} /\ ~Alive(j)
    BY <1>0, QueuedJob DEF Alive
  <2>2. \A j \in Job : LifeOf(j)' = LifeOf(j) \/ (LifeOf(j) = "queued" /\ LifeOf(j)' = "over")
    BY <1>6, <2>1 DEF LifeOf, Alive
  <2> QED BY <2>2, LifeEnds
<1>7. CASE Drain
  BY <1>6, <1>7 DEF Drain
<1>8. ASSUME NEW k \in Job, TermChild(k) \/ CheckDelete(k) \/ RequestStop(k) PROVE Life!Next
  <2>1. UNCHANGED <<queue, call, builder>>
    BY <1>8 DEF TermChild, CheckDelete, RequestStop
  <2> QED BY <1>a, <2>1 DEF Alive
<1>9. ASSUME NEW k \in Job, Writes(k) PROVE Life!Next
  <2>1. /\ UNCHANGED <<queue, call>> /\ Alive(k) /\ k \notin queue /\ call[k] \notin {"none", "filed"}
        /\ \A j \in Job \ {k} : Alive(j)' <=> Alive(j)
    BY <1>0, <1>9 DEF Writes, Living, Alive
  <2>2. \A j \in Job : LifeOf(j)' = LifeOf(j) \/ (LifeOf(j) = "running" /\ LifeOf(j)' = "over")
    BY <2>1 DEF LifeOf
  <2> QED BY <2>2, LifeEnds
<1>10. ASSUME NEW k \in Job, AddJob(k) PROVE Life!Next
  <2>1. /\ call[k] = "none" /\ call'[k] = "filed" /\ UNCHANGED <<queue, builder>> /\ k \notin queue
        /\ \A j \in Job \ {k} : call'[j] = call[j]
        /\ \A j \in Job : j < k => call[j] # "none"
    BY <1>0, <1>10 DEF AddJob, FileSaved, File
  <2>2. /\ LifeOf(k) = "none" /\ LifeOf(k)' = "filed"
        /\ \A j \in Job \ {k} : LifeOf(j)' = LifeOf(j)
        /\ \A j \in Job : j < k => LifeOf(j) # "none"
    BY <2>1 DEF LifeOf, Alive
  <2>3. Life!File(k)
    BY <2>2, LifeMoves DEF Life!File, Life!Move, LifeMap
  <2> QED BY <2>3 DEF Life!Next
<1>11. ASSUME NEW k \in Job, QueueJob(k) PROVE Life!Next
  <2>1. /\ call[k] = "filed" /\ call'[k] = "queued" /\ UNCHANGED builder /\ k \notin queue
        /\ queue' = queue \cup {k} /\ \A j \in Job \ {k} : call'[j] = call[j]
    BY <1>0, <1>11 DEF QueueJob
  <2>2. /\ LifeOf(k) = "filed" /\ LifeOf(k)' = "queued"
        /\ \A j \in Job \ {k} : LifeOf(j)' = LifeOf(j)
    BY <2>1 DEF LifeOf, Alive
  <2>3. Life!Enqueue(k)
    BY <2>2, LifeMoves DEF Life!Enqueue, Life!Move, LifeMap
  <2> QED BY <2>3 DEF Life!Next
<1>12. ASSUME NEW k \in Job, JobQueued(k) PROVE Life!Next
  <2>1. UNCHANGED <<queue, builder>> /\ call' = [call EXCEPT ![k] = "done"] /\ call[k] = "queued"
    BY <1>12 DEF JobQueued
  <2> QED BY <1>0, <1>a, <2>1 DEF Alive
<1>13. ASSUME NEW k \in Job, DeleteJob(k) PROVE Life!Next
  BY <1>6, <1>13 DEF DeleteJob
<1>14. ASSUME NEW c \in Client, Commits(c) PROVE Life!Next
  <2>1. UNCHANGED <<queue, call, builder>>
    BY <1>14 DEF Commits
  <2> QED BY <1>a, <2>1 DEF Alive
<1>15. CASE UNCHANGED vars
  BY <1>a, <1>15 DEF vars, Alive
<1>16. ASSUME NEW k \in Job, RpcStep(k) PROVE Life!Next
  BY ONLY <1>8, <1>10, <1>11, <1>12, <1>13, <1>16 DEF RpcStep
<1> QED BY <1>0, <1>1, <1>2, <1>3, <1>4, <1>5, <1>7, <1>8, <1>9, <1>14, <1>15, <1>16, Steps

\* The server keeps the promise of JobLife: a job is queued once, leaves the queue
\* in the order of its number, gets one builder, and is then over for good.
THEOREM KeepsCustody == LifecycleSpec => ImplementsJobLife
<1>1. LifecycleInit => Life!Init
  BY LifeInit
<1>2. Invariant /\ [LifecycleNext]_vars => [Life!Next]_LifeMap
  BY LifeStep
<1> QED BY <1>1, <1>2, AlwaysInvariant, PTL DEF LifecycleSpec, ImplementsJobLife, Life!Spec, LifeMap
=============================================================================
