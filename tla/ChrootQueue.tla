----------------------------- MODULE ChrootQueue -----------------------------
(***************************************************************************)
(* The chroots of one worker node: the queue that gives a build command    *)
(* its root (rmake/worker/chroot/rootmanager.py), the forked commands that *)
(* make, reuse and clean roots (rmake/worker/command.py, rootfactory.py),  *)
(* sessions in existing chroots, and the RPCs by which clients list,       *)
(* delete and archive chroots after a look at the table Chroots            *)
(* (rmake/server/server.py, rmake/db/nodestore.py).                        *)
(*                                                                         *)
(* A forked command works on a copy of the queue, so that only what the    *)
(* node's main process does to it counts.  Which old chroot fits best, or  *)
(* is oldest, is left open.                                                *)
(***************************************************************************)
EXTENDS Integers, FiniteSets

CONSTANTS
    Cmd,        \* build commands
    Name,       \* names of troves
    NameOf,     \* the trove each command builds
    Slots,      \* chrootLimit of the node
    MaxCount,   \* bound: the numbers appended to a name
    Session,    \* sessions that may be open at a time
    Delete,     \* RPCs that delete a chroot
    Archive,    \* RPCs that archive a chroot
    List,       \* RPCs that list the chroots
    Frail,      \* commands that may be killed or may fail to be forked
    Casts,      \* scenarios: the sets of those who take part
    Left,       \* what the node's last run may have left, in each scenario
    NoRoot

ASSUME ChrootAssumption ==
    /\ IsFiniteSet(Cmd) /\ NameOf \in [Cmd -> Name] /\ Frail \subseteq Cmd
    /\ Slots \in Int /\ MaxCount \in Nat
    /\ NoRoot \notin Name \X (0 .. MaxCount)
    /\ Delete \cap Archive = {}
    /\ Casts \subseteq SUBSET (Cmd \cup Session \cup Delete \cup Archive \cup List)
    /\ \A k \in Casts : \A left \in Left[k] :
          left \subseteq Name \X (0 .. MaxCount) /\ IsFiniteSet(left)

VARIABLES
    cast,      \* those who take part and have not had their only turn
    dirs,      \* directories of chroots
    held,      \* ChrootQueue.chroots: roots of commands, status active
    reserved,  \* paths with status reserved
    phase,     \* of each command
    reuse,     \* whether the command's job reuses roots
    root, old, \* of each command: its root and the old root it was given
    session,   \* the chroot of each session
    row,       \* the row of each path in the table Chroots
    news,      \* what the server has heard of each command's trove
    rpc,       \* step and path of each RPC that deletes or archives
    gone,      \* paths listChroots has found to be gone
    found,     \* history: how many chroots the node's last run had left
    spared,    \* history: commands that did not remove their old root
    robbed,    \* history: commands whose root was given up by others
    leaked     \* history: roots held by commands that were never forked

queueVars == <<dirs, held, reserved>>
cmdVars == <<phase, reuse, root, old>>
serverVars == <<row, news, rpc, gone>>
vars == <<cast, queueVars, cmdVars, session, serverVars, found, spared, robbed, leaked>>

Path == Name \X (0 .. MaxCount)
Call == Delete \cup Archive

Live(c) == phase[c] \in {"reserved", "made", "ended"}
Locked(p) == \E s \in Session : session[s] = p

-----------------------------------------------------------------------------
(* The queue.                                                              *)

\* _createRootPath: the first number that is free.
IsNewPath(p, name) ==
    /\ p[1] = name /\ p \notin dirs \cup held
    /\ \A n \in 0 .. p[2] - 1 : <<name, n>> \in dirs \cup held

\* Mutant: roots that were given away to be reused count as old.
EveryOld == dirs \ held
\* Mutant: roots in use count as old.
UsedOld == dirs \ reserved
OldChroots == dirs \ (held \cup reserved)  \* listOldChroots

\* Mutant: old chroots are left alone when a root is made.
NoChoice(again) == {NoRoot}

\* _getBestOldChroot, as requestSlot calls it.  A root that is reused must fit
\* well as long as there is room for another one; otherwise any old one is taken,
\* all of them being readable.
Choice(again) ==
    IF Slots <= 0 THEN {NoRoot}
    ELSE IF Cardinality(held \cup dirs) < Slots
         THEN IF again THEN OldChroots \cup {NoRoot} ELSE {NoRoot}
         ELSE IF OldChroots = {} THEN {NoRoot} ELSE OldChroots

\* Mutant: the limit counts the roots before the new one.
RoomForMore == Slots <= 0 \/ Cardinality(held) <= Slots
Room == Slots <= 0 \/ Cardinality(held) < Slots

\* requestSlot
RequestSlot(c) ==
    /\ phase[c] = "waiting"
    /\ Room
    /\ \E again \in BOOLEAN : \E o \in Choice(again), p \in Path :
       /\ IsNewPath(p, NameOf[c])
       /\ reuse' = [reuse EXCEPT ![c] = again /\ o # NoRoot]
       /\ root' = [root EXCEPT ![c] = p]
       /\ old' = [old EXCEPT ![c] = o]
       /\ held' = held \cup {p}
       /\ reserved' = (reserved \cup {o}) \ {p, NoRoot}
    /\ UNCHANGED <<cast, dirs, session, serverVars, found, robbed>>

\* chrootFinished, which is deleteChroot too.
GiveUp(p) ==
    /\ held' = held \ {p}
    /\ reserved' = reserved \ {p}
    /\ leaked' = leaked \ {p}

\* The same for somebody who is not the command that holds p.
Rob(p) ==
    /\ GiveUp(p)
    /\ robbed' = robbed \cup {c \in Cmd : Live(c) /\ p \in {root[c], old[c]}}

-----------------------------------------------------------------------------
(* Build commands.                                                         *)

\* isReady reserves a root, and the command is forked.
Reserve(c) ==
    /\ RequestSlot(c)
    /\ phase' = [phase EXCEPT ![c] = "reserved"]
    /\ UNCHANGED <<spared, leaked>>

\* The fork fails: nobody gives the root up.
ForkFails(c) ==
    /\ c \in Frail
    /\ RequestSlot(c)
    /\ phase' = [phase EXCEPT ![c] = "unforked"]
    /\ leaked' = leaked \cup {root'[c]}
    /\ spared' = IF old'[c] # NoRoot THEN spared \cup {c} ELSE spared

\* The directories that are left when the command has dealt with its old root:
\* a locked one is not cleaned, yet may be moved; both may fail.
Remains(c) ==
    {dirs} \cup (IF reuse[c] \/ ~Locked(old[c]) THEN {dirs \ {old[c]}} ELSE {})

\* c has no more to do with its old root, which it may leave.
DropOld(c, left) ==
    /\ spared' = IF old[c] \in left THEN spared \cup {c} ELSE spared
    /\ old' = [old EXCEPT ![c] = NoRoot]
    /\ reuse' = [reuse EXCEPT ![c] = FALSE]

\* create
Make(c) ==
    /\ phase[c] = "reserved"
    /\ phase' = [phase EXCEPT ![c] = "made"]
    /\ \E left \in Remains(c) :
       /\ dirs' = left \cup {root[c]}
       /\ DropOld(c, left)
    /\ UNCHANGED <<cast, held, reserved, root, session, serverVars, found, robbed, leaked>>

\* The build is over; after a good one the root may be cleaned.
Cook(c) ==
    /\ phase[c] = "made"
    /\ phase' = [phase EXCEPT ![c] = "ended"]
    /\ dirs' \in {dirs, dirs \ {root[c]}}
    /\ UNCHANGED <<cast, held, reserved, reuse, root, old, session, serverVars, found, spared, robbed, leaked>>

\* The command is stopped, or dies, or cannot make its root.
Killed(c) ==
    /\ c \in Frail
    /\ phase[c] \in {"reserved", "made"}
    /\ phase' = [phase EXCEPT ![c] = "ended"]
    /\ DropOld(c, dirs)
    /\ UNCHANGED <<cast, queueVars, root, session, serverVars, found, robbed, leaked>>

\* Mutant: the command's old root is given up, not its root.
GiveUpOld(c) == GiveUp(old[c])
GiveUpRoot(c) == GiveUp(root[c])

\* _pidDied in the node's main process.
Collect(c) ==
    /\ phase[c] = "ended"
    /\ phase' = [phase EXCEPT ![c] = "over"]
    /\ GiveUpRoot(c)
    /\ UNCHANGED <<cast, dirs, reuse, root, old, session, serverVars, found, spared, robbed>>

-----------------------------------------------------------------------------
(* Sessions.                                                               *)

\* useExistingChroot, for any directory; the session holds a shared lock.
OpenSession(s, p) ==
    /\ s \in cast
    /\ p \in dirs
    /\ session' = [session EXCEPT ![s] = p]
    /\ cast' = cast \ {s}
    /\ UNCHANGED <<queueVars, cmdVars, serverVars, found, spared, robbed, leaked>>

\* The end of a session gives its chroot up, whoever holds it.
CloseSession(s) ==
    /\ session[s] # NoRoot
    /\ session' = [session EXCEPT ![s] = NoRoot]
    /\ Rob(session[s])
    /\ UNCHANGED <<cast, dirs, cmdVars, serverVars, found, spared>>

-----------------------------------------------------------------------------
(* The server.                                                             *)

SetRow(p, s) == row' = [row EXCEPT ![p] = s]

\* trovePreparingChroot
HearChroot(c) ==
    /\ phase[c] \notin {"waiting", "unforked"}
    /\ news[c] = "none"
    /\ news' = [news EXCEPT ![c] = "active"]
    /\ SetRow(root[c], "active")
    /\ UNCHANGED <<cast, queueVars, cmdVars, session, rpc, gone, found, spared, robbed, leaked>>

\* updateTroveStatus of a finished trove: the command has ended, or its job has
\* failed, was stopped or lost its builder while the command still runs.  A row
\* that was removed comes back, unless the trove was read after its removal.
HearEnd(c) ==
    /\ news[c] = "active"
    /\ news' = [news EXCEPT ![c] = "over"]
    /\ \/ SetRow(root[c], "idle")
       \/ row[root[c]] = "none" /\ UNCHANGED row
    /\ UNCHANGED <<cast, queueVars, cmdVars, session, rpc, gone, found, spared, robbed, leaked>>

\* Mutant: active chroots may be deleted.
KnownChroot(p) == row[p] # "none"

\* deleteChroot and archiveChroot: the chroot must not be active, ...
Deletable(p) == row[p] = "idle"

CheckIdle(d, p) ==
    /\ rpc[d].step = "none" /\ d \in cast
    /\ Deletable(p)
    /\ rpc' = [rpc EXCEPT ![d] = [step |-> "checked", path |-> p]]
    /\ UNCHANGED <<cast, queueVars, cmdVars, session, row, news, gone, found, spared, robbed, leaked>>

Past(d, step) == rpc' = [rpc EXCEPT ![d].step = step]

\* ... then the node removes it, and gives it up; ...
NodeRemoves(d) ==
    LET p == rpc[d].path IN
    /\ rpc[d].step = "checked"
    /\ \/ /\ d \in Delete \/ p \in dirs
          /\ dirs' = IF d \in Delete /\ Locked(p) THEN dirs ELSE dirs \ {p}
          /\ Rob(p)
          /\ Past(d, "removed")
       \/ /\ p \in dirs => d \in Delete      \* it cannot be cleaned or moved
          /\ Past(d, "over")
          /\ UNCHANGED <<queueVars, robbed, leaked>>
    /\ UNCHANGED <<cast, cmdVars, session, row, news, gone, found, spared>>

\* ... and its row is removed or gets the new path.
ForgetRow(d) ==
    /\ rpc[d].step = "removed"
    /\ SetRow(rpc[d].path, "none")
    /\ Past(d, "over")
    /\ UNCHANGED <<cast, queueVars, cmdVars, session, news, gone, found, spared, robbed, leaked>>

\* listChroots compares the table with what the node has, ...
ListChroots(l) ==
    /\ l \in cast /\ cast' = cast \ {l}
    /\ gone = {}
    /\ gone' = {p \in Path : row[p] # "none"} \ (dirs \cup held)
    /\ gone' # {}
    /\ UNCHANGED <<queueVars, cmdVars, session, row, news, rpc, found, spared, robbed, leaked>>

\* ... and removes the rows of chroots that are gone; a row that somebody else has
\* removed raises, and the rest stays.
PruneRows ==
    /\ gone # {}
    /\ \E pruned \in SUBSET gone :
       /\ pruned = gone \/ \E p \in gone \ pruned : row[p] = "none"
       /\ row' = [p \in Path |-> IF p \in pruned THEN "none" ELSE row[p]]
    /\ gone' = {}
    /\ UNCHANGED <<cast, queueVars, cmdVars, session, news, rpc, found, spared, robbed, leaked>>

-----------------------------------------------------------------------------
\* The node registers with the chroots its last run has left.
ChrootInit ==
    /\ cast \in Casts
    /\ dirs \in Left[cast] /\ found = Cardinality(dirs)
    /\ held = {} /\ reserved = {}
    /\ phase = [c \in Cmd |-> IF c \in cast THEN "waiting" ELSE "over"]
    /\ reuse = [c \in Cmd |-> FALSE]
    /\ root = [c \in Cmd |-> NoRoot] /\ old = root
    /\ session = [s \in Session |-> NoRoot]
    /\ row = [p \in Path |-> IF p \in dirs THEN "idle" ELSE "none"]
    /\ news = [c \in Cmd |-> IF c \in cast THEN "none" ELSE "over"]
    /\ rpc = [d \in Call |-> [step |-> "none", path |-> NoRoot]]
    /\ gone = {}
    /\ spared = {} /\ robbed = {} /\ leaked = {}

CmdProgress(c) == Reserve(c) \/ Make(c) \/ Cook(c) \/ Collect(c)

ChrootNext ==
    \/ \E c \in Cmd :
          CmdProgress(c) \/ ForkFails(c) \/ Killed(c) \/ HearChroot(c) \/ HearEnd(c)
    \/ \E s \in Session : CloseSession(s) \/ \E p \in Path : OpenSession(s, p)
    \/ \E d \in Call : NodeRemoves(d) \/ ForgetRow(d) \/ \E p \in Path : CheckIdle(d, p)
    \/ (\E l \in List : ListChroots(l)) \/ PruneRows

ChrootSpec == ChrootInit /\ [][ChrootNext]_vars

\* The node's loop asks for slots and reaps its children, and commands are
\* scheduled; sessions and clients do as they please.
ChrootFairSpec == ChrootSpec /\ \A c \in Cmd : WF_vars(CmdProgress(c))

-----------------------------------------------------------------------------
(* Properties.                                                             *)

ChrootTypeOK ==
    /\ cast \in SUBSET (UNION Casts)
    /\ dirs \subseteq Path /\ held \subseteq Path /\ reserved \subseteq Path
    /\ held \cap reserved = {}
    /\ \A c \in Cmd : Live(c) => root[c] \in Path
    /\ row \in [Path -> {"none", "idle", "active"}]
    /\ leaked \subseteq held

\* Commands that run at the same time have roots of their own: no command reuses
\* or cleans the root of another that runs, and no old root is given to two.
\* That ends when a session that closes takes a root from its command, or a
\* deletion does, for which the root was idle: because it was not in use when the
\* deletion was checked, because the server had not heard of the command or had
\* failed its job, or because another command had had the path.
RootsExclusive ==
    robbed = {} =>
        \A c, d \in {e \in Cmd : Live(e)} : c # d =>
            /\ root[c] # root[d]
            /\ phase[c] = "reserved" => old[c] # root[d]
            /\ phase[c] = "reserved" /\ phase[d] = "reserved" /\ old[c] # NoRoot
               => old[c] # old[d]

\* chrootLimit limits the commands that run, those that were never forked
\* included, and the chroots they leave behind: the node has no more directories
\* than the limit and one for each command that did not remove the old root it
\* was given, because it died or the root was in use; a last run with a higher
\* limit may have left more, and then there are no more than it left and those.
LimitKept ==
    Slots > 0 /\ robbed = {} =>
        /\ Cardinality({c \in Cmd : Live(c)}) + Cardinality(leaked) <= Slots
        /\ Cardinality(dirs) <= (IF found > Slots THEN found ELSE Slots) + Cardinality(spared)

\* A client's deletion does not pass its check on the chroot of a command that
\* runs while the server counts the command's trove as being built, that is from
\* when the server hears of the command until it hears of its end or fails its job,
\* unless another command had the path before and the server has heard of that
\* one's end since.
InUseStays ==
    [][\A d \in Call, c \in Cmd :
          rpc[d].step = "none" /\ rpc'[d].step = "checked"
              /\ rpc'[d].path = root[c] /\ phase[c] \in {"reserved", "made"}
              /\ news[c] = "active"
          => \E e \in Cmd \ {c} : root[e] = root[c] /\ news[e] = "over"]_vars

\* Every command gets its root and ends, unless commands that were never forked
\* have used up the limit.
CommandsEnd ==
    \A c \in Cmd : phase[c] = "waiting" ~>
        phase[c] \in {"over", "unforked"} \/ (Slots > 0 /\ Cardinality(leaked) >= Slots)
=============================================================================
