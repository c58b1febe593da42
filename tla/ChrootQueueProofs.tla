-------------------------- MODULE ChrootQueueProofs --------------------------
(* Proofs of the chroot queue's properties for every set of commands,         *)
(* sessions and RPCs, every limit and every set of chroots a node registers   *)
(* with.                                                                      *)
EXTENDS ChrootQueue, FiniteSetTheorems, TLAPS

-----------------------------------------------------------------------------
(* The inductive invariant.                                                   *)

Phase == {"waiting", "unforked", "reserved", "made", "ended", "over"}
News == {"none", "active", "over"}
RowState == {"none", "idle", "active"}

\* The states of a command's root, old root and news, phase by phase.
StatesAgree ==
    \A c \in Cmd :
        /\ phase[c] = "waiting" => root[c] = NoRoot /\ news[c] = "none" /\ c \notin spared
        /\ phase[c] # "reserved" => old[c] = NoRoot \/ phase[c] = "unforked"
        /\ phase[c] = "reserved" => c \notin spared
        /\ Live(c) => root[c] \in Path

Types ==
    /\ cast \in SUBSET (UNION Casts)
    /\ dirs \subseteq Path /\ IsFiniteSet(dirs)
    /\ held \subseteq Path /\ IsFiniteSet(held)
    /\ reserved \subseteq Path /\ held \cap reserved = {}
    /\ phase \in [Cmd -> Phase] /\ reuse \in [Cmd -> BOOLEAN]
    /\ root \in [Cmd -> Path \cup {NoRoot}] /\ old \in [Cmd -> Path \cup {NoRoot}]
    /\ session \in [Session -> Path \cup {NoRoot}]
    /\ row \in [Path -> RowState] /\ news \in [Cmd -> News]
    /\ rpc \in [Call -> [step : {"none", "checked", "removed", "over"}, path : Path \cup {NoRoot}]]
    /\ \A d \in Call : rpc[d].step # "none" => rpc[d].path \in Path
    /\ gone \subseteq Path
    /\ found \in Nat /\ spared \subseteq Cmd /\ leaked \subseteq held

\* The queue's limit holds for what it has given away.
HeldWithinSlots == Slots > 0 => Cardinality(held) <= Slots

\* The commands that have yet to deal with the old root they were given.
Pending == {c \in Cmd : phase[c] = "reserved" /\ old[c] # NoRoot}
PendingOld == {old[c] : c \in Pending}

\* As long as nobody has robbed a command, it holds its root alone, and an old
\* root is there, reserved for it alone, until it has dealt with it.
OwnRoots ==
    robbed = {} =>
        /\ \A c \in Cmd : Live(c) => root[c] \in held \ leaked
        /\ \A c, d \in Cmd : Live(c) /\ Live(d) /\ root[c] = root[d] => c = d
        /\ \A c \in Cmd : phase[c] = "reserved" => root[c] \notin dirs
        /\ \A c \in Pending : old[c] \in reserved \cap dirs
        /\ \A c, d \in Pending : old[c] = old[d] => c = d

\* The directories and roots that count: all but those to be reused or removed;
\* and old roots whose commands have left them.
Counted == (dirs \cup held) \ PendingOld
Abandoned == (dirs \cap reserved) \ PendingOld
Bound == IF found > Slots THEN found ELSE Slots

DirsCounted ==
    Slots > 0 /\ robbed = {} =>
        /\ Cardinality(Abandoned) <= Cardinality(spared)
        /\ Cardinality(Counted) <= Bound + Cardinality(spared)

\* The server has heard of the end of a command that had a path.
HadBy(e, p) == root[e] = p /\ news[e] = "over"

\* A path is in use from when the server hears of its command until it hears of
\* the end of that one or of another that had it.
KnownInUse ==
    \A c \in Cmd :
        phase[c] \in {"reserved", "made"} /\ news[c] = "active"
            /\ (\A e \in Cmd \ {c} : ~ HadBy(e, root[c]))
        => row[root[c]] # "idle"

Invariant == Types /\ StatesAgree /\ HeldWithinSlots /\ OwnRoots /\ DirsCounted /\ KnownInUse

-----------------------------------------------------------------------------
(* Sizes of finite sets.                                                      *)

LEMMA Smaller ==
    ASSUME NEW S, IsFiniteSet(S), NEW T, T \subseteq S
    PROVE  /\ IsFiniteSet(T) /\ Cardinality(T) <= Cardinality(S)
           /\ Cardinality(T) \in Nat /\ Cardinality(S) \in Nat
  BY FS_Subset, FS_CardinalityType

LEMMA OneMore ==
    ASSUME NEW S, IsFiniteSet(S), NEW x
    PROVE  /\ IsFiniteSet(S \cup {x}) /\ Cardinality(S \cup {x}) <= Cardinality(S) + 1
           /\ Cardinality(S) \in Nat /\ Cardinality(S \cup {x}) \in Nat
           /\ x \notin S => Cardinality(S \cup {x}) = Cardinality(S) + 1
<1>1. Cardinality(S) \in Nat
  BY FS_CardinalityType
<1>2. CASE x \in S
  <2>1. S \cup {x} = S
    BY <1>2
  <2> QED BY <1>1, <1>2, <2>1
<1>3. CASE x \notin S
  BY <1>1, <1>3, FS_AddElement
<1> QED BY <1>2, <1>3

LEMMA Apart ==
    ASSUME NEW A, NEW B, IsFiniteSet(A), IsFiniteSet(B), A \cap B = {}
    PROVE  /\ IsFiniteSet(A \cup B)
           /\ Cardinality(A \cup B) = Cardinality(A) + Cardinality(B)
           /\ Cardinality(A) \in Nat /\ Cardinality(B) \in Nat
<1>1. Cardinality(A \cap B) = 0
  BY FS_EmptySet
<1>2. Cardinality(A) \in Nat /\ Cardinality(B) \in Nat
  BY FS_CardinalityType
<1>3. /\ IsFiniteSet(A \cup B)
      /\ Cardinality(A \cup B) = Cardinality(A) + Cardinality(B) - Cardinality(A \cap B)
  BY FS_Union
<1> QED BY <1>1, <1>2, <1>3

\* One element for another.
LEMMA Swapped ==
    ASSUME NEW S, IsFiniteSet(S), NEW x, NEW y \in S
    PROVE  /\ IsFiniteSet((S \cup {x}) \ {y})
           /\ Cardinality((S \cup {x}) \ {y}) <= Cardinality(S)
<1>1. IsFiniteSet(S \ {y}) /\ Cardinality(S \ {y}) = Cardinality(S) - 1
  BY FS_RemoveElement
<1>2. (S \cup {x}) \ {y} \subseteq (S \ {y}) \cup {x}
  OBVIOUS
<1>3. /\ IsFiniteSet((S \ {y}) \cup {x})
      /\ Cardinality((S \ {y}) \cup {x}) <= Cardinality(S \ {y}) + 1
      /\ Cardinality((S \ {y}) \cup {x}) \in Nat /\ Cardinality(S \ {y}) \in Nat
  BY <1>1, OneMore
<1>4. /\ IsFiniteSet((S \cup {x}) \ {y})
      /\ Cardinality((S \cup {x}) \ {y}) <= Cardinality((S \ {y}) \cup {x})
      /\ Cardinality((S \cup {x}) \ {y}) \in Nat
  BY <1>2, <1>3, Smaller
<1>5. Cardinality(S) \in Nat
  BY FS_CardinalityType
<1> QED BY <1>1, <1>3, <1>4, <1>5

-----------------------------------------------------------------------------
(* What the steps do to the queue.                                            *)

\* RequestSlot: a new path that is not a directory and not held; an old chroot
\* that nobody has, and none only if there is room for a directory more, or no
\* chroot that could be had.
LEMMA Granted ==
    ASSUME Types, NEW c \in Cmd, RequestSlot(c)
    PROVE  \E p \in Path, o \in Path \cup {NoRoot} :
              /\ phase[c] = "waiting" /\ p \notin dirs \cup held
              /\ Slots > 0 => Cardinality(held) < Slots
              /\ o = NoRoot \/ o \in dirs \ (held \cup reserved)
              /\ Slots > 0 /\ o = NoRoot
                 => Cardinality(held \cup dirs) < Slots \/ dirs \subseteq held \cup reserved
              /\ root' = [root EXCEPT ![c] = p] /\ old' = [old EXCEPT ![c] = o]
              /\ reuse' \in [Cmd -> BOOLEAN]
              /\ held' = held \cup {p} /\ reserved' = (reserved \cup {o}) \ {p, NoRoot}
              /\ UNCHANGED <<cast, dirs, session, serverVars, found, robbed>>
<1>1. PICK again \in BOOLEAN : \E o \in Choice(again), p \in Path :
         /\ IsNewPath(p, NameOf[c])
         /\ reuse' = [reuse EXCEPT ![c] = again /\ o # NoRoot]
         /\ root' = [root EXCEPT ![c] = p]
         /\ old' = [old EXCEPT ![c] = o]
         /\ held' = held \cup {p}
         /\ reserved' = (reserved \cup {o}) \ {p, NoRoot}
  BY DEF RequestSlot
<1>2. PICK o \in Choice(again), p \in Path :
         /\ IsNewPath(p, NameOf[c])
         /\ reuse' = [reuse EXCEPT ![c] = again /\ o # NoRoot]
         /\ root' = [root EXCEPT ![c] = p]
         /\ old' = [old EXCEPT ![c] = o]
         /\ held' = held \cup {p}
         /\ reserved' = (reserved \cup {o}) \ {p, NoRoot}
  BY <1>1
<1>3. /\ phase[c] = "waiting" /\ Room
      /\ UNCHANGED <<cast, dirs, session, serverVars, found, robbed>>
  BY DEF RequestSlot
<1>4. Slots \in Int
  BY ChrootAssumption
<1>5. Slots > 0 => Cardinality(held) < Slots
  BY <1>3, <1>4 DEF Room
<1>6. o = NoRoot \/ o \in dirs \ (held \cup reserved)
  BY <1>2 DEF Choice, OldChroots
<1>7. Slots > 0 /\ o = NoRoot
      => Cardinality(held \cup dirs) < Slots \/ dirs \subseteq held \cup reserved
  <2>1. NoRoot \notin dirs
    BY ChrootAssumption DEF Types, Path
  <2>2. CASE OldChroots = {}
    BY <2>2 DEF OldChroots
  <2>3. CASE OldChroots # {} /\ Slots > 0 /\ o = NoRoot /\ ~(Cardinality(held \cup dirs) < Slots)
    <3>1. ~(Slots <= 0)
      BY <1>4, <2>3
    <3>2. o \in OldChroots
      BY <1>2, <2>3, <3>1 DEF Choice
    <3> QED BY <2>1, <2>3, <3>2 DEF OldChroots
  <2> QED BY <2>2, <2>3
<1>8. p \notin dirs \cup held
  BY <1>2 DEF IsNewPath
<1>9. reuse' \in [Cmd -> BOOLEAN]
  BY <1>2 DEF Types
<1>10. o \in Path \cup {NoRoot}
  BY <1>6 DEF Types
<1> QED
  BY <1>2, <1>3, <1>5, <1>6, <1>7, <1>8, <1>9, <1>10

Request(c) == Reserve(c) \/ ForkFails(c)

\* Somebody gives up p, whoever holds it, and may have removed it.
Robbery(p) ==
    /\ Rob(p) /\ dirs' \in {dirs, dirs \ {p}}
    /\ UNCHANGED <<cmdVars, found, spared>>

Elsewhere == UNCHANGED <<queueVars, cmdVars, found, spared, robbed, leaked>>

\* Of all steps only those of commands and robberies touch the queue.
LEMMA QueueSteps ==
    ASSUME Types, [ChrootNext]_vars
    PROVE  \/ \E c \in Cmd : Request(c) \/ Make(c) \/ Cook(c) \/ Killed(c) \/ Collect(c)
           \/ \E p \in Path : Robbery(p)
           \/ Elsewhere
<1> USE DEF Elsewhere, queueVars, cmdVars, serverVars
<1>1. CASE \E c \in Cmd : CmdProgress(c) \/ ForkFails(c) \/ Killed(c)
  BY <1>1 DEF CmdProgress, Request
<1>2. CASE \E c \in Cmd : HearChroot(c) \/ HearEnd(c)
  BY <1>2 DEF HearChroot, HearEnd
<1>3. ASSUME NEW s \in Session, CloseSession(s)
      PROVE  \E p \in Path : Robbery(p)
  <2>1. session[s] \in Path
    BY <1>3 DEF CloseSession, Types
  <2>2. Robbery(session[s])
    BY <1>3 DEF CloseSession, Robbery
  <2> QED BY <2>1, <2>2
<1>4. CASE \E s \in Session, p \in Path : OpenSession(s, p)
  BY <1>4 DEF OpenSession
<1>5. ASSUME NEW d \in Call, NodeRemoves(d)
      PROVE  (\E p \in Path : Robbery(p)) \/ Elsewhere
  <2> DEFINE p == rpc[d].path
  <2>1. p \in Path
    BY <1>5 DEF NodeRemoves, Types
  <2>2. CASE Rob(p) /\ dirs' = IF d \in Delete /\ Locked(p) THEN dirs ELSE dirs \ {p}
    BY <1>5, <2>1, <2>2 DEF NodeRemoves, Robbery
  <2>3. CASE UNCHANGED <<queueVars, robbed, leaked>>
    BY <1>5, <2>3 DEF NodeRemoves
  <2> QED BY <1>5, <2>2, <2>3 DEF NodeRemoves
<1>6. CASE \E d \in Call : ForgetRow(d) \/ \E p \in Path : CheckIdle(d, p)
  BY <1>6 DEF ForgetRow, CheckIdle
<1>7. CASE (\E l \in List : ListChroots(l)) \/ PruneRows
  BY <1>7 DEF ListChroots, PruneRows
<1>8. CASE UNCHANGED vars
  BY <1>8 DEF vars
<1> QED
  BY <1>1, <1>2, <1>3, <1>4, <1>5, <1>6, <1>7, <1>8 DEF ChrootNext, CmdProgress

-----------------------------------------------------------------------------
(* Types and the states of commands.                                          *)

LEMMA TypesInit == ChrootInit => Types /\ StatesAgree
<1> SUFFICES ASSUME ChrootInit PROVE Types /\ StatesAgree
  OBVIOUS
<1>1. dirs \subseteq Path /\ IsFiniteSet(dirs)
  BY ChrootAssumption DEF ChrootInit, Path
<1>2. found \in Nat
  BY <1>1, FS_CardinalityType DEF ChrootInit
<1>3. IsFiniteSet(held)
  BY FS_EmptySet DEF ChrootInit
<1>4. Types
  BY <1>1, <1>2, <1>3 DEF ChrootInit, Types, Phase, News, RowState
<1>5. StatesAgree
  BY DEF ChrootInit, StatesAgree, Live
<1> QED BY <1>4, <1>5

LEMMA RequestTypes ==
    ASSUME Types, StatesAgree, NEW c \in Cmd, Request(c)
    PROVE  Types' /\ StatesAgree'
<1>1. RequestSlot(c)
  BY DEF Request, Reserve, ForkFails
<1>2. PICK p \in Path, o \in Path \cup {NoRoot} :
         /\ phase[c] = "waiting" /\ p \notin dirs \cup held
         /\ o = NoRoot \/ o \in dirs \ (held \cup reserved)
         /\ root' = [root EXCEPT ![c] = p] /\ old' = [old EXCEPT ![c] = o]
         /\ reuse' \in [Cmd -> BOOLEAN]
         /\ held' = held \cup {p} /\ reserved' = (reserved \cup {o}) \ {p, NoRoot}
         /\ UNCHANGED <<cast, dirs, session, serverVars, found, robbed>>
  BY <1>1, Granted
<1>3. IsFiniteSet(held')
  BY <1>2, OneMore DEF Types
<1>4. /\ phase' \in [Cmd -> Phase] /\ \A e \in Cmd \ {c} : phase'[e] = phase[e]
      /\ phase'[c] \in {"reserved", "unforked"}
  BY DEF Request, Reserve, ForkFails, Types, Phase
<1>5. /\ spared' \subseteq Cmd /\ \A e \in Cmd \ {c} : e \in spared' <=> e \in spared
      /\ phase'[c] = "reserved" => spared' = spared
  BY DEF Request, Reserve, ForkFails, Types
<1>6. leaked' \subseteq held'
  BY <1>2 DEF Request, Reserve, ForkFails, Types
<1>7. held' \cap reserved' = {} /\ held' \subseteq Path /\ reserved' \subseteq Path
  BY <1>2 DEF Types
<1>8. Types'
  BY <1>2, <1>3, <1>4, <1>5, <1>6, <1>7 DEF Types, serverVars
<1>9. StatesAgree'
  BY <1>2, <1>4, <1>5 DEF StatesAgree, Live, Types, serverVars
<1> QED BY <1>8, <1>9

LEMMA MakeTypes ==
    ASSUME Types, StatesAgree, NEW c \in Cmd, Make(c) \/ Cook(c) \/ Killed(c)
    PROVE  Types' /\ StatesAgree'
<1>1. root[c] \in Path
  BY DEF StatesAgree, Live, Make, Cook, Killed
<1>2. dirs' \subseteq dirs \cup {root[c]}
  BY DEF Make, Cook, Killed, Remains, queueVars
<1>3. IsFiniteSet(dirs') /\ dirs' \subseteq Path
  <2>1. IsFiniteSet(dirs \cup {root[c]})
    BY OneMore DEF Types
  <2> QED BY <1>1, <1>2, <2>1, Smaller DEF Types
<1>4. /\ phase' \in [Cmd -> Phase] /\ \A e \in Cmd \ {c} : phase'[e] = phase[e]
      /\ phase'[c] \in {"made", "ended"} /\ phase[c] \in {"reserved", "made"}
      /\ phase'[c] = "made" => phase[c] = "reserved"
  BY DEF Make, Cook, Killed, Types, Phase
<1>5. /\ reuse' \in [Cmd -> BOOLEAN] /\ old' \in [Cmd -> Path \cup {NoRoot}]
      /\ old'[c] = NoRoot /\ \A e \in Cmd \ {c} : old'[e] = old[e]
      /\ spared' \subseteq Cmd /\ \A e \in Cmd \ {c} : e \in spared' <=> e \in spared
  BY <1>4 DEF Make, Cook, Killed, DropOld, Types, StatesAgree
<1>6. UNCHANGED <<cast, held, reserved, root, session, row, news, rpc, gone, found, leaked>>
  BY DEF Make, Cook, Killed, queueVars, serverVars
<1>7. Types'
  BY <1>3, <1>4, <1>5, <1>6 DEF Types
<1>8. StatesAgree'
  BY <1>4, <1>5, <1>6 DEF StatesAgree, Live, Types
<1> QED BY <1>7, <1>8

LEMMA CollectTypes ==
    ASSUME Types, StatesAgree, NEW c \in Cmd, Collect(c)
    PROVE  Types' /\ StatesAgree'
<1>1. /\ held' \subseteq held /\ reserved' \subseteq reserved /\ leaked' \subseteq held'
  BY DEF Collect, GiveUpRoot, GiveUp, Types
<1>2. IsFiniteSet(held')
  BY <1>1, Smaller DEF Types
<1>3. /\ phase' \in [Cmd -> Phase] /\ \A e \in Cmd \ {c} : phase'[e] = phase[e]
      /\ phase'[c] = "over" /\ phase[c] = "ended"
  BY DEF Collect, Types, Phase
<1>4. UNCHANGED <<cast, dirs, reuse, root, old, session, row, news, rpc, gone, found, spared>>
  BY DEF Collect, serverVars
<1>5. Types'
  BY <1>1, <1>2, <1>3, <1>4 DEF Types
<1>6. StatesAgree'
  BY <1>3, <1>4 DEF StatesAgree, Live, Types
<1> QED BY <1>5, <1>6

\* The steps of sessions and of the server, variable by variable.
Other ==
    \/ \E c \in Cmd : HearChroot(c) \/ HearEnd(c)
    \/ \E s \in Session : CloseSession(s) \/ \E p \in Path : OpenSession(s, p)
    \/ \E d \in Call : NodeRemoves(d) \/ ForgetRow(d) \/ \E p \in Path : CheckIdle(d, p)
    \/ (\E l \in List : ListChroots(l)) \/ PruneRows
    \/ UNCHANGED vars

LEMMA OthersSession ==
    ASSUME Types, Other
    PROVE  cast' \subseteq cast /\ session' \in [Session -> Path \cup {NoRoot}]
<1>1. CASE \E s \in Session, p \in Path : OpenSession(s, p)
  <2>1. PICK s \in Session, p \in Path : OpenSession(s, p)
    BY <1>1
  <2> QED BY <2>1 DEF OpenSession, Types
<1>2. CASE \E s \in Session : CloseSession(s)
  BY <1>2 DEF CloseSession, Types
<1>3. CASE \E l \in List : ListChroots(l)
  BY <1>3 DEF ListChroots, Types
<1>4. CASE UNCHANGED <<cast, session>>
  BY <1>4 DEF Types
<1> QED
  BY <1>1, <1>2, <1>3, <1>4 DEF Other, HearChroot, HearEnd, NodeRemoves, ForgetRow, CheckIdle, PruneRows, vars

LEMMA OthersRow ==
    ASSUME Types, Other
    PROVE  row' \in [Path -> RowState]
<1>1. CASE \E p \in Path \cup {NoRoot}, r \in RowState : SetRow(p, r)
  BY <1>1 DEF SetRow, Types
<1>2. CASE PruneRows
  BY <1>2 DEF PruneRows, Types, RowState
<1>3. CASE UNCHANGED row
  BY <1>3 DEF Types
<1>4. ASSUME NEW c \in Cmd, HearChroot(c) \/ HearEnd(c)
      PROVE  UNCHANGED row \/ \E p \in Path \cup {NoRoot}, r \in RowState : SetRow(p, r)
  BY <1>4 DEF HearChroot, HearEnd, RowState, Types
<1>5. ASSUME NEW d \in Call, ForgetRow(d)
      PROVE  \E p \in Path \cup {NoRoot}, r \in RowState : SetRow(p, r)
  BY <1>5 DEF ForgetRow, RowState, Types
<1> QED
  BY <1>1, <1>2, <1>3, <1>4, <1>5
  DEF Other, CloseSession, OpenSession, NodeRemoves, CheckIdle, ListChroots, vars, serverVars

LEMMA OthersRpc ==
    ASSUME Types, Other
    PROVE  /\ rpc' \in [Call -> [step : {"none", "checked", "removed", "over"},
                                 path : Path \cup {NoRoot}]]
           /\ \A d \in Call : rpc'[d].step # "none" => rpc'[d].path \in Path
<1>1. CASE \E d \in Call, p \in Path : CheckIdle(d, p)
  <2>1. PICK d \in Call, p \in Path : CheckIdle(d, p)
    BY <1>1
  <2> QED BY <2>1 DEF CheckIdle, Types
<1>2. ASSUME NEW d \in Call, NEW step \in {"removed", "over"}, rpc[d].step # "none", Past(d, step)
      PROVE  /\ rpc' \in [Call -> [step : {"none", "checked", "removed", "over"},
                                   path : Path \cup {NoRoot}]]
             /\ \A e \in Call : rpc'[e].step # "none" => rpc'[e].path \in Path
  BY <1>2 DEF Past, Types
<1>3. CASE \E d \in Call : NodeRemoves(d) \/ ForgetRow(d)
  BY <1>2, <1>3 DEF NodeRemoves, ForgetRow
<1>4. CASE UNCHANGED rpc
  BY <1>4 DEF Types
<1> QED
  BY <1>1, <1>3, <1>4
  DEF Other, HearChroot, HearEnd, CloseSession, OpenSession, ListChroots, PruneRows, vars, serverVars

LEMMA OthersNews ==
    ASSUME Types, StatesAgree, Other
    PROVE  /\ news' \in [Cmd -> News] /\ gone' \subseteq Path
           /\ \A c \in Cmd : \/ news'[c] = news[c]
                             \/ phase[c] # "waiting"
<1>1. CASE \E c \in Cmd : HearChroot(c)
  BY <1>1 DEF HearChroot, Types, News
<1>2. CASE \E c \in Cmd : HearEnd(c)
  BY <1>2 DEF HearEnd, Types, News, StatesAgree
<1>3. CASE (\E l \in List : ListChroots(l)) \/ PruneRows
  BY <1>3 DEF ListChroots, PruneRows, Types
<1>4. CASE UNCHANGED <<news, gone>>
  BY <1>4 DEF Types
<1> QED
  BY <1>1, <1>2, <1>3, <1>4
  DEF Other, CloseSession, OpenSession, NodeRemoves, ForgetRow, CheckIdle, vars, serverVars

LEMMA TypesStep ==
    ASSUME Types, StatesAgree, [ChrootNext]_vars
    PROVE  Types' /\ StatesAgree'
<1> DEFINE Commands == \E c \in Cmd : Request(c) \/ Make(c) \/ Cook(c) \/ Killed(c) \/ Collect(c)
<1>1. CASE Commands
  BY <1>1, RequestTypes, MakeTypes, CollectTypes
<1>2. CASE ~ Commands
  <2>1. Other
    BY <1>2 DEF ChrootNext, CmdProgress, Request, Other
  <2>2. /\ dirs' \subseteq dirs /\ held' \subseteq held /\ reserved' \subseteq reserved
        /\ leaked' \subseteq held'
        /\ UNCHANGED <<cmdVars, found, spared>>
    <3>1. CASE \E p \in Path : Robbery(p)
      BY <3>1 DEF Robbery, Rob, GiveUp, Types
    <3>2. CASE Elsewhere
      BY <3>2 DEF Elsewhere, Types, queueVars
    <3> QED BY <1>2, <3>1, <3>2, QueueSteps
  <2>3. IsFiniteSet(dirs') /\ IsFiniteSet(held')
    BY <2>2, Smaller DEF Types
  <2>4. Types'
    BY <2>1, <2>2, <2>3, OthersSession, OthersRow, OthersRpc, OthersNews DEF Types, cmdVars
  <2>5. StatesAgree'
    BY <2>1, <2>2, OthersNews DEF StatesAgree, Live, cmdVars
  <2> QED BY <2>4, <2>5
<1> QED BY <1>1, <1>2

-----------------------------------------------------------------------------
(* The queue's limit, and the roots of commands.                              *)

LEMMA HeldStep ==
    ASSUME Types, HeldWithinSlots, [ChrootNext]_vars
    PROVE  HeldWithinSlots'
<1> SUFFICES ASSUME Slots > 0 PROVE Cardinality(held') <= Slots
  BY DEF HeldWithinSlots
<1>1. Slots \in Int /\ Cardinality(held) <= Slots
  BY ChrootAssumption DEF HeldWithinSlots
<1>2. ASSUME held' \subseteq held PROVE Cardinality(held') <= Slots
  BY <1>1, <1>2, Smaller DEF Types
<1>3. ASSUME NEW c \in Cmd, Request(c) PROVE Cardinality(held') <= Slots
  <2>1. RequestSlot(c)
    BY <1>3 DEF Request, Reserve, ForkFails
  <2>2. PICK p \in Path : held' = held \cup {p} /\ Cardinality(held) < Slots
    BY <2>1, Granted
  <2>3. /\ Cardinality(held \cup {p}) <= Cardinality(held) + 1
        /\ Cardinality(held) \in Nat /\ Cardinality(held \cup {p}) \in Nat
    BY OneMore DEF Types
  <2> QED BY <1>1, <2>2, <2>3
<1>4. ASSUME NEW c \in Cmd, Make(c) \/ Cook(c) \/ Killed(c) \/ Collect(c)
      PROVE  held' \subseteq held
  BY <1>4 DEF Make, Cook, Killed, Collect, GiveUpRoot, GiveUp, queueVars
<1>5. ASSUME NEW p \in Path, Robbery(p) PROVE held' \subseteq held
  BY <1>5 DEF Robbery, Rob, GiveUp
<1>6. CASE Elsewhere
  BY <1>2, <1>6 DEF Elsewhere, queueVars
<1> QED BY <1>2, <1>3, <1>4, <1>5, <1>6, QueueSteps

LEMMA RobbedGrows ==
    ASSUME Types, [ChrootNext]_vars
    PROVE  robbed \subseteq robbed'
<1>1. ASSUME NEW c \in Cmd, Request(c) PROVE robbed \subseteq robbed'
  BY <1>1 DEF Request, Reserve, ForkFails, RequestSlot
<1>2. ASSUME NEW c \in Cmd, Make(c) \/ Cook(c) \/ Killed(c) \/ Collect(c)
      PROVE  robbed \subseteq robbed'
  BY <1>2 DEF Make, Cook, Killed, Collect
<1>3. ASSUME NEW p \in Path, Robbery(p) PROVE robbed \subseteq robbed'
  BY <1>3 DEF Robbery, Rob
<1>4. CASE Elsewhere
  BY <1>4 DEF Elsewhere
<1> QED BY <1>1, <1>2, <1>3, <1>4, QueueSteps

LEMMA RequestRoots ==
    ASSUME Types, StatesAgree, OwnRoots, robbed = {}, NEW c \in Cmd, Request(c)
    PROVE  OwnRoots'
<1>1. RequestSlot(c)
  BY DEF Request, Reserve, ForkFails
<1>2. PICK p \in Path, o \in Path \cup {NoRoot} :
         /\ phase[c] = "waiting" /\ p \notin dirs \cup held
         /\ o = NoRoot \/ o \in dirs \ (held \cup reserved)
         /\ root' = [root EXCEPT ![c] = p] /\ old' = [old EXCEPT ![c] = o]
         /\ held' = held \cup {p} /\ reserved' = (reserved \cup {o}) \ {p, NoRoot}
         /\ dirs' = dirs
  BY <1>1, Granted
<1>3. /\ root'[c] = p /\ old'[c] = o
      /\ \A e \in Cmd \ {c} : root'[e] = root[e] /\ old'[e] = old[e] /\ phase'[e] = phase[e]
      /\ \/ phase'[c] = "reserved" /\ leaked' = leaked
         \/ phase'[c] = "unforked" /\ leaked' = leaked \cup {p}
  BY <1>2 DEF Request, Reserve, ForkFails, Types
<1>4. /\ \A e \in Cmd : Live(e) => root[e] \in held \ leaked
      /\ \A e, d \in Cmd : Live(e) /\ Live(d) /\ root[e] = root[d] => e = d
      /\ \A e \in Cmd : phase[e] = "reserved" => root[e] \notin dirs
      /\ \A e \in Pending : old[e] \in reserved \cap dirs
      /\ \A e, d \in Pending : old[e] = old[d] => e = d
  BY DEF OwnRoots
<1>5. \A e \in Cmd : Live(e)' => root'[e] \in held' \ leaked'
  BY <1>2, <1>3, <1>4 DEF Live, Types
<1>6. \A e, d \in Cmd : Live(e)' /\ Live(d)' /\ root'[e] = root'[d] => e = d
  BY <1>2, <1>3, <1>4 DEF Live
<1>7. \A e \in Cmd : phase'[e] = "reserved" => root'[e] \notin dirs'
  BY <1>2, <1>3, <1>4
<1>8. \A e \in Pending' : e \in Pending \/ (e = c /\ o # NoRoot)
  BY <1>3 DEF Pending
<1>9. \A e \in Pending' : old'[e] \in reserved' \cap dirs'
  <2>1. NoRoot \notin dirs
    BY ChrootAssumption DEF Types, Path
  <2> QED BY <1>2, <1>3, <1>4, <1>8, <2>1 DEF Pending
<1>10. \A e, d \in Pending' : old'[e] = old'[d] => e = d
  BY <1>2, <1>3, <1>4, <1>8 DEF Pending
<1> QED BY <1>5, <1>6, <1>7, <1>9, <1>10 DEF OwnRoots

\* A command that makes its root, builds in it or is killed leaves the others' alone.
LEMMA MakeRoots ==
    ASSUME Types, StatesAgree, OwnRoots, robbed = {},
           NEW c \in Cmd, Make(c) \/ Cook(c) \/ Killed(c)
    PROVE  OwnRoots'
<1>1. /\ \A e \in Cmd \ {c} : phase'[e] = phase[e] /\ old'[e] = old[e]
      /\ phase'[c] \in {"made", "ended"} /\ phase[c] \in {"reserved", "made"}
      /\ UNCHANGED <<root, held, reserved, leaked>>
      /\ dirs \ {old[c], root[c]} \subseteq dirs' /\ dirs' \subseteq dirs \cup {root[c]}
      /\ Make(c) \/ dirs \ {root[c]} \subseteq dirs'
  BY DEF Make, Cook, Killed, DropOld, Remains, Types, queueVars
<1>2. /\ \A e \in Cmd : Live(e) => root[e] \in held \ leaked
      /\ \A e, d \in Cmd : Live(e) /\ Live(d) /\ root[e] = root[d] => e = d
      /\ \A e \in Cmd : phase[e] = "reserved" => root[e] \notin dirs
      /\ \A e \in Pending : old[e] \in reserved \cap dirs
      /\ \A e, d \in Pending : old[e] = old[d] => e = d
  BY DEF OwnRoots
<1>3. Live(c) /\ \A e \in Cmd : Live(e)' => Live(e)
  BY <1>1 DEF Live
<1>4. \A e \in Pending' : e \in Pending /\ e # c /\ old'[e] = old[e]
  BY <1>1 DEF Pending
<1>5. \A e \in Cmd : phase'[e] = "reserved" => root'[e] \notin dirs'
  BY <1>1, <1>2, <1>3 DEF Live
<1>6. \A e \in Pending' : old'[e] \in reserved' \cap dirs'
  <2> SUFFICES ASSUME NEW e \in Pending' PROVE old[e] \in dirs'
    BY <1>1, <1>2, <1>4
  <2>1. old[e] # root[c]
    BY <1>2, <1>3, <1>4 DEF Types
  <2>2. CASE Make(c)
    <3>1. old[c] # old[e]
      BY <1>2, <1>4, <2>2 DEF Make, Pending
    <3> QED BY <1>1, <1>2, <1>4, <2>1, <3>1
  <2>3. CASE dirs \ {root[c]} \subseteq dirs'
    BY <1>2, <1>4, <2>1, <2>3
  <2> QED BY <1>1, <2>2, <2>3
<1> QED BY <1>1, <1>2, <1>3, <1>4, <1>5, <1>6 DEF OwnRoots

LEMMA CollectRoots ==
    ASSUME Types, StatesAgree, OwnRoots, robbed = {}, NEW c \in Cmd, Collect(c)
    PROVE  OwnRoots'
<1>1. /\ \A e \in Cmd \ {c} : phase'[e] = phase[e]
      /\ phase[c] = "ended" /\ phase'[c] = "over"
      /\ UNCHANGED <<root, old, dirs>>
      /\ held' = held \ {root[c]} /\ reserved' = reserved \ {root[c]} /\ leaked' \subseteq leaked
  BY DEF Collect, GiveUpRoot, GiveUp, Types
<1>2. /\ \A e \in Cmd : Live(e) => root[e] \in held \ leaked
      /\ \A e, d \in Cmd : Live(e) /\ Live(d) /\ root[e] = root[d] => e = d
      /\ \A e \in Cmd : phase[e] = "reserved" => root[e] \notin dirs
      /\ \A e \in Pending : old[e] \in reserved \cap dirs
      /\ \A e, d \in Pending : old[e] = old[d] => e = d
  BY DEF OwnRoots
<1>3. Live(c) /\ \A e \in Cmd : Live(e)' => Live(e) /\ e # c
  BY <1>1 DEF Live
<1>4. Pending' = Pending
  BY <1>1 DEF Pending
<1>5. \A e \in Cmd : phase'[e] = "reserved" => phase[e] = "reserved"
  BY <1>1
<1>6. \A e \in Pending : old[e] # root[c]
  BY <1>2, <1>3 DEF Types
<1> QED BY <1>1, <1>2, <1>3, <1>4, <1>5, <1>6 DEF OwnRoots

\* A robbery that nobody suffers.
LEMMA RobberyRoots ==
    ASSUME Types, StatesAgree, OwnRoots, robbed = {}, robbed' = {}, NEW p \in Path, Robbery(p)
    PROVE  OwnRoots'
<1>1. /\ UNCHANGED <<phase, root, old>>
      /\ held' = held \ {p} /\ reserved' = reserved \ {p} /\ leaked' = leaked \ {p}
      /\ dirs \ {p} \subseteq dirs' /\ dirs' \subseteq dirs
      /\ \A c \in Cmd : Live(c) => p # root[c] /\ p # old[c]
  BY DEF Robbery, Rob, GiveUp, cmdVars
<1>2. /\ \A e \in Cmd : Live(e) => root[e] \in held \ leaked
      /\ \A e, d \in Cmd : Live(e) /\ Live(d) /\ root[e] = root[d] => e = d
      /\ \A e \in Cmd : phase[e] = "reserved" => root[e] \notin dirs
      /\ \A e \in Pending : old[e] \in reserved \cap dirs
      /\ \A e, d \in Pending : old[e] = old[d] => e = d
  BY DEF OwnRoots
<1>3. Pending' = Pending /\ \A e \in Pending : e \in Cmd /\ Live(e)
  BY <1>1 DEF Pending, Live
<1>4. \A e \in Cmd : Live(e)' = Live(e)
  BY <1>1 DEF Live
<1> QED BY <1>1, <1>2, <1>3, <1>4 DEF OwnRoots

LEMMA RootsStep ==
    ASSUME Types, StatesAgree, OwnRoots, [ChrootNext]_vars
    PROVE  OwnRoots'
<1>1. CASE robbed' # {}
  BY <1>1 DEF OwnRoots
<1>2. CASE robbed' = {}
  <2>1. robbed = {}
    BY <1>2, RobbedGrows
  <2>2. CASE Elsewhere
    BY <2>2 DEF Elsewhere, queueVars, cmdVars, OwnRoots, Live, Pending
  <2> QED
    BY <1>2, <2>1, <2>2, RequestRoots, MakeRoots, CollectRoots, RobberyRoots, QueueSteps
<1> QED BY <1>1, <1>2

-----------------------------------------------------------------------------
(* The number of directories.                                                 *)

LEMMA FiniteParts ==
    ASSUME Types
    PROVE  /\ IsFiniteSet(Abandoned) /\ IsFiniteSet(Counted) /\ IsFiniteSet(spared)
           /\ IsFiniteSet(held \cup dirs)
           /\ Cardinality(Abandoned) \in Nat /\ Cardinality(Counted) \in Nat
           /\ Cardinality(spared) \in Nat /\ Cardinality(held) \in Nat
           /\ Cardinality(held \cup dirs) \in Nat
           /\ Slots \in Int /\ found \in Nat /\ Bound \in Int /\ Slots <= Bound
<1>1. IsFiniteSet(held \cup dirs) /\ IsFiniteSet(held)
  BY FS_Union DEF Types
<1>2. IsFiniteSet(Abandoned) /\ IsFiniteSet(Counted)
  BY <1>1, Smaller DEF Abandoned, Counted
<1>3. IsFiniteSet(spared)
  BY ChrootAssumption, Smaller DEF Types
<1>4. Slots \in Int /\ found \in Nat /\ Bound \in Int /\ Slots <= Bound
  BY ChrootAssumption DEF Types, Bound
<1> QED BY <1>1, <1>2, <1>3, <1>4, FS_CardinalityType

LEMMA NoMoreDirs ==
    ASSUME Types, Slots > 0, robbed = {}, DirsCounted,
           Abandoned' \subseteq Abandoned, Counted' \subseteq Counted, UNCHANGED <<spared, found>>
    PROVE  DirsCounted'
<1>1. /\ Cardinality(Abandoned) <= Cardinality(spared)
      /\ Cardinality(Counted) <= Bound + Cardinality(spared)
  BY DEF DirsCounted
<1>2. /\ Cardinality(Abandoned') <= Cardinality(Abandoned) /\ Cardinality(Abandoned') \in Nat
      /\ Cardinality(Counted') <= Cardinality(Counted) /\ Cardinality(Counted') \in Nat
  BY FiniteParts, Smaller
<1>3. Bound' = Bound /\ spared' = spared
  BY DEF Bound
<1>4. /\ Cardinality(Abandoned') <= Cardinality(spared)
      /\ Cardinality(Counted') <= Bound + Cardinality(spared)
  BY <1>1, <1>2, FiniteParts
<1> QED BY <1>3, <1>4 DEF DirsCounted

LEMMA OneSpared ==
    ASSUME Types, Slots > 0, robbed = {}, DirsCounted, NEW c \in Cmd \ spared, NEW x, NEW y,
           Abandoned' \subseteq Abandoned \cup {x}, Counted' \subseteq Counted \cup {y},
           spared' = spared \cup {c}, found' = found
    PROVE  DirsCounted'
<1>1. /\ Cardinality(Abandoned) <= Cardinality(spared)
      /\ Cardinality(Counted) <= Bound + Cardinality(spared)
  BY DEF DirsCounted
<1>2. /\ IsFiniteSet(Abandoned \cup {x}) /\ IsFiniteSet(Counted \cup {y})
      /\ Cardinality(Abandoned \cup {x}) <= Cardinality(Abandoned) + 1
      /\ Cardinality(Counted \cup {y}) <= Cardinality(Counted) + 1
      /\ Cardinality(Abandoned \cup {x}) \in Nat /\ Cardinality(Counted \cup {y}) \in Nat
  BY FiniteParts, OneMore
<1>3. /\ Cardinality(Abandoned') <= Cardinality(Abandoned \cup {x}) /\ Cardinality(Abandoned') \in Nat
      /\ Cardinality(Counted') <= Cardinality(Counted \cup {y}) /\ Cardinality(Counted') \in Nat
  BY <1>2, Smaller
<1>4. Cardinality(spared') = Cardinality(spared) + 1
  BY FiniteParts, OneMore
<1>5. Bound' = Bound
  BY DEF Bound
<1>6. /\ Cardinality(Abandoned') <= Cardinality(spared')
      /\ Cardinality(Counted') <= Bound + Cardinality(spared')
  BY <1>1, <1>2, <1>3, <1>4, FiniteParts
<1> QED BY <1>5, <1>6 DEF DirsCounted

LEMMA RequestDirs ==
    ASSUME Types, StatesAgree, HeldWithinSlots, OwnRoots, DirsCounted, Slots > 0, robbed = {},
           NEW c \in Cmd, Request(c)
    PROVE  DirsCounted'
<1>1. RequestSlot(c)
  BY DEF Request, Reserve, ForkFails
<1>2. PICK p \in Path, o \in Path \cup {NoRoot} :
         /\ phase[c] = "waiting" /\ p \notin dirs \cup held
         /\ Cardinality(held) < Slots
         /\ o = NoRoot \/ o \in dirs \ (held \cup reserved)
         /\ o = NoRoot => Cardinality(held \cup dirs) < Slots \/ dirs \subseteq held \cup reserved
         /\ old' = [old EXCEPT ![c] = o]
         /\ held' = held \cup {p} /\ reserved' = (reserved \cup {o}) \ {p, NoRoot}
         /\ UNCHANGED <<dirs, found>>
  BY <1>1, Granted
<1>3. /\ old'[c] = o /\ \A e \in Cmd \ {c} : old'[e] = old[e] /\ phase'[e] = phase[e]
      /\ \/ phase'[c] = "reserved" /\ spared' = spared
         \/ phase'[c] = "unforked" /\ spared' = IF o # NoRoot THEN spared \cup {c} ELSE spared
  BY <1>2 DEF Request, Reserve, ForkFails, Types
<1>4. c \notin Pending /\ c \notin spared /\ NoRoot \notin dirs \cup held
  BY <1>2, ChrootAssumption DEF Pending, StatesAgree, Types, Path
<1>5. PendingOld \subseteq reserved
  BY DEF PendingOld, Pending, OwnRoots
<1>6. CASE o = NoRoot
  <2>1. Pending' = Pending
    BY <1>3, <1>4, <1>6 DEF Pending
  <2>2. PendingOld' = PendingOld
    BY <1>3, <1>4, <2>1 DEF PendingOld, Pending
  <2>3. Abandoned' \subseteq Abandoned
    BY <1>2, <1>6, <2>2 DEF Abandoned
  <2>4. Cardinality(Counted') <= Bound + Cardinality(spared)
    <3>1. CASE Cardinality(held \cup dirs) < Slots
      <4>1. Counted' \subseteq (held \cup dirs) \cup {p}
        BY <1>2 DEF Counted
      <4>2. /\ IsFiniteSet((held \cup dirs) \cup {p})
            /\ Cardinality((held \cup dirs) \cup {p}) <= Cardinality(held \cup dirs) + 1
            /\ Cardinality((held \cup dirs) \cup {p}) \in Nat
        BY FiniteParts, OneMore
      <4>3. /\ Cardinality(Counted') <= Cardinality((held \cup dirs) \cup {p})
            /\ Cardinality(Counted') \in Nat
        BY <4>1, <4>2, Smaller
      <4> QED BY <3>1, <4>2, <4>3, FiniteParts
    <3>2. CASE dirs \subseteq held \cup reserved
      <4>1. Counted' \subseteq (held \cup {p}) \cup Abandoned
        BY <1>2, <2>2, <3>2 DEF Counted, Abandoned
      <4>2. (held \cup {p}) \cap Abandoned = {}
        BY <1>2 DEF Abandoned, Types
      <4>3. /\ IsFiniteSet(held \cup {p})
            /\ Cardinality(held \cup {p}) <= Cardinality(held) + 1
        BY OneMore DEF Types
      <4>4. /\ IsFiniteSet((held \cup {p}) \cup Abandoned)
            /\ Cardinality((held \cup {p}) \cup Abandoned)
               = Cardinality(held \cup {p}) + Cardinality(Abandoned)
            /\ Cardinality(held \cup {p}) \in Nat
        BY <4>2, <4>3, FiniteParts, Apart
      <4>5. /\ Cardinality(Counted') <= Cardinality((held \cup {p}) \cup Abandoned)
            /\ Cardinality(Counted') \in Nat
        BY <4>1, <4>4, Smaller
      <4>6. Cardinality(Abandoned) <= Cardinality(spared)
        BY DEF DirsCounted
      <4> QED BY <1>2, <4>3, <4>4, <4>5, <4>6, FiniteParts
    <3> QED BY <1>2, <1>6, <3>1, <3>2
  <2>5. /\ Cardinality(Abandoned') <= Cardinality(Abandoned) /\ Cardinality(Abandoned') \in Nat
        /\ Cardinality(Abandoned) <= Cardinality(spared)
    BY <2>3, FiniteParts, Smaller DEF DirsCounted
  <2>6. spared' = spared /\ Bound' = Bound
    BY <1>2, <1>3, <1>6 DEF Bound
  <2>7. Cardinality(Abandoned') <= Cardinality(spared)
    BY <2>5, FiniteParts
  <2> QED BY <2>4, <2>6, <2>7 DEF DirsCounted
<1>7. CASE o # NoRoot /\ phase'[c] = "reserved"
  <2>1. Pending' = Pending \cup {c}
    BY <1>3, <1>4, <1>7 DEF Pending
  <2>2. PendingOld' = PendingOld \cup {o}
    BY <1>3, <1>4, <2>1 DEF PendingOld, Pending
  <2>3. Abandoned' \subseteq Abandoned
    BY <1>2, <2>2 DEF Abandoned
  <2>4. Counted' \subseteq (Counted \cup {p}) \ {o} /\ o \in Counted
    BY <1>2, <1>5, <1>7, <2>2 DEF Counted
  <2>5. /\ IsFiniteSet((Counted \cup {p}) \ {o})
        /\ Cardinality((Counted \cup {p}) \ {o}) <= Cardinality(Counted)
    BY <2>4, FiniteParts, Swapped
  <2>6. /\ Cardinality(Counted') <= Cardinality((Counted \cup {p}) \ {o})
        /\ Cardinality(Counted') \in Nat /\ Cardinality((Counted \cup {p}) \ {o}) \in Nat
    BY <2>4, <2>5, Smaller
  <2>7. Cardinality(Abandoned') <= Cardinality(Abandoned) /\ Cardinality(Abandoned') \in Nat
    BY <2>3, FiniteParts, Smaller
  <2>8. spared' = spared /\ Bound' = Bound
    BY <1>2, <1>3, <1>7 DEF Bound
  <2>9. /\ Cardinality(Abandoned) <= Cardinality(spared)
        /\ Cardinality(Counted) <= Bound + Cardinality(spared)
    BY DEF DirsCounted
  <2>10. /\ Cardinality(Abandoned') <= Cardinality(spared)
         /\ Cardinality(Counted') <= Bound + Cardinality(spared)
    BY <2>5, <2>6, <2>7, <2>9, FiniteParts
  <2> QED BY <2>8, <2>10 DEF DirsCounted
<1>8. CASE o # NoRoot /\ phase'[c] = "unforked"
  <2>1. Pending' = Pending
    BY <1>3, <1>4, <1>8 DEF Pending
  <2>2. PendingOld' = PendingOld
    BY <1>3, <1>4, <2>1 DEF PendingOld, Pending
  <2>3. Abandoned' \subseteq Abandoned \cup {o} /\ Counted' \subseteq Counted \cup {p}
    BY <1>2, <2>2 DEF Abandoned, Counted
  <2> QED BY <1>2, <1>3, <1>4, <1>8, <2>3, OneSpared
<1> QED BY <1>3, <1>6, <1>7, <1>8

LEMMA MakeDirs ==
    ASSUME Types, StatesAgree, OwnRoots, DirsCounted, Slots > 0, robbed = {},
           NEW c \in Cmd, Make(c) \/ Cook(c) \/ Killed(c)
    PROVE  DirsCounted'
<1>1. /\ \A e \in Cmd \ {c} : phase'[e] = phase[e] /\ old'[e] = old[e]
      /\ phase'[c] \in {"made", "ended"} /\ phase[c] \in {"reserved", "made"}
      /\ UNCHANGED <<root, held, reserved, found>>
  BY DEF Make, Cook, Killed, DropOld, Types, queueVars
<1>2. NoRoot \notin dirs /\ root[c] \in held /\ PendingOld \subseteq reserved
  BY ChrootAssumption DEF Types, Path, OwnRoots, Live, Make, Cook, Killed, Pending, PendingOld
<1>3. Pending' \subseteq Pending /\ Pending \subseteq Pending' \cup {c}
      /\ \A e \in Pending' : e # c
  BY <1>1 DEF Pending
<1>4. PendingOld' \subseteq PendingOld /\ PendingOld \subseteq PendingOld' \cup {old[c]}
  BY <1>1, <1>3 DEF PendingOld, Pending
<1>5. \E left \in SUBSET dirs :
         /\ dirs' \subseteq left \cup {root[c]}
         /\ spared' = IF old[c] \in left THEN spared \cup {c} ELSE spared
  <2>1. CASE Make(c)
    <3>1. PICK left \in Remains(c) : dirs' = left \cup {root[c]} /\ DropOld(c, left)
      BY <2>1 DEF Make
    <3>2. left \subseteq dirs
      BY <3>1 DEF Remains
    <3> QED BY <3>1, <3>2 DEF DropOld
  <2>2. CASE Cook(c)
    <3>1. old[c] = NoRoot
      BY <2>2 DEF Cook, StatesAgree
    <3> QED BY <1>2, <2>2, <3>1 DEF Cook
  <2>3. CASE Killed(c)
    BY <2>3 DEF Killed, DropOld, queueVars
  <2> QED BY <2>1, <2>2, <2>3
<1>6. PICK left \in SUBSET dirs :
         /\ dirs' \subseteq left \cup {root[c]}
         /\ spared' = IF old[c] \in left THEN spared \cup {c} ELSE spared
  BY <1>5
<1>7. CASE old[c] \in left
  <2>1. Abandoned' \subseteq Abandoned \cup {old[c]} /\ Counted' \subseteq Counted \cup {old[c]}
    BY <1>1, <1>2, <1>4, <1>6 DEF Abandoned, Counted, Types
  <2>2. c \notin spared
    BY <1>1, <1>2, <1>7 DEF StatesAgree
  <2> QED BY <1>1, <1>6, <1>7, <2>1, <2>2, OneSpared
<1>8. CASE old[c] \notin left
  <2>1. \A x \in dirs' \cup held : x \notin PendingOld' => x \notin PendingOld
    BY <1>2, <1>4, <1>6, <1>8 DEF Types
  <2>2. Abandoned' \subseteq Abandoned /\ Counted' \subseteq Counted
    BY <1>1, <1>2, <1>6, <2>1 DEF Abandoned, Counted, Types
  <2> QED BY <1>1, <1>6, <1>8, <2>2, NoMoreDirs
<1> QED BY <1>7, <1>8

LEMMA DirsStep ==
    ASSUME Types, StatesAgree, HeldWithinSlots, OwnRoots, DirsCounted, [ChrootNext]_vars
    PROVE  DirsCounted'
<1> SUFFICES ASSUME Slots > 0, robbed = {} PROVE DirsCounted'
  BY RobbedGrows DEF DirsCounted
<1>1. ASSUME PendingOld' = PendingOld, dirs' \subseteq dirs, held' \subseteq held,
             reserved' \subseteq reserved, UNCHANGED <<spared, found>>
      PROVE  DirsCounted'
  <2>1. Abandoned' \subseteq Abandoned /\ Counted' \subseteq Counted
    BY <1>1 DEF Abandoned, Counted
  <2> QED BY <1>1, <2>1, NoMoreDirs
<1>2. ASSUME NEW c \in Cmd, Collect(c) PROVE DirsCounted'
  <2>1. /\ held' \subseteq held /\ reserved' \subseteq reserved
        /\ phase[c] = "ended" /\ phase' = [phase EXCEPT ![c] = "over"]
        /\ UNCHANGED <<dirs, old, spared, found>>
    BY <1>2 DEF Collect, GiveUpRoot, GiveUp
  <2>2. Pending' = Pending
    BY <2>1 DEF Pending, Types
  <2>3. PendingOld' = PendingOld
    BY <2>1, <2>2 DEF PendingOld
  <2> QED BY <1>1, <2>1, <2>3
<1>3. ASSUME NEW p \in Path, Robbery(p) PROVE DirsCounted'
  <2>1. /\ held' \subseteq held /\ reserved' \subseteq reserved /\ dirs' \subseteq dirs
        /\ UNCHANGED <<phase, old, spared, found>>
    BY <1>3 DEF Robbery, Rob, GiveUp, cmdVars
  <2>2. PendingOld' = PendingOld
    BY <2>1 DEF PendingOld, Pending
  <2> QED BY <1>1, <2>1, <2>2
<1>4. CASE Elsewhere
  BY <1>1, <1>4 DEF Elsewhere, queueVars, cmdVars, PendingOld, Pending
<1> QED BY <1>2, <1>3, <1>4, RequestDirs, MakeDirs, QueueSteps

-----------------------------------------------------------------------------
(* What the server knows of chroots in use.                                   *)

LEMMA KnownStep ==
    ASSUME Types, StatesAgree, KnownInUse, [ChrootNext]_vars
    PROVE  KnownInUse'
<1> SUFFICES ASSUME NEW c \in Cmd, phase'[c] \in {"reserved", "made"}, news'[c] = "active",
                    \A e \in Cmd \ {c} : ~ (root'[e] = root'[c] /\ news'[e] = "over")
             PROVE  row'[root'[c]] # "idle"
  BY DEF KnownInUse, HadBy
<1>1. CASE \E e \in Cmd : Request(e)
  <2>1. PICK e \in Cmd : Request(e)
    BY <1>1
  <2>2. RequestSlot(e)
    BY <2>1 DEF Request, Reserve, ForkFails
  <2>3. PICK p \in Path :
           /\ phase[e] = "waiting" /\ root' = [root EXCEPT ![e] = p] /\ UNCHANGED serverVars
    BY <2>2, Granted
  <2>4. e # c
    BY <2>3 DEF StatesAgree, serverVars
  <2>5. phase[c] = phase'[c] /\ root'[c] = root[c] /\ root[c] \in Path
    BY <2>1, <2>3, <2>4 DEF Request, Reserve, ForkFails, StatesAgree, Live, Types
  <2>6. \A f \in Cmd \ {c} : ~ HadBy(f, root[c])
    <3>1. news[e] = "none"
      BY <2>3 DEF StatesAgree
    <3> QED BY <2>3, <2>5, <3>1 DEF Types, HadBy, serverVars
  <2> QED BY <2>3, <2>5, <2>6 DEF KnownInUse, serverVars
<1>2. CASE \E e \in Cmd : Make(e) \/ Cook(e) \/ Killed(e) \/ Collect(e)
  <2>1. UNCHANGED <<root, row, news>> /\ phase[c] \in {"reserved", "made"}
    BY <1>2 DEF Make, Cook, Killed, Collect, Types, serverVars
  <2> QED BY <2>1 DEF KnownInUse, HadBy
<1>3. CASE ~ \E e \in Cmd : Request(e) \/ Make(e) \/ Cook(e) \/ Killed(e) \/ Collect(e)
  <2>1. Other
    BY <1>3 DEF ChrootNext, CmdProgress, Request, Other
  <2>2. UNCHANGED <<phase, root>> /\ root[c] \in Path
    BY <1>3, QueueSteps DEF Elsewhere, Robbery, cmdVars, StatesAgree, Live
  <2>3. ASSUME NEW e \in Cmd, HearChroot(e) PROVE row'[root[c]] # "idle"
    <3>1. row' = [row EXCEPT ![root[e]] = "active"] /\ news' = [news EXCEPT ![e] = "active"]
      BY <2>3 DEF HearChroot, SetRow
    <3>2. CASE e = c
      BY <2>2, <3>1, <3>2 DEF Types
    <3>3. CASE e # c
      <4>1. news[c] = "active" /\ \A f \in Cmd \ {c} : ~ HadBy(f, root[c])
        BY <2>2, <2>3, <3>1, <3>3 DEF Types, HadBy, HearChroot
      <4>2. row[root[c]] # "idle"
        BY <2>2, <4>1 DEF KnownInUse
      <4> QED BY <2>2, <3>1, <4>2 DEF Types
    <3> QED BY <3>2, <3>3
  <2>4. ASSUME NEW e \in Cmd, HearEnd(e) PROVE row'[root[c]] # "idle"
    <3>1. /\ (UNCHANGED row \/ row' = [row EXCEPT ![root[e]] = "idle"])
          /\ news' = [news EXCEPT ![e] = "over"]
      BY <2>4 DEF HearEnd, SetRow
    <3>2. e # c /\ news'[e] = "over"
      BY <3>1 DEF Types
    <3>3. /\ root[e] # root[c] /\ news[c] = "active"
          /\ \A f \in Cmd \ {c} : ~ HadBy(f, root[c])
      BY <2>2, <3>1, <3>2 DEF Types, HadBy
    <3>4. row[root[c]] # "idle"
      BY <2>2, <3>3 DEF KnownInUse
    <3> QED BY <2>2, <3>1, <3>3, <3>4 DEF Types
  <2>5. ASSUME news' = news, \A p \in Path : row'[p] \in {row[p], "none"}
        PROVE  row'[root[c]] # "idle"
    BY <2>2, <2>5 DEF KnownInUse, HadBy
  <2>6. ASSUME NEW d \in Call, ForgetRow(d) PROVE row'[root[c]] # "idle"
    BY <2>5, <2>6 DEF ForgetRow, SetRow, Types
  <2>7. ASSUME PruneRows PROVE row'[root[c]] # "idle"
    BY <2>5, <2>7 DEF PruneRows
  <2>8. ASSUME UNCHANGED <<row, news>> PROVE row'[root[c]] # "idle"
    BY <2>5, <2>8
  <2> QED
    BY <2>1, <2>2, <2>3, <2>4, <2>6, <2>7, <2>8
    DEF Other, CloseSession, OpenSession, NodeRemoves, CheckIdle, ListChroots, vars, serverVars
<1> QED BY <1>1, <1>2, <1>3

-----------------------------------------------------------------------------
(* The invariant, and the theorems.                                           *)

LEMMA InvariantInit == ChrootInit => Invariant
<1> SUFFICES ASSUME ChrootInit PROVE Invariant
  OBVIOUS
<1>1. Types /\ StatesAgree
  BY TypesInit
<1>2. HeldWithinSlots
  BY ChrootAssumption, FS_EmptySet DEF ChrootInit, HeldWithinSlots
<1>3. OwnRoots /\ Pending = {}
  BY DEF ChrootInit, OwnRoots, Live, Pending
<1>4. Counted = dirs /\ Abandoned = {}
  BY <1>3 DEF ChrootInit, Counted, Abandoned, PendingOld
<1>5. /\ Cardinality(Abandoned) = 0 /\ Cardinality(spared) = 0
      /\ Cardinality(Counted) = found
  BY <1>4, FS_EmptySet DEF ChrootInit
<1>6. DirsCounted
  BY <1>1, <1>5, FiniteParts DEF DirsCounted, Bound
<1>7. KnownInUse
  BY DEF ChrootInit, KnownInUse
<1> QED BY <1>1, <1>2, <1>3, <1>6, <1>7 DEF Invariant

LEMMA InvariantStep == Invariant /\ [ChrootNext]_vars => Invariant'
  BY TypesStep, HeldStep, RootsStep, DirsStep, KnownStep DEF Invariant

LEMMA AlwaysInvariant == ChrootSpec => []Invariant
  BY InvariantInit, InvariantStep, PTL DEF ChrootSpec

\* The type invariant: the queue's books are apart, and a command that runs has a
\* root (ChrootQueue.requestSlot, chrootFinished).
THEOREM TypeCorrect == ChrootSpec => []ChrootTypeOK
<1>1. Invariant => ChrootTypeOK
  BY DEF Invariant, Types, StatesAgree, ChrootTypeOK, RowState
<1> QED BY <1>1, AlwaysInvariant, PTL

\* Until a command is robbed of its root, commands that run at the same time have
\* roots of their own, and no old root is given to two (ChrootQueue.requestSlot).
THEOREM RootsAreExclusive == ChrootSpec => []RootsExclusive
<1>1. Invariant => RootsExclusive
  <2> SUFFICES ASSUME Invariant, robbed = {}, NEW c \in Cmd, NEW d \in Cmd,
                      Live(c), Live(d), c # d
               PROVE  /\ root[c] # root[d]
                      /\ phase[c] = "reserved" => old[c] # root[d]
                      /\ phase[c] = "reserved" /\ phase[d] = "reserved" /\ old[c] # NoRoot
                         => old[c] # old[d]
    BY DEF RootsExclusive
  <2>1. root[c] # root[d] /\ root[d] \in held /\ NoRoot \notin held
    BY ChrootAssumption DEF Invariant, OwnRoots, Types, Path
  <2>2. phase[c] = "reserved" /\ old[c] # NoRoot => old[c] \in reserved
    BY DEF Invariant, OwnRoots, Pending
  <2>3. phase[c] = "reserved" => old[c] # root[d]
    BY <2>1, <2>2 DEF Invariant, Types
  <2>4. phase[c] = "reserved" /\ phase[d] = "reserved" /\ old[c] # NoRoot => old[c] # old[d]
    BY DEF Invariant, OwnRoots, Pending
  <2> QED BY <2>1, <2>3, <2>4
<1> QED BY <1>1, AlwaysInvariant, PTL

\* Commands that run, and roots nobody will give up, are distinct roots held.
LEMMA RunningHeld ==
    ASSUME Invariant, robbed = {}
    PROVE  Cardinality({c \in Cmd : Live(c)}) + Cardinality(leaked) <= Cardinality(held)
<1> DEFINE Running == {c \in Cmd : Live(c)}
           Roots == {root[c] : c \in Running}
<1>1. Roots \subseteq held \ leaked /\ leaked \subseteq held /\ IsFiniteSet(held)
  BY DEF Invariant, OwnRoots, Types
<1>2. IsFiniteSet(Running)
  BY ChrootAssumption, Smaller
<1>3. [c \in Running |-> root[c]] \in Bijection(Running, Roots)
  BY DEF Invariant, OwnRoots, Bijection, Injection, Surjection, IsInjective
<1>4. Cardinality(Roots) = Cardinality(Running)
  BY <1>2, <1>3, FS_Bijection, FS_CardinalityType DEF ExistsBijection
<1>5. IsFiniteSet(Roots) /\ IsFiniteSet(leaked)
  BY <1>1, Smaller
<1>6. /\ IsFiniteSet(Roots \cup leaked)
      /\ Cardinality(Roots \cup leaked) = Cardinality(Roots) + Cardinality(leaked)
  BY <1>1, <1>5, Apart
<1>7. Cardinality(Roots \cup leaked) <= Cardinality(held)
  BY <1>1, Smaller
<1> QED BY <1>4, <1>6, <1>7

\* Of the directories those not counted are old roots to be dealt with, and each of
\* their commands has a root that is counted and is no directory yet.
LEMMA DirsBound ==
    ASSUME Invariant, robbed = {}
    PROVE  Cardinality(dirs) <= Cardinality(Counted)
<1> DEFINE Awaited == {root[c] : c \in Pending}
<1>1. /\ \A c, d \in Pending : root[c] = root[d] => c = d
      /\ \A c, d \in Pending : old[c] = old[d] => c = d
      /\ Awaited \subseteq held \ dirs /\ PendingOld \subseteq reserved \cap dirs
  BY DEF Invariant, OwnRoots, Pending, PendingOld, Live
<1>2. IsFiniteSet(Pending) /\ IsFiniteSet(dirs) /\ IsFiniteSet(held)
  BY ChrootAssumption, Smaller DEF Pending, Invariant, Types
<1>3. Cardinality(Awaited) = Cardinality(Pending)
  <2>1. [c \in Pending |-> root[c]] \in Bijection(Pending, Awaited)
    BY <1>1 DEF Bijection, Injection, Surjection, IsInjective
  <2> QED BY <1>2, <2>1, FS_Bijection, FS_CardinalityType DEF ExistsBijection
<1>4. Cardinality(PendingOld) = Cardinality(Pending)
  <2>1. [c \in Pending |-> old[c]] \in Bijection(Pending, PendingOld)
    BY <1>1 DEF Bijection, Injection, Surjection, IsInjective, PendingOld
  <2> QED BY <1>2, <2>1, FS_Bijection, FS_CardinalityType DEF ExistsBijection
<1>5. IsFiniteSet(Awaited) /\ IsFiniteSet(PendingOld) /\ IsFiniteSet(dirs \ PendingOld)
  BY <1>1, <1>2, Smaller
<1> HIDE DEF Awaited
<1>6. Cardinality(dirs) = Cardinality(dirs \ PendingOld) + Cardinality(PendingOld)
  <2>1. dirs = (dirs \ PendingOld) \cup PendingOld /\ (dirs \ PendingOld) \cap PendingOld = {}
    BY <1>1
  <2> QED BY <1>5, <2>1, Apart
<1>7. /\ IsFiniteSet((dirs \ PendingOld) \cup Awaited)
      /\ Cardinality((dirs \ PendingOld) \cup Awaited)
         = Cardinality(dirs \ PendingOld) + Cardinality(Awaited)
  BY <1>1, <1>5, Apart
<1>8. (dirs \ PendingOld) \cup Awaited \subseteq Counted
  BY <1>1 DEF Counted, Invariant, Types
<1>9. Cardinality((dirs \ PendingOld) \cup Awaited) <= Cardinality(Counted)
  BY <1>8, FiniteParts, Smaller DEF Invariant
<1> QED BY <1>3, <1>4, <1>6, <1>7, <1>9

\* The limit holds for commands that run and, with one more for each command that
\* left its old root behind, for directories (ChrootQueue.requestSlot, create).
THEOREM LimitIsKept == ChrootSpec => []LimitKept
<1>1. Invariant => LimitKept
  <2> SUFFICES ASSUME Invariant, Slots > 0, robbed = {}
               PROVE  /\ Cardinality({c \in Cmd : Live(c)}) + Cardinality(leaked) <= Slots
                      /\ Cardinality(dirs) <= Bound + Cardinality(spared)
    BY DEF LimitKept, Bound
  <2>1. /\ Cardinality(held) <= Slots
        /\ Cardinality(Counted) <= Bound + Cardinality(spared)
    BY DEF Invariant, HeldWithinSlots, DirsCounted
  <2>2. /\ Cardinality({c \in Cmd : Live(c)}) \in Nat /\ Cardinality(leaked) \in Nat
        /\ Cardinality(dirs) \in Nat
    <3>1. IsFiniteSet({c \in Cmd : Live(c)}) /\ IsFiniteSet(leaked) /\ IsFiniteSet(dirs)
      BY ChrootAssumption, Smaller DEF Invariant, Types
    <3> QED BY <3>1, FS_CardinalityType
  <2> QED BY <2>1, <2>2, RunningHeld, DirsBound, FiniteParts DEF Invariant
<1> QED BY <1>1, AlwaysInvariant, PTL

\* deleteChroot and archiveChroot do not pass their check on the chroot of a command
\* that runs and whose trove the server counts as being built, unless the server has
\* heard of the end of another command that had the path.
THEOREM InUseIsKept == ChrootSpec => InUseStays
<1> DEFINE Passes ==
       \A d \in Call, c \in Cmd :
          rpc[d].step = "none" /\ rpc'[d].step = "checked"
              /\ rpc'[d].path = root[c] /\ phase[c] \in {"reserved", "made"}
              /\ news[c] = "active"
          => \E e \in Cmd \ {c} : root[e] = root[c] /\ news[e] = "over"
<1>1. Invariant /\ [ChrootNext]_vars => [Passes]_vars
  <2> SUFFICES ASSUME Invariant, [ChrootNext]_vars, NEW d \in Call, NEW c \in Cmd,
                      rpc[d].step = "none", rpc'[d].step = "checked",
                      rpc'[d].path = root[c], phase[c] \in {"reserved", "made"},
                      news[c] = "active"
               PROVE  \E e \in Cmd \ {c} : root[e] = root[c] /\ news[e] = "over"
    OBVIOUS
  <2>1. row[root[c]] = "idle"
    <3>1. ~ \E e \in Cmd : Request(e) \/ Make(e) \/ Cook(e) \/ Killed(e) \/ Collect(e)
      BY DEF Request, Reserve, ForkFails, RequestSlot, Make, Cook, Killed, Collect, serverVars
    <3>2. \E e \in Call, p \in Path : CheckIdle(e, p)
      BY <3>1 DEF ChrootNext, CmdProgress, Request, HearChroot, HearEnd, CloseSession, OpenSession,
                  NodeRemoves, ForgetRow, ListChroots, PruneRows, Past, vars, serverVars,
                  Invariant, Types
    <3>3. PICK e \in Call, p \in Path : CheckIdle(e, p)
      BY <3>2
    <3>4. e = d /\ p = root[c]
      BY <3>3 DEF CheckIdle, Invariant, Types
    <3> QED BY <3>3, <3>4 DEF CheckIdle, Deletable
  <2> QED BY <2>1 DEF Invariant, KnownInUse, HadBy
<1> QED BY <1>1, AlwaysInvariant, PTL DEF InUseStays, ChrootSpec
=============================================================================
