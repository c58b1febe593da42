------------------------------ MODULE DepHandler ------------------------------
(***************************************************************************)
(* The scheduling core of a builder: the dependency handler               *)
(* (DependencyHandler and DependencyBasedBuildState of                     *)
(* rmake/build/dephandler.py) and the builder's main loop                  *)
(* (rmake/build/builder.py), which decide in which order the troves of a   *)
(* job are resolved and built.                                             *)
(*                                                                         *)
(* A trove is resolved only as a leaf of the dependency graph, or as one   *)
(* of a cycle that nothing leaves.  A resolution may fail, may find that   *)
(* the trove should wait for another one, or may make the trove buildable. *)
(* The outcomes of the resolve and build commands are the environment's:   *)
(* each command sends one, at any time after it was sent.                  *)
(*                                                                         *)
(* A trove may have been built before, by an earlier job or in the          *)
(* repository.  Its old binaries are then reused if nothing that matters   *)
(* has changed: which the handler finds by resolving the trove again and   *)
(* comparing, or at once, as long as nothing in the job had to be built.   *)
(*                                                                         *)
(* The jobs here have no cross compilation and no cached resolutions.      *)
(* Where the program orders what it could try (by priority, by name, by    *)
(* age, by the cost of breaking a cycle) any choice is taken.              *)
(***************************************************************************)
EXTENDS Naturals, Sequences, FiniteSets

CONSTANTS
    Trove,         \* the troves of the job
    Special,       \* those that are not built from source (images)
    PrepOnly,      \* those of which only the chroot is prepared
    Package,       \* package names, of the job and of outside
    Provides,      \* Provides[p]: the troves that build p, in order: trovesByPackage
    PackageOf,     \* PackageOf[t]: the package named like t
    Rejected,      \* pairs whose flavors do not match: rejectedDeps
    Binary,        \* binary packages
    Output,        \* Output[t]: the binaries a build of t makes
    Jobs,          \* the jobs: requirements, earlier builds, primary troves and policy
    MissingDeps,   \* what a resolution may find missing: sets of packages
    Outcomes,      \* the outcomes, other than success, that commands may have
    MaxResolving   \* resolutions under way at most (10)

Outcome == {"missingBuildReqs", "missingDeps", "resolveFailed", "buildFailed", "duplicate"}

\* An earlier build of a trove: whether it was resolved against the same troves as
\* this job will be, whether its source is still that of the trove, and the packages
\* that were installed to build it.  (Nothing reads whether the superclasses are still
\* the same.)  A build of an earlier job has the trove's very source; that of binaries
\* given in the configuration may be another, and they are never reused at once.
FromContext == [fast : BOOLEAN, source : {TRUE}, installed : SUBSET Package]
FromBinaries == [fast : {FALSE}, source : BOOLEAN, installed : SUBSET Package]
OldBuild == FromContext \cup FromBinaries

\* What the options of rebuild and restart let pass as unchanged: nothing, changes
\* of packages from outside the job, or all changes but those of the source.
Policy == {"none", "external", "all"}

IsJob(j) ==
    /\ j.reqs \in [Trove -> SUBSET Package]
    /\ DOMAIN j.old \subseteq Trove \ Special
    /\ \A t \in DOMAIN j.old : j.old[t] \in OldBuild
    /\ \A t \in DOMAIN j.old : j.old[t].source => j.reqs[t] \subseteq j.old[t].installed
    /\ \A t, u \in DOMAIN j.old : t # u => Output[t] \cap Output[u] = {}
    /\ j.primary \subseteq Trove
    /\ j.policy \in Policy

ASSUME DepHandlerAssumption ==
    /\ IsFiniteSet(Trove)
    /\ Special \subseteq Trove
    /\ PrepOnly \subseteq Trove \ Special
    /\ Provides \in [Package -> Seq(Trove \ (Special \cup PrepOnly))]
    /\ PackageOf \in [Trove -> Package]
    /\ Rejected \subseteq Trove \X Trove
    /\ Output \in [Trove -> SUBSET Binary]
    /\ \A j \in Jobs : IsJob(j)
    /\ MissingDeps \subseteq SUBSET Package
    /\ Outcomes \subseteq Outcome
    /\ MaxResolving \in Nat \ {0}

VARIABLES
    job,             \* the job; never changes
    state,           \* the state of each trove
    depGraph,        \* which trove waits for which, and why
    hardDep,         \* the edges of hardDepGraph
    buildable,       \* the keys of buildReqTroves: troves ready to be built
    resolving,       \* _resolving: the cycle each trove under resolution was in
    delayed,         \* the keys of _delayed: troves with dependencies missing
    cycleChecked,    \* the keys of _cycleChecked: troves that failed to break their cycle
    duplicates,      \* _possibleDuplicates: <<match, duplicate, its binaries>>
    builtBinaries,   \* the keys of builtTroves
    disallowed,      \* built troves whose binaries were built before
    inactiveSpecial, \* special troves not yet acted on
    fastResolution,  \* _allowFastResolution: nothing has had to be built so far
    hadEvent,        \* the event handler's flag: an event came in this turn
    crashed          \* an exception has ended the builder

\* What the events of builds and resolutions leave.
tables == <<hardDep, cycleChecked, duplicates, builtBinaries, disallowed>>

vars == <<job, state, depGraph, buildable, resolving, delayed, tables, inactiveSpecial,
          fastResolution, hadEvent, crashed>>

buildReqs == job.reqs                              \* the packages each trove requires

-----------------------------------------------------------------------------
(* Trove states.  "resolving" and "waiting" are both WAITING and what      *)
(* follows it: sent to be resolved, sent to be built.  "built", "reused"   *)
(* and "leftOut" are all BUILT: by this job, with the old binaries, and    *)
(* with none.                                                              *)

Failure == {"failed", "unbuildable"}
Made == {"built", "reused"}
Final == Failure \cup Made \cup {"leftOut", "duplicate", "prepared"}
Unresolved == {"init", "prebuilt"}
State == Unresolved \cup {"resolving", "buildable", "waiting", "building"} \cup Final

Finished(t) == state[t] \in Final
MoreToDo == \E t \in Trove : ~Finished(t)

Providers(p) == {Provides[p][i] : i \in DOMAIN Provides[p]}
OtherProviders(t, p) == Providers(p) \ {t}
Accepted(t, p) == {q \in OtherProviders(t, p) : <<t, q>> \notin Rejected}

-----------------------------------------------------------------------------
(* Directed graphs with labelled edges <<from, to, label>>.  A label is a  *)
(* build requirement or a missing dependency, with the packages it names.  *)

Requirement(p) == <<"requirement", {p}>>
Dependency(D) == <<"dependency", D>>
Label == {"requirement", "dependency"} \X SUBSET Package

Links(t, T, l) == {<<t, q, l>> : q \in T}
EndsOf(E) == {e[1] : e \in E} \cup {e[2] : e \in E}

AddEdges(g, E) == [node |-> g.node \cup EndsOf(E), edge |-> g.edge \cup E]
DeleteLeavingEdges(g, T) == [g EXCEPT !.node = @ \ T]               \* a mutant of Delete
Delete(g, T) ==
    [node |-> g.node \ T, edge |-> {e \in g.edge : e[1] \notin T /\ e[2] \notin T}]
DeleteEdges(g, t) == [g EXCEPT !.edge = {e \in @ : e[1] # t}]

Closed(g, S) == \A e \in g.edge : e[1] \in S => e[2] \in S
Reaches(g, s, t) ==
    s = t \/ \A S \in SUBSET (g.node \ {s, t}) : ~Closed(g, S \cup {s})
Related(g, s, t) == Reaches(g, s, t) \/ Reaches(g, t, s)

\* The strongly connected components, and those that no edge leaves.
Components(g) == {{u \in g.node : Reaches(g, t, u) /\ Reaches(g, u, t)} : t \in g.node}
AnyCycles(g) == Components(g)                                       \* a mutant of LeafCycles
LeafCycles(g) == {C \in Components(g) : Closed(g, C)}

-----------------------------------------------------------------------------
(* Failing troves.                                                         *)

\* _troveFailed walks from the failed troves to the troves that require them
\* and that no other trove of the graph satisfies.
FailureClosed(g, S) ==
    \A e \in g.edge :
        (\A f \in g.edge : f[1] = e[1] /\ f[3] = e[3] => f[2] \in S) => e[1] \in S

FailedOnly(g, T) == T                                               \* a mutant of Dragged
Dragged(g, T) ==
    {t \in g.node : \A S \in SUBSET (g.node \cup T) : T \subseteq S /\ FailureClosed(g, S) => t \in S}
      \cup T

\* troveFailed for each trove of T, in the state s, with the graph g and the
\* delayed troves d.  The troves that T drags along stay in _delayed.
StateAfter(s, g, T) ==
    [t \in Trove |-> IF t \in T THEN "failed"
                     ELSE IF t \in Dragged(g, T) THEN "unbuildable" ELSE s[t]]

Fail(T, s, g, d) ==
    /\ state' = StateAfter(s, g, T)
    /\ depGraph' = Delete(g, Dragged(g, T))
    /\ buildable' = buildable \ Dragged(g, T)
    /\ delayed' = d \ T

-----------------------------------------------------------------------------
(* Built troves, and duplicates.                                           *)

BinariesIn(s, t) == IF s[t] \in Made THEN Output[t] ELSE {}

\* troveDuplicate: the first trove of the same package that decides what the
\* duplicate t with the binaries B is: its match, a conflict, or to be seen.
Decides(s, t, B, q) ==
    /\ q # t
    /\ \/ BinariesIn(s, q) \cap B # {}
       \/ BinariesIn(s, q) = {} /\ s[q] = "building"

Deciders(s, t, B) ==
    LET list == Provides[PackageOf[t]]
    IN  {list[i] : i \in {j \in DOMAIN list :
                            /\ Decides(s, t, B, list[j])
                            /\ \A k \in 1 .. j - 1 : ~Decides(s, t, B, list[k])}}

Verdict(s, t, B) ==
    IF \E q \in Deciders(s, t, B) : BinariesIn(s, q) = B THEN "matched"
    ELSE IF \E q \in Deciders(s, t, B) : BinariesIn(s, q) = {} THEN "pending"
    ELSE "conflict"

NoneBuiltAgain(s) == {}                                   \* a mutant of BuiltAgain

\* The troves just built whose binaries another build of this job has made.
BuiltAgain(s) ==
    {t \in Trove : /\ s[t] \in Made /\ state[t] \notin Made
                   /\ Output[t] \cap builtBinaries # {}}

\* What the duplicates D, as <<_, t, B>>, become in the state s and the graph g,
\* with the delayed troves d.
Duplicated(D, s, g, d) ==
    LET of(v) == {x \in D : Verdict(s, x[2], x[3]) = v}
        matched == {x[2] : x \in of("matched")}
    IN  /\ Fail({x[2] : x \in of("conflict")}, s, Delete(g, matched), d)
        /\ duplicates' = (duplicates \ D) \cup
             UNION {{<<q, x[2], x[3]>> : q \in Deciders(s, x[2], x[3])} : x \in of("pending")}
        /\ disallowed' = disallowed \cup matched \cup BuiltAgain(s)

\* The troves T are built in the state s.  The delayed troves may be tried again,
\* and the duplicates that wait for T are compared with it.
Built(T, s) ==
    /\ hardDep' = {d \in hardDep : {d[1], d[2]} \cap T = {}}
    /\ builtBinaries' = builtBinaries \cup
         UNION {BinariesIn(s, t) : t \in {u \in T : BinariesIn(s, u) \cap builtBinaries = {}}}
    /\ Duplicated({d \in duplicates : d[1] \in T}, s, Delete(depGraph, T), {})

-----------------------------------------------------------------------------
(* Waiting for troves that are yet to be built.                            *)

\* The troves t could wait for so as to use their builds of package p.
Awaitable(t, p) ==
    {q \in Accepted(t, p) : ~Finished(q) /\ ~Related(depGraph, t, q)}

\* _addResolutionDeps: what t waits for, when its installation would use the
\* packages P, not yet built.  Each package adds a link unless t and a builder
\* of the package are related already, perhaps by the links added before; the
\* packages come in any order.
NewDeps(t, P) ==
    {W \in SUBSET UNION {Awaitable(t, p) : p \in P} :
        /\ Cardinality(W) <= Cardinality(P)
        /\ \A p \in P : Awaitable(t, p) # {} =>
             \E q \in Awaitable(t, p), w \in W : Reaches(depGraph, w, q)}

NewDepLinks(t, P, W) ==
    UNION {Links(t, W \cap Awaitable(t, p), Dependency({p})) : p \in P}

-----------------------------------------------------------------------------
Init ==
    /\ job \in Jobs
    /\ state = [t \in Trove |-> IF t \in DOMAIN job.old THEN "prebuilt" ELSE "init"]
    /\ depGraph =
         AddEdges([node |-> Trove \ Special, edge |-> {}],
                  UNION {Links(r[1], Accepted(r[1], r[2]), Requirement(r[2])) :
                           r \in {x \in (Trove \ (Special \cup PrepOnly)) \X Package :
                                    x[2] \in buildReqs[x[1]]}})
    /\ hardDep = {}
    /\ buildable = {}
    /\ resolving = [t \in {} |-> {}]
    /\ delayed = {}
    /\ cycleChecked = {}
    /\ duplicates = {}
    /\ builtBinaries = {}
    /\ disallowed = {}
    /\ inactiveSpecial = Special
    /\ fastResolution = TRUE
    /\ hadEvent = FALSE
    /\ crashed = FALSE

-----------------------------------------------------------------------------
(* The turns of the builder's loop.                                        *)

HasHardDependency(t) == \E d \in hardDep : d[1] = t

ResolvableAgain(C) == {t \in C : t \notin DOMAIN resolving \cup cycleChecked \cup delayed
                                 /\ ~HasHardDependency(t)}          \* a mutant of Resolvable

\* _filterTroves: the troves of C that may be resolved now.
Resolvable(C) ==
    {t \in C : /\ state[t] \in Unresolved
               /\ t \notin DOMAIN resolving \cup cycleChecked \cup delayed
               /\ ~HasHardDependency(t)}

ChooseAtOnce(t, C) == t \in Resolvable(C)                  \* mutants of MayChoose
ChooseUnbroken(t, C) == t \in Resolvable(C) /\ C = {t}

\* Whether getNextResolveJob may choose the trove t of the cycle C, which is broken
\* at a trove that was built before, if there is one.
MayChoose(t, C) ==
    /\ t \in Resolvable(C)
    /\ C # {t} => /\ C \cap DOMAIN resolving = {}
                  /\ \A u \in Resolvable(C) : state[u] = "prebuilt" => state[t] = "prebuilt"

\* What it may choose, as <<trove, the cycle it is taken from>>.
ResolveJobs == {r \in Trove \X LeafCycles(depGraph) : MayChoose(r[1], r[2])}

ResolveLimit == Cardinality(DOMAIN resolving) >= MaxResolving

\* The troves that this job has built anew: _buildHasOccurred.
Fresh == {t \in Trove \ disallowed : state[t] = "built" /\ Output[t] # {}}

\* The old binaries of t are reused without a look at what they were built with.
Spared(t) ==
    /\ state[t] = "prebuilt"
    /\ \/ job.primary # {} /\ t \notin job.primary /\ Fresh # {}
       \/ job.old[t].source /\ job.policy = "all"
       \/ job.old[t].source /\ job.policy = "external" /\ Fresh = {}

\* They may be reused at once, if they were built with nothing that is yet to be built.
Quick(t) == state[t] = "prebuilt" /\ job.old[t].source /\ job.old[t].fast /\ fastResolution

\* The jobs R are answered with the old binaries; s is the state but for that.
Reuse(R, s) ==
    IF R = {}
    THEN state' = s /\ UNCHANGED <<depGraph, buildable, delayed, tables>>
    ELSE /\ Built({r[1] : r \in R},
                  [u \in Trove |-> IF \E r \in R : r[1] = u THEN "reused" ELSE s[u]])
         /\ cycleChecked' = cycleChecked \ UNION {r[2] : r \in R}

\* Besides, t is sent to be resolved as one of C.
StartResolve(t, C, R) ==
    /\ resolving' = [u \in DOMAIN resolving \cup {t} |->
                       IF u # t THEN resolving[u] ELSE IF C = {t} THEN {} ELSE C]
    /\ Reuse(R, [state EXCEPT ![t] = "resolving"])

\* A pass over the cycles that nothing leaves: it reuses what it may, until it finds
\* a trove to be sent off.  With nothing to build nor to wait for either, the
\* delayed troves fail.
ResolveNext ==
    LET spared == {r \in ResolveJobs : Spared(r[1])}
        from(R) == {r[2] : r \in R}
    IN  \E R \in SUBSET spared :
          /\ \A r, q \in R : r[2] = q[2] => r = q
          /\ \/ \E r \in ResolveJobs \ spared : r[2] \notin from(R) /\ StartResolve(r[1], r[2], R)
             \/ /\ from(R) = from(ResolveJobs)
                /\ IF R = {} /\ buildable = {} /\ DOMAIN resolving = {}
                   THEN Fail(delayed, state, depGraph, delayed) /\ UNCHANGED tables
                   ELSE Reuse(R, state)
                /\ UNCHANGED resolving

\* _attemptFastResolve: as long as nothing had to be built, the cycles with troves
\* built before come first, and a cycle only if all its troves were.
FastLeaves == {C \in LeafCycles(depGraph) : C \cap DOMAIN job.old # {}}
Fast == fastResolution /\ FastLeaves # {}
BuiltBefore(C) == Cardinality(C) > 1 => \A t \in C : state[t] = "prebuilt"

ResolveFast(t, C) ==
    \/ /\ Spared(t)
       /\ Reuse({<<t, C>>}, state) /\ UNCHANGED resolving
    \/ /\ ~Spared(t) /\ Quick(t)
       /\ \E W \in NewDeps(t, job.old[t].installed) :
            IF W = {} THEN Reuse({<<t, C>>}, state)
            ELSE /\ depGraph' = AddEdges(depGraph, NewDepLinks(t, job.old[t].installed, W))
                 /\ UNCHANGED <<state, buildable, delayed, tables>>
       /\ UNCHANGED resolving
    \/ /\ ~Spared(t) /\ ~Quick(t)
       /\ StartResolve(t, C, {})

\* Nothing is tried: too much is under way, nothing is left, or a fast resolution
\* waits for the one that is.
NothingTried == ResolveLimit \/ depGraph.node = {} \/ (Fast /\ DOMAIN resolving # {})

\* resolveIfReady: one resolution is sent off, if there is one to be tried.
ResolveIfReady ==
    \/ /\ NothingTried
       /\ UNCHANGED <<state, depGraph, buildable, delayed, tables, resolving, fastResolution>>
    \/ /\ ~NothingTried /\ Fast
       /\ \E C \in FastLeaves : BuiltBefore(C) /\ \E t \in C : ResolveFast(t, C)
       /\ UNCHANGED fastResolution
    \/ /\ ~NothingTried
       /\ Fast => \E C \in FastLeaves : ~BuiltBefore(C)
       /\ ResolveNext
       /\ fastResolution' = FALSE

\* Events came in: one resolution is tried, whatever waits to be built.
TurnAfterEvent ==
    /\ hadEvent
    /\ hadEvent' = FALSE
    /\ ResolveIfReady
    /\ UNCHANGED inactiveSpecial

TurnBuildKept(t) ==                                       \* a mutant of TurnBuild
    /\ ~hadEvent
    /\ t \in buildable
    /\ state' = [state EXCEPT ![t] = "waiting"]
    /\ UNCHANGED <<tables, depGraph, buildable, resolving, delayed, inactiveSpecial, fastResolution,
                   hadEvent>>

\* A buildable trove is sent to be built.
TurnBuild(t) ==
    /\ ~hadEvent
    /\ t \in buildable
    /\ buildable' = buildable \ {t}
    /\ state' = [state EXCEPT ![t] = "waiting"]
    /\ UNCHANGED <<tables, depGraph, resolving, delayed, inactiveSpecial, fastResolution, hadEvent>>

\* A special trove is acted on.  Its state changes only when the command starts.
TurnSpecial(t) ==
    /\ ~hadEvent
    /\ buildable = {}
    /\ t \in inactiveSpecial
    /\ inactiveSpecial' = inactiveSpecial \ {t}
    /\ UNCHANGED <<tables, state, depGraph, buildable, resolving, delayed, fastResolution, hadEvent>>

\* Nothing else to do: resolve, or sleep.
TurnResolve ==
    /\ ~hadEvent
    /\ buildable = {} /\ inactiveSpecial = {}
    /\ ResolveIfReady
    /\ UNCHANGED <<inactiveSpecial, hadEvent>>

\* One turn of the loop of build().
Turn ==
    /\ MoreToDo
    /\ ~crashed /\ UNCHANGED <<job, crashed>>
    /\ \/ TurnAfterEvent
       \/ \E t \in Trove : TurnBuild(t) \/ TurnSpecial(t)
       \/ TurnResolve

-----------------------------------------------------------------------------
(* The outcomes of a resolution, for a trove t that was sent off.          *)

InCycle(t) == resolving[t] # {}
NoLonger(t) == [u \in DOMAIN resolving \ {t} |-> resolving[u]]

\* What this job has made, and which of it an installation of the packages P for t
\* would use: a build of this job comes before one from outside.
MadeHere == {q \in Trove \ disallowed : state[q] \in Made /\ Output[q] # {}}
Used(t, P) ==
    {U \in SUBSET (MadeHere \cap UNION {Accepted(t, p) : p \in P}) :
        \A p \in P : Accepted(t, p) \cap MadeHere # {} => Accepted(t, p) \cap U # {}}

\* Changes of packages from outside of the job are no reason to build t again.
OnlyJobCounts(t) ==
    IF t \in job.primary THEN job.policy = "external" /\ job.old[t].source
    ELSE job.primary # {} \/ job.policy = "external"

OldIfOld(t, U) == t \in DOMAIN job.old /\ OnlyJobCounts(t)   \* a mutant of OldWillDo

\* With the builds U of this job: the old binaries of t will do whatever else is
\* installed, or t was never built and need not be.
OldWillDo(t, U) == t \in DOMAIN job.old /\ OnlyJobCounts(t) /\ U \cap Fresh = {}
LeaveOut(t, U) ==
    /\ t \notin DOMAIN job.old \cup job.primary /\ job.primary # {}
    /\ ~InCycle(t) /\ U = {}

\* The packages P, with the builds U, may be the very ones t was built with before.
MaySame(t, P, U) ==
    /\ t \in DOMAIN job.old /\ job.old[t].source
    /\ P = job.old[t].installed /\ U \cap Fresh = {}

\* The trove t could be resolved, with the packages P: it must wait for W.
ResolvedButDelayed(t, P, W) ==
    /\ W # {}
    /\ state' = [state EXCEPT ![t] = "init"]
    /\ depGraph' = AddEdges(depGraph, NewDepLinks(t, P, W))
    /\ fastResolution' = FALSE
    /\ UNCHANGED <<buildable, delayed, tables>>

\* It need not be built, and is built in name only.
ResolvedUnbuilt(t, P, U) ==
    /\ \/ /\ OldWillDo(t, U)
          /\ Built({t}, [state EXCEPT ![t] = "reused"]) /\ fastResolution' = FALSE
       \/ /\ ~OldWillDo(t, U) /\ MaySame(t, P, U)
          /\ Built({t}, [state EXCEPT ![t] = "reused"]) /\ UNCHANGED fastResolution
       \/ /\ LeaveOut(t, U)
          /\ Built({t}, [state EXCEPT ![t] = "leftOut"]) /\ fastResolution' = FALSE
    /\ cycleChecked' = cycleChecked \ resolving[t]

\* It is buildable.  If it is part of a cycle its edges are deleted, which breaks it.
ResolvedBuildable(t, U) ==
    /\ ~OldWillDo(t, U) /\ ~LeaveOut(t, U)
    /\ state' = [state EXCEPT ![t] = "buildable"]
    /\ buildable' = buildable \cup {t}
    /\ depGraph' = IF InCycle(t) THEN DeleteEdges(depGraph, t) ELSE depGraph
    /\ cycleChecked' = cycleChecked \ resolving[t]
    /\ fastResolution' = FALSE
    /\ UNCHANGED <<hardDep, delayed, duplicates, builtBinaries, disallowed>>

Resolved(t) ==
    /\ state[t] = "resolving"
    /\ \E P \in SUBSET Package : \E W \in NewDeps(t, P), U \in Used(t, P) :
         /\ buildReqs[t] \subseteq P
         /\ \/ ResolvedButDelayed(t, P, W)
            \/ W = {} /\ (ResolvedUnbuilt(t, P, U) \/ ResolvedBuildable(t, U))
    /\ resolving' = NoLonger(t)
    /\ hadEvent' = TRUE
    /\ UNCHANGED inactiveSpecial

NoneChecked(t) == cycleChecked                            \* a mutant of CheckedAfter

\* A trove of a cycle that could not be resolved is checked; others may be left.
CheckedAfter(t) == IF InCycle(t) THEN cycleChecked \cup {t} ELSE cycleChecked
OthersInCycle(t) == resolving[t] \ CheckedAfter(t)

HasDependencyEdge(t) == \E e \in depGraph.edge : e[1] = t /\ e[3][1] = "dependency"

\* Build requirements R are missing.  In a cycle t must then be built after the
\* troves of the cycle that provide them; else, or as the last of its cycle, t fails.
MissingBuildReqs(t, R) ==
    /\ "missingBuildReqs" \in Outcomes
    /\ state[t] = "resolving"
    /\ R # {} /\ R \subseteq buildReqs[t]
    /\ resolving' = NoLonger(t)
    /\ cycleChecked' = CheckedAfter(t)
    /\ IF InCycle(t) /\ OthersInCycle(t) # {}
       THEN /\ ~HasDependencyEdge(t)
            /\ hardDep' = hardDep \cup
                 {<<t, e[2]>> : e \in {f \in depGraph.edge :
                                         f[1] = t /\ \E p \in R : f[3] = Requirement(p)}}
            /\ state' = [state EXCEPT ![t] = "init"]
            /\ UNCHANGED <<depGraph, buildable, delayed>>
       ELSE /\ Fail({t}, state, depGraph, delayed)
            /\ UNCHANGED hardDep
    /\ hadEvent' = TRUE
    /\ fastResolution' = FALSE
    /\ UNCHANGED <<duplicates, builtBinaries, disallowed, inactiveSpecial>>

\* In a cycle the handler takes the label of each edge of t for a build requirement;
\* it cannot unpack that of a missing dependency, and the builder ends.
UnpackingRaises(t) ==
    /\ "missingBuildReqs" \in Outcomes
    /\ state[t] = "resolving" /\ buildReqs[t] # {}
    /\ InCycle(t) /\ OthersInCycle(t) # {}
    /\ HasDependencyEdge(t)
    /\ crashed' = TRUE
    /\ UNCHANGED <<tables, state, depGraph, buildable, resolving, delayed, inactiveSpecial,
                   fastResolution, hadEvent>>

\* The dependency D is missing (_linkMissingDeps): t must wait for every trove of
\* the job that provides one of its packages, finished or not.  Without such a
\* trove, or if all of them have had their turn in the cycle, t fails.
DepProviders(t, P) == UNION {OtherProviders(t, p) : p \in P}

MissingDep(t, D) ==
    LET orphan == \E p \in D : OtherProviders(t, p) = {}
        unchecked == DepProviders(t, D) \ (resolving[t] \cap CheckedAfter(t))
    IN  /\ "missingDeps" \in Outcomes
        /\ state[t] = "resolving"
        /\ D \in MissingDeps
        /\ resolving' = NoLonger(t)
        /\ \E P \in IF orphan THEN SUBSET D ELSE {D} :
             LET linked == AddEdges(depGraph, Links(t, DepProviders(t, P), Dependency(D)))
             IN  /\ hardDep' = hardDep \cup {<<t, q>> : q \in DepProviders(t, P)}
                 /\ IF orphan \/ (InCycle(t) /\ unchecked = {})
                    THEN /\ Fail({t}, state, linked, delayed)
                         /\ cycleChecked' = CheckedAfter(t)
                    ELSE /\ state' = [state EXCEPT ![t] = "init"]
                         /\ depGraph' = linked
                         /\ delayed' = delayed \cup {t}
                         /\ cycleChecked' = CheckedAfter(t) \ resolving[t]
                         /\ UNCHANGED buildable
        /\ hadEvent' = TRUE
        /\ fastResolution' = FALSE
        /\ UNCHANGED <<duplicates, builtBinaries, disallowed, inactiveSpecial>>

\* The resolve command itself failed: _resolving keeps the trove.
ResolveFailed(t) ==
    /\ "resolveFailed" \in Outcomes
    /\ state[t] = "resolving"
    /\ Fail({t}, state, depGraph, delayed)
    /\ hadEvent' \in {TRUE, hadEvent}
    /\ UNCHANGED <<tables, resolving, inactiveSpecial, fastResolution>>

-----------------------------------------------------------------------------
(* The outcomes of a build.                                                *)

BuildStarted(t) ==
    /\ \/ state[t] = "waiting" /\ t \notin PrepOnly
       \/ t \in Special \ inactiveSpecial /\ state[t] = "init"
    /\ state' = [state EXCEPT ![t] = "building"]
    /\ UNCHANGED <<tables, depGraph, buildable, resolving, delayed, inactiveSpecial,
                   fastResolution, hadEvent>>

\* The build is done.
BuildSucceeded(t) ==
    /\ state[t] = "building"
    /\ Built({t}, [state EXCEPT ![t] = "built"])
    /\ hadEvent' = TRUE
    /\ UNCHANGED <<resolving, cycleChecked, inactiveSpecial, fastResolution>>

\* The build is done, but its binaries have been committed before.
BuildDuplicate(t) ==
    /\ "duplicate" \in Outcomes
    /\ state[t] = "building" /\ t \notin Special
    /\ Duplicated({<<t, t, Output[t]>>}, [state EXCEPT ![t] = "duplicate"], depGraph, delayed)
    /\ UNCHANGED <<hardDep, resolving, cycleChecked, builtBinaries, inactiveSpecial,
                   fastResolution, hadEvent>>

\* The chroot of a trove that is only to be prepared is ready.
Prepared(t) ==
    /\ t \in PrepOnly
    /\ state[t] = "waiting"
    /\ state' = [state EXCEPT ![t] = "prepared"]
    /\ depGraph' = Delete(depGraph, {t})
    /\ hardDep' = {d \in hardDep : t \notin {d[1], d[2]}}
    /\ hadEvent' = TRUE
    /\ UNCHANGED <<buildable, resolving, delayed, cycleChecked, duplicates, builtBinaries,
                   disallowed, inactiveSpecial, fastResolution>>

\* The build failed, or its command did.
BuildFailed(t) ==
    /\ "buildFailed" \in Outcomes
    /\ \/ state[t] \in {"waiting", "building"}
       \/ t \in Special \ inactiveSpecial /\ state[t] = "init"
    /\ Fail({t}, state, depGraph, delayed)
    /\ hadEvent' \in {TRUE, hadEvent}
    /\ UNCHANGED <<tables, resolving, inactiveSpecial, fastResolution>>

-----------------------------------------------------------------------------
\* What the command sent for t may answer.  The handler may raise.
AnswerHandled(t) ==
    \/ Resolved(t)
    \/ \E R \in SUBSET buildReqs[t] : MissingBuildReqs(t, R)
    \/ \E D \in MissingDeps : MissingDep(t, D)
    \/ ResolveFailed(t)
    \/ BuildStarted(t)
    \/ BuildSucceeded(t)
    \/ BuildDuplicate(t)
    \/ Prepared(t)
    \/ BuildFailed(t)

Answer(t) ==
    /\ ~crashed /\ UNCHANGED job
    /\ \/ AnswerHandled(t) /\ UNCHANGED crashed
       \/ UnpackingRaises(t)

Next == Turn \/ \E t \in Trove : Answer(t)

Spec == Init /\ [][Next]_vars

\* The builder's loop goes on, and every command answers in the end.
FairSpec == Spec /\ WF_vars(Turn) /\ \A t \in Trove : WF_vars(Answer(t))

-----------------------------------------------------------------------------
(* Properties.                                                             *)

\* The books have their shape; in particular the graph never has an edge to a
\* trove that was deleted from it.
TypeOK ==
    /\ job \in Jobs
    /\ state \in [Trove -> State]
    /\ depGraph.node \subseteq Trove
    /\ depGraph.edge \subseteq depGraph.node \X depGraph.node \X Label
    /\ hardDep \subseteq Trove \X Trove
    /\ buildable \subseteq Trove
    /\ resolving \in [DOMAIN resolving -> SUBSET Trove] /\ DOMAIN resolving \subseteq Trove
    /\ delayed \subseteq Trove \ Special
    /\ cycleChecked \subseteq Trove \ Special
    /\ duplicates \subseteq Trove \X Trove \X SUBSET Binary
    /\ builtBinaries \subseteq Binary
    /\ disallowed \subseteq Trove
    /\ inactiveSpecial \subseteq Special
    /\ {fastResolution, hadEvent, crashed} \subseteq BOOLEAN

\* A trove that was found to be a duplicate may still wait for its match.
Settled(q) == Finished(q) /\ ~\E d \in duplicates : d[2] = q

\* The troves that t requires and that are built in this job.
Required(t) == UNION {Accepted(t, p) : p \in buildReqs[t]}

\* Build order: when a trove becomes buildable, every trove of the job that it
\* requires has had its turn, or requires it in turn (a cycle broken at this
\* trove), whatever failed, was delayed or was found a duplicate meanwhile.
ProvidersFirst ==
    [][\A t \in Trove \ PrepOnly : state[t] = "resolving" /\ state'[t] = "buildable" =>
          \A q \in Required(t) : Settled(q) \/ Reaches(depGraph, q, t)]_vars

\* The walk of _troveFailed misses nobody: no trove still waits, or is under
\* resolution, of which all the providers of a build requirement have failed.
FailurePropagates ==
    \A t \in Trove \ (PrepOnly \cup Special) : state[t] \in Unresolved \cup {"resolving"} =>
        \A p \in buildReqs[t] :
            Accepted(t, p) # {} => \E q \in Accepted(t, p) : state[q] \notin Failure

\* The walk takes nobody too many: the failure of another trove never fails a
\* trove whose command is out or that is ready to be built, although nothing in
\* _troveFailed looks at the states.
NotDraggedInFlight ==
    [][\A t \in Trove :
          state[t] \in {"resolving", "buildable", "waiting", "building"}
             => state'[t] # "unbuildable"]_vars

\* A cycle is broken at one trove at a time: while one is resolved as part of a
\* cycle no other trove of that cycle is, however the graph has changed since.
OneBreaker ==
    \A t, u \in Trove :
        t # u /\ state[t] = "resolving" /\ state[u] = "resolving" => u \notin resolving[t]

\* The trove's own states and the handler's tables, updated by different event
\* handlers, agree: ready means in buildReqTroves, under resolution means in
\* _resolving, and a trove leaves the graph only when it is settled.
BooksAgree ==
    \A t \in Trove \ Special :
        /\ t \in buildable <=> state[t] = "buildable"
        /\ state[t] = "resolving" => t \in DOMAIN resolving
        /\ ~Settled(t) => t \in depGraph.node

\* Of two builds in one job that made the same binary, one is disallowed: its
\* binaries are neither installed for others nor committed.
BuiltOnce ==
    \A t, u \in Trove :
        /\ t # u
        /\ state[t] \in Made /\ state[u] \in Made
        /\ Output[t] \cap Output[u] # {}
        => t \in disallowed \/ u \in disallowed

\* No late answer brings a finished trove back: it stays what it is, but that a
\* duplicate may turn out a conflict and that one failure may replace another.
FinalStays ==
    [][\A t \in Trove : Finished(t) =>
          \/ state'[t] = state[t]
          \/ {state[t], state'[t]} \subseteq Failure
          \/ state[t] = "duplicate" /\ state'[t] = "failed"]_vars

\* Whatever this job has made of p for t was built anew.
OnlyFresh(t, p) ==
    /\ Accepted(t, p) \cap MadeHere # {}
    /\ Accepted(t, p) \cap MadeHere \subseteq Fresh

\* Old binaries are reused only for what was built with nothing that this job has
\* built anew or is yet to build, but for a cycle broken here: in a plain rebuild
\* none of the packages installed then, and if changes from outside do not count
\* none of those required.  A reuse decided without a look at the other troves, at
\* once or after a resolution that came back late, would miss that.
\* (A trove that is only to be prepared waits for nobody.)
ReuseIsCurrent ==
    [][\A t \in DOMAIN job.old \ PrepOnly :
          /\ state[t] # "reused" /\ state'[t] = "reused"
          /\ job.primary = {} /\ job.policy # "all"
          => \A p \in IF job.policy = "none" THEN job.old[t].installed ELSE buildReqs[t] :
                /\ ~OnlyFresh(t, p)
                /\ \A q \in Accepted(t, p) : Finished(q) \/ Reaches(depGraph, q, t)]_vars

CommandOut(t) ==
    \/ state[t] \in {"resolving", "waiting", "building"}
    \/ t \in Special \ inactiveSpecial /\ state[t] = "init"

\* getNextResolveJob fails the delayed troves only if no "work is going on
\* elsewhere in the system": a delayed trove is not failed while a trove whose
\* build it waits for is being resolved or built.
DelayedWaitForWork ==
    [][\A t \in delayed : state[t] = "init" /\ state'[t] = "failed" =>
          ~\E e \in depGraph.edge : e[1] = t /\ CommandOut(e[2])]_vars

\* The loop turns for ever: no command is out, and a turn changes nothing.
Stalled ==
    /\ MoreToDo /\ ~hadEvent
    /\ buildable = {} /\ inactiveSpecial = {}
    /\ ~\E t \in Trove : CommandOut(t)
    /\ \/ NothingTried
       \/ ~fastResolution /\ ResolveJobs = {} /\ (DOMAIN resolving # {} \/ delayed = {})

\* getNextResolveJob ends with "no resolve job found.  That's ok if work is going
\* on elsewhere in the system", and else fails the troves that are left: there is
\* always a next step until the job is done.
NeverStalled == ~Stalled

\* The builder waits for nothing only if a failed resolution is still counted as
\* under way, a hard dependency or a trial to break a cycle is left over on an
\* unfinished trove, or a duplicate whose match never came is still in the graph:
\* cycles, delays and failures alone never stall it.
StalledOnlyByLeftovers ==
    Stalled =>
        \/ DOMAIN resolving # {}
        \/ \E t \in Trove : ~Finished(t) /\ (HasHardDependency(t) \/ t \in cycleChecked)
        \/ \E d \in duplicates : d[2] \in depGraph.node

\* Every job ends, whichever builds and resolutions fail, whichever requirements
\* are missing and whatever the troves find they should wait for, as long as no
\* cycle has three troves, each package has one provider, no resolution reports
\* missing dependencies and there is room for failed resolutions.
JobEnds == <>~MoreToDo
=============================================================================
