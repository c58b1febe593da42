---------------------------- MODULE MCDepHandler ----------------------------
(***************************************************************************)
(* Jobs of four troves for DepHandler: a builds the package A, b and c     *)
(* both build B, d is special, and any of the others may require any of    *)
(* the two packages, so that cycles of two and three troves, packages with *)
(* two providers and duplicate builds all occur.  Every outcome of a       *)
(* command may come.                                                       *)
(***************************************************************************)
EXTENDS DepHandler, TLC

CONSTANTS a, b, c, d, A, B

MCTrove == {a, b, c, d}
MCSpecial == {d}
MCPackage == {A, B}
MCProvides == A :> <<a>> @@ B :> <<b, c>>
MCPackageOf == a :> A @@ b :> B @@ c :> B @@ d :> A
MCOutput == a :> {A} @@ b :> {B} @@ c :> {B} @@ d :> {}

\* Jobs in which nothing was built before, with any requirements.
Plain(r) == [reqs |-> r, old |-> [t \in {} |-> {}], primary |-> {}, policy |-> "none"]
PlainJobs == {Plain(r) : r \in {q \in [Trove -> SUBSET Package] : q[d] = {}}}

\* Jobs in which a and b, which requires A, may have been built before: alone, after
\* each other, in a cycle, or with a package found by resolution only.
Before(P) == [fast |-> FALSE, source |-> TRUE, installed |-> P]
Quickly(P) == [Before(P) EXCEPT !.fast = TRUE]
OtherSource(P) == [Before(P) EXCEPT !.source = FALSE]

Needs(x, y) == a :> x @@ b :> y @@ c :> {} @@ d :> {}
Again(r, o) == [Plain(r) EXCEPT !.old = o]

AgainJobs ==
    {Again(Needs({}, {A}), a :> Quickly({}) @@ b :> Quickly({A})),
     Again(Needs({}, {A}), a :> Before({}) @@ b :> Quickly({A})),
     Again(Needs({}, {}), b :> Quickly({A})),
     Again(Needs({B}, {A}), a :> Quickly({B}) @@ b :> Quickly({A})),
     Again(Needs({B}, {A}), a :> Quickly({A, B}) @@ b :> Before({A}))}

PolicyJobs ==
    {[Again(Needs({}, {A}), a :> Before({}) @@ b :> Before({A})) EXCEPT !.policy = "external"],
     [Again(Needs({}, {A}), b :> Before({A})) EXCEPT !.policy = "external"],
     [Again(Needs({}, {A}), b :> Before({A})) EXCEPT !.policy = "all"],
     [Again(Needs({}, {A}), a :> OtherSource({}) @@ b :> Before({A}))
        EXCEPT !.primary = {a}, !.policy = "external"]}

MCJobs == PlainJobs \cup AgainJobs \cup PolicyJobs

MCMissingDeps == SUBSET Package
=============================================================================
