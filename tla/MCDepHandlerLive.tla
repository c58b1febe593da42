-------------------------- MODULE MCDepHandlerLive --------------------------
(***************************************************************************)
(* Jobs of four troves for the liveness of DepHandler, with cycles of two:  *)
(* a, b and c each build one package, p is only prepared.                  *)
(***************************************************************************)
EXTENDS DepHandler, TLC

CONSTANTS a, b, c, p, A, B, C

MCTrove == {a, b, c, p}
MCPrepOnly == {p}
MCPackage == {A, B, C}
MCProvides == A :> <<a>> @@ B :> <<b>> @@ C :> <<c>>
MCPackageOf == a :> A @@ b :> B @@ c :> C @@ p :> A
MCOutput == a :> {A} @@ b :> {B} @@ c :> {C} @@ p :> {}

\* a and b require each other; c requires them, is required by them, or neither.
Requirements(x, y, z) ==
    [reqs |-> a :> x @@ b :> y @@ c :> z @@ p :> {A},
     old |-> [t \in {} |-> {}], primary |-> {}, policy |-> "none"]
MCJobs ==
    {Requirements({B}, {A}, {}), Requirements({B}, {A}, {A, B}), Requirements({B, C}, {A}, {}),
     Requirements({B}, {A}, {C}), Requirements({B}, {C}, {})}
=============================================================================
