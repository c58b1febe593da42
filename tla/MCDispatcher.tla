----------------------------- MODULE MCDispatcher -----------------------------
(* Model checking Dispatcher: two nodes that differ in slots, chroots and    *)
(* the classes of commands they can run.                                     *)
EXTENDS Dispatcher, TLC

CONSTANTS n1, n2, build, loadTrove

MCSession == {n1, n2}
MCClass == {build, loadTrove}
MCNeedsChroot == {build}
MCCapable == build :> {n1, n2} @@ loadTrove :> {n1}
MCSlots == n1 :> 2 @@ n2 :> 1
MCChrootLimit == n1 :> 1 @@ n2 :> 1
=============================================================================
