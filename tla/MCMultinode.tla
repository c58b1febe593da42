----------------------------- MODULE MCMultinode -----------------------------
(* One node of two slots and one or two chroots, which may get a second       *)
(* session.                                                                   *)
EXTENDS Multinode

CONSTANTS na, na1, na2, build

MCNode == {na}
MCSession == {na1, na2}
MCClass == {build}
MCNodeOf == [s \in Session |-> na]
MCCapable == [k \in Class |-> Session]
MCSlots == [s \in Session |-> 2]
MCChrootLimit == [s \in Session |-> 1]
MCTwoChroots == [s \in Session |-> 2]
=============================================================================
