--------------------------- MODULE MCJobLifecycle ---------------------------
(* Two jobs and two chroots.  Each allowance is a scenario: some slots, and   *)
(* some requests and faults together.                                         *)
EXTENDS JobLifecycle, TLC

CONSTANTS client, client2, p1, p2

MCJob == {1, 2}
MCPath == {p1, p2}
MCClient == {client, client2}
MCEvent == {"slot", "row", "job", "trove", "commit", "stop", "delete", "crash", "halt",
            "death", "noFork"}

Scenarios == {
    [slot |-> 2, job |-> 2, trove |-> 2],
    [slot |-> 2, job |-> 1, trove |-> 2, row |-> 2],
    [slot |-> 1, job |-> 2, stop |-> 1],
    [slot |-> 1, job |-> 2, death |-> 1, noFork |-> 1],
    [slot |-> 1, job |-> 2, delete |-> 1],
    [slot |-> 1, job |-> 2, halt |-> 1],
    [slot |-> 1, job |-> 2, crash |-> 1],
    [slot |-> 1, job |-> 1, trove |-> 2, stop |-> 1, death |-> 1],
    [slot |-> 1, job |-> 1, stop |-> 1, delete |-> 1],
    [slot |-> 1, job |-> 1, crash |-> 1, delete |-> 1],
    [slot |-> 1, job |-> 1, trove |-> 1, delete |-> 1, death |-> 1],
    [slot |-> 1, job |-> 1, trove |-> 1, commit |-> 1],
    [slot |-> 1, commit |-> 2, crash |-> 1, delete |-> 1] }

Foreign == {[slot |-> 2, job |-> 2, trove |-> 2, row |-> 1]}

MCAllowance == {s @@ [e \in MCEvent |-> 0] : s \in Scenarios}
MCForeign == {s @@ [e \in MCEvent |-> 0] : s \in Foreign}
=============================================================================
