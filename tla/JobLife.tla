------------------------------- MODULE JobLife -------------------------------
(***************************************************************************)
(* What the rMake server promises about the custody of a job, whatever the *)
(* processes that hold it do: a job is filed, queued once, taken from the  *)
(* queue in the order of its number, given to at most one builder process, *)
(* and then over for good.  Module JobLifecycle implements this.           *)
(***************************************************************************)
EXTENDS Naturals

CONSTANT Job

VARIABLE life

Stage == {"none", "filed", "queued", "running", "over"}

\* Jobs of an earlier server are over.
Init == life \in [Job -> {"none", "over"}]

Move(j, from, to) == life[j] = from /\ life' = [life EXCEPT ![j] = to]

\* Numbers are given in order.
File(j) == (\A k \in Job : k < j => life[k] # "none") /\ Move(j, "none", "filed")

Enqueue(j) == Move(j, "filed", "queued")

\* The job with the smallest number leaves the queue first.
Start(j) ==
    /\ \A k \in Job : k < j => life[k] # "queued"
    /\ Move(j, "queued", "running")

\* Jobs are given up before or after they were started: they fail, are
\* deleted, or the machine stops.  A job in the queue outlives the machine.
End(J) ==
    /\ \A j \in J : life[j] \in {"filed", "queued", "running"}
    /\ life' = [j \in Job |-> IF j \in J THEN "over" ELSE life[j]]

Next ==
    \/ \E j \in Job : File(j) \/ Enqueue(j) \/ Start(j)
    \/ \E J \in SUBSET Job : End(J)

Spec == Init /\ [][Next]_life

\* Every job that was queued is over in the end.
Finishes == \A j \in Job : life[j] = "queued" ~> life[j] = "over"
=============================================================================
