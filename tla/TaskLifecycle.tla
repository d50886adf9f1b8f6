--------------------------- MODULE TaskLifecycle ---------------------------
(***************************************************************************)
(* What the API server and its workers promise of a PCB task, whoever asks *)
(* and whatever fails: a task is submitted once, is run only out of the    *)
(* queue, is never taken away while it runs, and is taken away at most     *)
(* once, by one client's DELETE or by the abandonment detector.  TaskApi   *)
(* implements it.                                                          *)
(***************************************************************************)
CONSTANTS TaskIds, Requeues

VARIABLES task, cancelled, reaped

vars == <<task, cancelled, reaped>>

Init ==
    /\ task = [t \in TaskIds |-> "none"]
    /\ cancelled = {}
    /\ reaped = {}

Move(t, from, to) == task[t] \in from /\ task' = [task EXCEPT ![t] = to]

Submit(t) == Move(t, {"none"}, "pending") /\ UNCHANGED <<cancelled, reaped>>

Start(t) == Move(t, {"pending"}, "active") /\ UNCHANGED <<cancelled, reaped>>

Finish(t) ==
    /\ \E s \in {"completed", "archived"} : Move(t, {"active"}, s)
    /\ UNCHANGED <<cancelled, reaped>>

\* A worker that shuts down gives back what it could not finish.
GiveBack(t) ==
    /\ Requeues
    /\ Move(t, {"active"}, "pending")
    /\ UNCHANGED <<cancelled, reaped>>

\* Removed from the broker: by a client, by retention, or unnoticed.
Remove(t) ==
    /\ Move(t, {"pending", "completed", "archived"}, "gone")
    /\ UNCHANGED <<cancelled, reaped>>

\* One client, and nobody else, learns that its DELETE removed the task.
Acknowledge(t) ==
    /\ task[t] = "gone"
    /\ t \notin cancelled \cup reaped
    /\ cancelled' = cancelled \cup {t}
    /\ UNCHANGED <<task, reaped>>

\* Removed by the detector.
Abandon(t) ==
    /\ Move(t, {"pending", "completed", "archived"}, "gone")
    /\ t \notin cancelled \cup reaped
    /\ reaped' = reaped \cup {t}
    /\ UNCHANGED cancelled

Step(t) ==
    \/ Submit(t) \/ Start(t) \/ Finish(t) \/ GiveBack(t)
    \/ Remove(t) \/ Acknowledge(t) \/ Abandon(t)

Next == \E t \in TaskIds : Step(t)

Spec == Init /\ [][Next]_vars
=============================================================================
