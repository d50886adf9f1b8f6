---------------------------- MODULE BuildOutcome ----------------------------
(***************************************************************************)
(* What a client of GET /api/pcb/{task_id} may rely on while its task is   *)
(* built: the answer moves from PENDING through PROGRESS to one verdict,   *)
(* and a SUCCESS that advertises files is given only when the Filer holds  *)
(* all of them.  Attempts that overlap may still add or remove its list    *)
(* afterwards, and nothing else.  BuildTask implements it.                 *)
(***************************************************************************)
CONSTANTS
    Objects,    \* the zip and the renders of the build
    Degraded,   \* TRUE: a SUCCESS may come without its list of files
    Overlap     \* TRUE: an earlier attempt may still write the task's result

VARIABLES
    view,       \* what the status endpoint answers, "BARE" a SUCCESS without files
    stored      \* objects the Filer holds

vars == <<view, stored>>

Init == view = "PENDING" /\ stored = {}

Move(from, to) == view = from /\ view' = to /\ UNCHANGED stored

Start == Move("PENDING", "PROGRESS")
GiveBack == Move("PROGRESS", "PENDING")
Fail == Move("PROGRESS", "FAILURE")
Succeed == stored = Objects /\ Move("PROGRESS", "SUCCESS")
SucceedBare == (Degraded \/ Overlap) /\ Move("PROGRESS", "BARE")

\* The result of a completed task is overwritten.
LoseFiles == Overlap /\ Move("SUCCESS", "BARE")
RegainFiles == Overlap /\ stored = Objects /\ Move("BARE", "SUCCESS")

Store(o) == stored' = stored \cup {o} /\ UNCHANGED view

Next ==
    \/ Start \/ GiveBack \/ Fail \/ Succeed \/ SucceedBare \/ LoseFiles \/ RegainFiles
    \/ \E o \in Objects : Store(o)

Spec == Init /\ [][Next]_vars
=============================================================================
