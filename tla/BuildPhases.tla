---------------------------- MODULE BuildPhases -----------------------------
(***************************************************************************)
(* What the handler of a task may count on of NewPCB and UploadToStorage,  *)
(* and what it has to put up with: a build makes a number of objects, they *)
(* are sent in order, each when the Filer has acknowledged the one before, *)
(* and none under a cancelled context; but a request on its way may be     *)
(* stored at any time, after its attempt has failed or died too.           *)
(*                                                                         *)
(* Project implements it for one attempt, call by call, and the handlers   *)
(* of BuildTask, which take a whole build for a few steps, for theirs: the *)
(* Filer is all that attempts share.                                       *)
(***************************************************************************)
EXTENDS Naturals

CONSTANT Attempts

VARIABLES
    phase,      \* of each attempt: "generate", "upload", and then "nil" or "error"
    count,      \* objects the build has made, meaningless before that
    posted,     \* objects the Filer has been, or is being, sent
    done,       \* how many it has acknowledged, and so the next one
    cancelled,  \* the context of the attempt is cancelled
    stored      \* objects the Filer holds

vars == <<phase, count, posted, done, cancelled, stored>>

Phases == {"generate", "upload", "nil", "error"}

Init ==
    /\ phase = [a \in Attempts |-> "generate"]
    /\ count \in [Attempts -> Nat]
    /\ posted = [a \in Attempts |-> {}]
    /\ done = [a \in Attempts |-> 0]
    /\ cancelled = [a \in Attempts |-> FALSE]
    /\ stored = {}

\* NewPCB returns: the zip and a number of renders.
Generated(a) ==
    /\ phase[a] = "generate"
    /\ phase' = [phase EXCEPT ![a] = "upload"]
    /\ count' = [count EXCEPT ![a] = count'[a]]
    /\ count'[a] \in Nat \ {0}
    /\ UNCHANGED <<posted, done, cancelled, stored>>

Send(a) ==
    /\ phase[a] = "upload"
    /\ ~cancelled[a]
    /\ posted' = [posted EXCEPT ![a] = @ \cup {done[a]}]
    /\ UNCHANGED <<phase, count, done, cancelled, stored>>

\* The Filer stores an object, whatever became of the attempt.
Land(a) ==
    /\ \E o \in posted[a] : stored' = stored \cup {o}
    /\ UNCHANGED <<phase, count, posted, done, cancelled>>

\* The Filer has the object; the last answer ends the upload.
Answered(a) ==
    /\ phase[a] = "upload"
    /\ done[a] \in posted[a] \cap stored
    /\ done' = [done EXCEPT ![a] = @ + 1]
    /\ phase' = [phase EXCEPT ![a] = IF done[a] + 1 = count[a] THEN "nil" ELSE "upload"]
    /\ UNCHANGED <<count, posted, cancelled, stored>>

\* An error, a panic, or the death of the process, which cancels every context.
Fails(a) ==
    /\ phase[a] \in {"generate", "upload"}
    /\ phase' = [phase EXCEPT ![a] = "error"]
    /\ cancelled' \in {cancelled, [cancelled EXCEPT ![a] = TRUE]}
    /\ UNCHANGED <<count, posted, done, stored>>

Cancel(a) ==
    /\ cancelled' = [cancelled EXCEPT ![a] = TRUE]
    /\ UNCHANGED <<phase, count, posted, done, stored>>

Step(a) == Generated(a) \/ Send(a) \/ Land(a) \/ Answered(a) \/ Fails(a) \/ Cancel(a)

Next == \E a \in Attempts : Step(a)

Spec == Init /\ [][Next]_vars
=============================================================================
