------------------------------ MODULE Project ------------------------------
(***************************************************************************)
(* A build from its request to its files on the Filer: NewPCB              *)
(* (ProjectBuild) and then UploadToStorage (FilerUpload) with the manifest *)
(* it returned, under one context.  The handler of a task (BuildTask) has  *)
(* it as the two phases "generate" and "upload".                           *)
(***************************************************************************)
EXTENDS ProjectBuild, FilerUpload

vars == <<ctxDone, buildVars, uploadVars>>

Init == ctxDone = FALSE /\ BuildInit /\ UploadInit

Build == BuildStep /\ UNCHANGED uploadVars

\* Mutant: the range over the manifest misses its last render.
HandOverShort ==
    /\ step = "built"
    /\ CallUpload(Len(renders) - 1)
    /\ UNCHANGED <<ctxDone, buildVars>>

\* The handler goes on with the manifest.
HandOver ==
    /\ step = "built"
    /\ CallUpload(Len(renders))
    /\ UNCHANGED <<ctxDone, buildVars>>

Upload == UploadStep /\ UNCHANGED buildVars

Cancel == CancelContext /\ UNCHANGED <<buildVars, uploadVars>>

Next == Build \/ HandOver \/ Upload \/ Cancel

Spec == Init /\ [][Next]_vars

\* NewPCB and UploadToStorage go on, a cancelled context kills the running command,
\* every request is answered or times out (5 minutes), every timer fires.  That a
\* command ends by itself is not assumed, nor that the Filer stores anything.
Fairness ==
    /\ WF_vars(NewPCBStep /\ UNCHANGED <<ctxDone, uploadVars>>)
    /\ WF_vars(HandOver)
    /\ WF_vars(Uploader /\ UNCHANGED <<numRenders, ctxDone, buildVars>>)

FairSpec == Spec /\ Fairness

-----------------------------------------------------------------------------
(* Properties                                                              *)

TypeOK == ctxDone \in BOOLEAN /\ BuildTypeOK /\ UploadTypeOK

\* A build whose context is cancelled comes to an end, although the command it runs
\* may hang, whatever the Filer answers, and wherever the cancellation finds it.
CancelledBuildEnds == ctxDone ~> step = "failed" \/ pc \in {"nil", "error"}

\* Where the build stands (BuildPhases).
Phase ==
    CASE pc = "idle" /\ step # "failed" -> "generate"
      [] pc = "idle" /\ step = "failed" -> "error"
      [] pc \in {"ready", "flight", "delay"} -> "upload"
      [] OTHER -> pc

Phases == INSTANCE BuildPhases WITH
    Attempts <- {1},
    phase <- [a \in {1} |-> Phase],
    count <- [a \in {1} |-> numRenders + 1],
    posted <- [a \in {1} |-> posted],
    done <- [a \in {1} |-> obj],
    cancelled <- [a \in {1} |-> ctxDone]

\* With every command, request, retry and delay it is made of, a build does no more
\* than the handler of a task is prepared for: no object is skipped or sent before
\* the one ahead of it is acknowledged, none is sent for a cancelled task, and nil
\* says that the Filer has acknowledged them all.
ImplementsPhases == Phases!Spec

\* What UploadToStorage returns nil for is the whole build: the Filer holds the zip and
\* a render for each entry of the manifest, and these are files NewPCB made.
NilDelivers ==
    pc = "nil" =>
        /\ 0 \in stored
        /\ \A i \in DOMAIN renders : i \in stored /\ renders[i] \in logs

=============================================================================
