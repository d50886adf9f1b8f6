---------------------------- MODULE FilerUpload ----------------------------
(***************************************************************************)
(* UploadToStorage of backend/internal/storage/filer.go: the zip and then  *)
(* every render of the manifest go to the Filer, one POST after another,   *)
(* each retried by retry.Do (backend/internal/retry/retry.go) with a delay *)
(* in between.  To BuildTask, retries and all are one request and one      *)
(* answer per object; BuildPhases says what it may count on.               *)
(*                                                                         *)
(* A request that left may reach the Filer although its sender was told of *)
(* an error, and later than that.                                          *)
(***************************************************************************)
EXTENDS TaskContext, Integers

CONSTANT UploadAttempts   \* uploadAttempts, as given to retry.Do

ASSUME AttemptsAssumption == UploadAttempts \in Int

VARIABLES
    pc,          \* "idle", "ready", "flight", "delay", or the outcome: "nil", "error"
    numRenders,  \* renders of the manifest
    obj,         \* the object being uploaded: 0 the zip, then the renders
    attempt,     \* retry.Do's attempt
    posted,      \* objects the Filer has been, or is being, sent
    stored       \* objects the Filer holds

uploadVars == <<pc, numRenders, obj, attempt, posted, stored>>

Objects == 0..numRenders

\* attempts < 1 counts as one.
Attempts == IF UploadAttempts < 1 THEN 1 ELSE UploadAttempts

UploadInit ==
    /\ pc = "idle"
    /\ numRenders = 0
    /\ obj = 0
    /\ attempt = 0
    /\ posted = {}
    /\ stored = {}

\* UploadToStorage is called with a manifest of n renders.
CallUpload(n) ==
    /\ pc = "idle"
    /\ pc' = "ready"
    /\ numRenders' = n
    /\ UNCHANGED <<obj, attempt, posted, stored>>

-----------------------------------------------------------------------------
(* sendUpload                                                              *)

\* Mutant: retry.Do does not count its attempts.
AfterTransientAlways == "delay"

\* Tried again after a delay, unless this was the last attempt.
AfterTransient == IF attempt = Attempts - 1 THEN "error" ELSE "delay"

\* The zip cannot be made, or the render cannot be read: nothing is sent.
Unreadable ==
    /\ pc = "ready"
    /\ attempt = 0
    /\ pc' = "error"
    /\ UNCHANGED <<obj, attempt, posted, stored>>

\* httpClient.Do sends the request.
Post ==
    /\ pc = "ready"
    /\ ~ctxDone
    /\ pc' = "flight"
    /\ posted' = posted \cup {obj}
    /\ UNCHANGED <<obj, attempt, stored>>

\* With the context cancelled it fails at once, which retry.Do takes for one more
\* transport error.
PostCancelled ==
    /\ pc = "ready"
    /\ ctxDone
    /\ pc' = AfterTransient
    /\ UNCHANGED <<obj, attempt, posted, stored>>

\* The Filer stores what it was sent.
Land ==
    /\ \E o \in posted : stored' = stored \cup {o}
    /\ UNCHANGED <<pc, obj, attempt, posted>>

\* 200 or 201: retry.Do returns nil and the next object follows.
AnswerOk ==
    /\ pc = "flight"
    /\ obj \in stored
    /\ obj' = obj + 1
    /\ attempt' = 0
    /\ pc' = IF obj = numRenders THEN "nil" ELSE "ready"
    /\ UNCHANGED <<posted, stored>>

\* Transport error, 429 or 5xx.
AnswerTransient ==
    /\ pc = "flight"
    /\ pc' = AfterTransient
    /\ UNCHANGED <<obj, attempt, posted, stored>>

\* Mutant: an object that is refused is left out.
AnswerSkip ==
    /\ pc = "flight"
    /\ obj' = obj + 1
    /\ attempt' = 0
    /\ pc' = IF obj = numRenders THEN "nil" ELSE "ready"
    /\ UNCHANGED <<posted, stored>>

\* 4xx: not tried again.
AnswerPermanent ==
    /\ pc = "flight"
    /\ pc' = "error"
    /\ UNCHANGED <<obj, attempt, posted, stored>>

-----------------------------------------------------------------------------
(* retry.Do between two attempts                                           *)

\* Mutant: the loop variable is not advanced.
TimerFiresAgain ==
    /\ pc = "delay"
    /\ pc' = "ready"
    /\ UNCHANGED <<obj, attempt, posted, stored>>

\* Both branches of the select may be ready when the context is cancelled.
TimerFires ==
    /\ pc = "delay"
    /\ attempt' = attempt + 1
    /\ pc' = "ready"
    /\ UNCHANGED <<obj, posted, stored>>

DelayCancelled ==
    /\ pc = "delay"
    /\ ctxDone
    /\ pc' = "error"
    /\ UNCHANGED <<obj, attempt, posted, stored>>

-----------------------------------------------------------------------------
Answer == AnswerOk \/ AnswerTransient \/ AnswerPermanent

Uploader == Unreadable \/ Post \/ PostCancelled \/ Answer \/ TimerFires \/ DelayCancelled

\* UploadToStorage under way, with the Filer.
UploadStep == (Uploader \/ Land) /\ UNCHANGED <<numRenders, ctxDone>>

-----------------------------------------------------------------------------
(* Properties                                                              *)

UploadTypeOK ==
    /\ pc \in {"idle", "ready", "flight", "delay", "nil", "error"}
    /\ obj \in 0..numRenders + 1
    /\ pc # "nil" => obj \in Objects
    /\ attempt \in 0..Attempts - 1
    /\ pc = "delay" => attempt + 1 \in 0..Attempts - 1
    /\ numRenders \in Nat
    /\ pc = "idle" => obj = 0 /\ posted = {}
    /\ posted \subseteq Objects
    /\ stored \subseteq posted

\* Why: only the current object can be in flight, all before it are through.
InOrder ==
    /\ posted \subseteq 0..obj
    /\ 0..obj - 1 \subseteq stored
    /\ pc = "nil" => obj = numRenders + 1

\* What the Filer holds of a task is an initial part of zip, front, back, sheets:
\* whoever finds one file finds all that come before it, even where requests
\* land late, land twice, or land after the upload was given up.
StoredIsPrefix == \A o \in stored : 0..o \subseteq stored

\* Whatever the Filer answers, an upload that was begun comes to an end: no error is
\* retried for ever, with the context cancelled or not.
UploadEnds == pc = "ready" ~> pc \in {"nil", "error"}

=============================================================================
