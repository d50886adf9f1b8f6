---------------------------- MODULE TaskContext ----------------------------
(* The context asynq gives to the handler of a task.  It is cancelled when   *)
(* the task's deadline passes or its processor leaves, at any moment.        *)
VARIABLE ctxDone

\* Cancelled once, for good.
CancelContext == ctxDone' = TRUE
=============================================================================
