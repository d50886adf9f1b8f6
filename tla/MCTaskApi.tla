----------------------------- MODULE MCTaskApi -----------------------------
(* TaskApi on small instances: task ids and handlers are interchangeable.   *)
EXTENDS TaskApi, TLC

Interchangeable == Permutations(TaskIds) \cup Permutations(Handlers)
=============================================================================
