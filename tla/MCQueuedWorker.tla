--------------------------- MODULE MCQueuedWorker ---------------------------
(***************************************************************************)
(* Small instances of QueuedWorker.                                        *)
(***************************************************************************)
EXTENDS QueuedWorker, WorkerInstances
=============================================================================
