---------------------------- MODULE MCThreadPool ----------------------------
(* Instances of the thread pool; a .cfg names its threads and tasks. *)
EXTENDS ThreadPool
=============================================================================
