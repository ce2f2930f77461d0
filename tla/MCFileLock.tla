----------------------------- MODULE MCFileLock -----------------------------
(* FileLock on a few processes, one of which died holding the lock.  The   *)
(* constants are given in the configurations.                              *)
EXTENDS FileLock
=============================================================================
