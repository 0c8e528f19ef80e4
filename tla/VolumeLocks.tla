---------------------------- MODULE VolumeLocks ----------------------------
(***************************************************************************)
(* The keyed try-lock of pkg/util/volume_lock.go: a mutex-guarded set of   *)
(* keys.  Both operations are atomic (they run under vl.mux), so a lock    *)
(* set is a plain set of keys and each operation one expression on it.     *)
(* TryAcquire does not block: a caller that finds the key held returns     *)
(* codes.Aborted and changes nothing.                                      *)
(***************************************************************************)

NoLocks == {}

\* Mutant: the key is not looked up.
CanAcquireAlways(locks, key) == TRUE

CanAcquire(locks, key) == key \notin locks

Acquire(locks, key) == locks \union {key}

Release(locks, key) == locks \ {key}

=============================================================================
