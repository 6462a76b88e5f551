-------------------------- MODULE MutualExclusion --------------------------
(***************************************************************************)
(* What a lock and an election promise to those who use them (class        *)
(* SyncClient: lock() and unlock(), campaign() and resign()): one party at *)
(* a time, and the next one only when the last has let go.  LockManager    *)
(* and Election implement this specification.                              *)
(***************************************************************************)
CONSTANT Parties   \* the threads that lock, or the candidates

VARIABLE holders   \* who was told that it has the lock, or that it is elected

NobodyHolds == holders = {}

\* lock() or campaign() returns with success.
Acquire(p) ==
  /\ holders = {}
  /\ holders' = {p}

\* unlock() or resign() begins to take effect, or the lease is gone.
Release(p) ==
  /\ p \in holders
  /\ holders' = holders \ {p}

ExclusionNext == \E p \in Parties : Acquire(p) \/ Release(p)

ExclusionSpec == NobodyHolds /\ [][ExclusionNext]_holders
=============================================================================
