---------------------------- MODULE LockManager ----------------------------
(***************************************************************************)
(* SyncClient::lock() and unlock() (src/SyncClient.cpp), called by several *)
(* threads on one client for one lock name.  lock() grants a lease, keeps  *)
(* it alive with a KeepAlive object stored in keep_alive_for_locks, asks   *)
(* etcd for the lock, and remembers in leases_for_locks which lease the    *)
(* lock key belongs to; unlock() undoes all this.  Both maps are protected *)
(* by mutex_for_keepalives.                                                *)
(*                                                                         *)
(* A KeepAlive refreshes its lease until a refresh fails.  Then its thread *)
(* ends, while the object stays in the map: it was given no handler, and   *)
(* nobody calls its Check().                                               *)
(*                                                                         *)
(* External: etcd's lease and lock services.  A lock key lives as long as  *)
(* its lease; a key is named after its lease, so leases stand for keys.    *)
(***************************************************************************)
CONSTANTS
  Threads,     \* threads that call lock() and unlock()
  Leases,      \* bound: the leases etcd grants, each at most once
  NoLease,     \* lease id 0
  NoThread     \* the holder of a free mutex

ASSUME LeasesDistinct == NoLease \notin Leases /\ NoThread \notin Threads

VARIABLES
  pc,                    \* where each thread is
  lease,                 \* the lease of the KeepAlive that its lock() made
  key,                   \* the lock key that it asks for or holds
  mutex,                 \* the holder of mutex_for_keepalives
  keep_alive_for_locks,  \* the leases that have an entry in that map
  leases_for_locks,      \* lock key -> lease
  stopped,               \* the leases whose KeepAlive exists and has stopped refreshing
  alive,                 \* etcd: leases granted and neither expired nor revoked
  used,                  \* etcd: leases ever granted
  waiting,               \* etcd: lock keys waiting for the lock
  owner,                 \* etcd: the lock key that owns the lock
  unlocks                \* etcd: lock keys whose Unlock request is on its way

clientVars == <<pc, lease, key, mutex, keep_alive_for_locks, leases_for_locks, stopped>>
serverVars == <<alive, used, waiting, owner, unlocks>>
vars == <<clientVars, serverVars>>

\* A thread is in lock() from "register" to "refused", and in unlock() from
\* "erase" to "unlocked".
LockPoints   == {"register", "request", "waiting", "granted", "refused"}
UnlockPoints == {"erase", "revoke", "unlocked"}

TypeOK ==
  /\ pc \in [Threads -> {"idle", "held"} \cup LockPoints \cup UnlockPoints]
  /\ lease \in [Threads -> Leases \cup {NoLease}]
  /\ key \in [Threads -> Leases \cup {NoLease}]
  /\ mutex \in Threads \cup {NoThread}
  /\ keep_alive_for_locks \in SUBSET (Leases \cup {NoLease})
  /\ DOMAIN leases_for_locks \in SUBSET Leases
  /\ leases_for_locks \in [DOMAIN leases_for_locks -> Leases \cup {NoLease}]
  /\ stopped \in SUBSET Leases
  /\ alive \in SUBSET Leases
  /\ used \in SUBSET Leases
  /\ waiting \in SUBSET Leases
  /\ owner \in Leases \cup {NoLease}
  /\ unlocks \in SUBSET Leases

Init ==
  /\ pc = [t \in Threads |-> "idle"]
  /\ lease = [t \in Threads |-> NoLease]
  /\ key = [t \in Threads |-> NoLease]
  /\ mutex = NoThread
  /\ keep_alive_for_locks = {}
  /\ leases_for_locks = [k \in {} |-> NoLease]
  /\ stopped = {}
  /\ alive = {} /\ used = {}
  /\ waiting = {} /\ owner = NoLease
  /\ unlocks = {}

Goto(t, from, to) == pc[t] = from /\ pc' = [pc EXCEPT ![t] = to]

\* etcd grants the lease l.
Grant(l) ==
  /\ l \in Leases \ used
  /\ used' = used \cup {l}
  /\ alive' = alive \cup {l}

\* The lock key k is deleted; whoever waits may become the owner.
DeleteKey(k) ==
  /\ waiting' = waiting \ {k}
  /\ owner' = IF owner = k THEN NoLease ELSE owner

----------------------------------------------------------------------------
(* lock() *)

\* leasekeepalive(ttl): grant a lease and construct its KeepAlive, which tries
\* once more when the first grant failed, and goes on without a lease when
\* the second failed too.
LeaseKeepAlive(t) ==
  /\ Goto(t, "idle", "register")
  /\ \/ \E l \in Leases : Grant(l) /\ lease' = [lease EXCEPT ![t] = l]
     \/ lease' = [lease EXCEPT ![t] = NoLease] /\ UNCHANGED <<used, alive>>
  /\ UNCHANGED <<key, mutex, keep_alive_for_locks, leases_for_locks, stopped,
                 waiting, owner, unlocks>>

\* Mutant: the KeepAlive is not kept beyond lock().
RegisterNothing(t) ==
  /\ mutex = NoThread
  /\ Goto(t, "register", "request")
  /\ UNCHANGED <<lease, key, mutex, keep_alive_for_locks, leases_for_locks, stopped, serverVars>>

\* Lines 1098-1101.
Register(t) ==
  /\ mutex = NoThread
  /\ Goto(t, "register", "request")
  /\ keep_alive_for_locks' = keep_alive_for_locks \cup {lease[t]}
  /\ UNCHANGED <<lease, key, mutex, leases_for_locks, stopped, serverVars>>

\* Line 1103: the request reaches etcd, which creates the lock key.  Asked for
\* a lock without a lease, it grants one that nobody keeps alive.
RequestLock(t) ==
  /\ Goto(t, "request", "waiting")
  /\ \E l \in Leases :
       /\ IF lease[t] = NoLease THEN Grant(l)
          ELSE l = lease[t] /\ l \in alive /\ UNCHANGED <<used, alive>>
       /\ key' = [key EXCEPT ![t] = l]
       /\ waiting' = waiting \cup {l}
  /\ UNCHANGED <<lease, mutex, keep_alive_for_locks, leases_for_locks, stopped, owner, unlocks>>

\* Line 1104: etcd answers that the lock is owned.
LockGranted(t) ==
  /\ Goto(t, "waiting", "granted")
  /\ owner = key[t]
  /\ UNCHANGED <<lease, key, mutex, keep_alive_for_locks, leases_for_locks, stopped, serverVars>>

\* Line 1104: the request failed before it reached etcd or after, or timed
\* out: it is cancelled, which etcd may learn too late, or not at all.
LockRefused(t) ==
  /\ \/ Goto(t, "request", "refused") /\ UNCHANGED waiting
     \/ Goto(t, "waiting", "refused") /\ waiting' \in {waiting, waiting \ {key[t]}}
  /\ UNCHANGED <<lease, key, mutex, keep_alive_for_locks, leases_for_locks, stopped,
                 alive, used, owner, unlocks>>

\* Lines 1107-1111.
RecordLock(t) ==
  /\ mutex = NoThread
  /\ Goto(t, "granted", "held")
  /\ leases_for_locks' = [k \in DOMAIN leases_for_locks \cup {key[t]} |->
                            IF k = key[t] THEN lease[t] ELSE leases_for_locks[k]]
  /\ UNCHANGED <<lease, key, mutex, keep_alive_for_locks, stopped, serverVars>>

\* Mutant: the KeepAlive of a failed lock() stays in the map.
KeepOnFailure(t) ==
  /\ mutex = NoThread
  /\ Goto(t, "refused", "idle")
  /\ UNCHANGED <<lease, key, mutex, keep_alive_for_locks, leases_for_locks, stopped, serverVars>>

\* Lines 1111-1113; the lease is left to expire.
ForgetKeepAlive(t) ==
  /\ mutex = NoThread
  /\ Goto(t, "refused", "idle")
  /\ keep_alive_for_locks' = keep_alive_for_locks \ {lease[t]}
  /\ stopped' = stopped \ {lease[t]}
  /\ UNCHANGED <<lease, key, mutex, leases_for_locks, serverVars>>

----------------------------------------------------------------------------
(* unlock(): the thread that holds the lock gives its lock key. *)

\* Line 1148: the Unlock request is sent.
SendUnlock(t) ==
  /\ Goto(t, "held", "erase")
  /\ unlocks' = unlocks \cup {key[t]}
  /\ UNCHANGED <<lease, key, mutex, keep_alive_for_locks, leases_for_locks, stopped,
                 alive, used, waiting, owner>>

\* Mutant: the KeepAlive stays in the map.
EraseEntryOnly(t) ==
  /\ mutex = NoThread
  /\ pc[t] = "erase"
  /\ key[t] \in DOMAIN leases_for_locks
  /\ leases_for_locks' = [k \in DOMAIN leases_for_locks \ {key[t]} |-> leases_for_locks[k]]
  /\ pc' = [pc EXCEPT ![t] = IF lease[t] # NoLease THEN "revoke" ELSE "unlocked"]
  /\ mutex' = IF lease[t] # NoLease THEN t ELSE NoThread
  /\ UNCHANGED <<lease, key, keep_alive_for_locks, stopped, serverVars>>

\* Lines 1152-1170: the KeepAlive and both entries go, under the mutex, which
\* is kept while the lease is revoked.
EraseLock(t) ==
  /\ mutex = NoThread
  /\ pc[t] = "erase"
  /\ LET found == key[t] \in DOMAIN leases_for_locks
         l     == leases_for_locks[key[t]]
     IN  IF found
         THEN /\ keep_alive_for_locks' = keep_alive_for_locks \ {l}
              /\ stopped' = stopped \ {l}
              /\ leases_for_locks' = [k \in DOMAIN leases_for_locks \ {key[t]} |->
                                        leases_for_locks[k]]
              /\ pc' = [pc EXCEPT ![t] = IF l # NoLease THEN "revoke" ELSE "unlocked"]
              /\ mutex' = IF l # NoLease THEN t ELSE NoThread
         ELSE /\ pc' = [pc EXCEPT ![t] = "unlocked"]
              /\ UNCHANGED <<mutex, keep_alive_for_locks, leases_for_locks, stopped>>
  /\ UNCHANGED <<lease, key, serverVars>>

\* Lines 1171-1174: etcd answers the revocation, or the connection fails.
RevokeLease(t) ==
  /\ Goto(t, "revoke", "unlocked")
  /\ mutex' = NoThread
  /\ \/ alive' = alive \ {lease[t]} /\ DeleteKey(key[t])
     \/ UNCHANGED <<alive, waiting, owner>>
  /\ UNCHANGED <<lease, key, keep_alive_for_locks, leases_for_locks, stopped, used, unlocks>>

\* Line 1136: the response to Unlock, or its timeout.
UnlockReturns(t) ==
  /\ Goto(t, "unlocked", "idle")
  /\ UNCHANGED <<lease, key, mutex, keep_alive_for_locks, leases_for_locks, stopped, serverVars>>

----------------------------------------------------------------------------
(* The threads of the KeepAlive objects. *)

\* A KeepAlive exists for l: in the map, or only in a lock() under way.
KeepAliveExists(l) ==
  \/ l \in keep_alive_for_locks
  \/ \E t \in Threads : pc[t] \in LockPoints /\ lease[t] = l

\* A refresh fails, or comes too late and fails therefore: the thread ends, and
\* from then on nothing keeps the lease alive.
RefreshFails(l) ==
  /\ KeepAliveExists(l) /\ l \in Leases \ stopped
  /\ stopped' = stopped \cup {l}
  /\ UNCHANGED <<pc, lease, key, mutex, keep_alive_for_locks, leases_for_locks, serverVars>>

KeptAlive(l) == KeepAliveExists(l) /\ l \notin stopped

----------------------------------------------------------------------------
(* etcd and the network. *)

GiveLock(k) ==
  /\ owner = NoLease /\ k \in waiting
  /\ owner' = k
  /\ waiting' = waiting \ {k}
  /\ UNCHANGED <<clientVars, alive, used, unlocks>>

ServeUnlock(k) ==
  /\ k \in unlocks
  /\ unlocks' = unlocks \ {k}
  /\ DeleteKey(k)
  /\ UNCHANGED <<clientVars, alive, used>>

\* The request fails or times out without reaching etcd.
LoseUnlock(k) ==
  /\ k \in unlocks
  /\ unlocks' = unlocks \ {k}
  /\ UNCHANGED <<clientVars, alive, used, waiting, owner>>

LeaseExpires(l) ==
  /\ l \in alive /\ ~KeptAlive(l)
  /\ alive' = alive \ {l}
  /\ DeleteKey(l)
  /\ UNCHANGED <<clientVars, used, unlocks>>

Server(k) == GiveLock(k) \/ ServeUnlock(k) \/ LoseUnlock(k) \/ LeaseExpires(k)

----------------------------------------------------------------------------
\* What a thread inside lock() or unlock() does next.
ThreadStep(t) ==
  \/ Register(t) \/ RequestLock(t) \/ LockGranted(t) \/ LockRefused(t)
  \/ RecordLock(t) \/ ForgetKeepAlive(t)
  \/ EraseLock(t) \/ RevokeLease(t) \/ UnlockReturns(t)

Next ==
  \/ \E t \in Threads : LeaseKeepAlive(t) \/ SendUnlock(t) \/ ThreadStep(t)
  \/ \E k \in Leases : RefreshFails(k) \/ Server(k)

Spec == Init /\ [][Next]_vars

\* Threads run, a request ends with an answer, a failure or a timeout, and etcd
\* expires the leases that nobody keeps alive.  Nobody has to call lock() or
\* unlock(), no request has to reach etcd, and no refresh has to fail.
FairSpec ==
  /\ Spec
  /\ \A t \in Threads : WF_vars(ThreadStep(t))
  /\ \A l \in Leases : WF_vars(LeaseExpires(l))

----------------------------------------------------------------------------
(* Properties. *)

\* Who was told that it has the lock, under a lease of its own that is refreshed,
\* or was not refreshed and has not expired yet.
Holders ==
  {t \in Threads : pc[t] = "held" /\ lease[t] # NoLease /\ lease[t] \notin stopped \ alive}

\* A thread that holds the lock owns it at etcd until it calls unlock(), or its
\* lease expires after a refresh has failed: neither can the lease expire before,
\* nor is the key deleted by what other threads do.  (SyncClient.hpp, line 705, knows
\* no such exception: "keeping alive has already been taken care of by the library".)
HolderOwns == \A t \in Holders : owner = key[t]

Exclusion == INSTANCE MutualExclusion WITH Parties <- Threads, holders <- Holders

\* The threads that hold the lock exclude each other, although their requests fail,
\* time out and reach etcd late, and refreshes fail: before the next thread gets the
\* lock, the last one begins unlock() or loses a lease that is no longer refreshed.
\* The lock manager implements MutualExclusion.
ImplementsExclusion == Exclusion!ExclusionSpec

\* No entry outlives its lock: a KeepAlive in the map belongs to a lock() under
\* way or to a recorded lock, and a recorded lock is held or being unlocked.
NoStaleEntries ==
  /\ \A l \in keep_alive_for_locks :
       \E t \in Threads :
         lease[t] = l /\ pc[t] \in (LockPoints \ {"register"}) \cup {"held", "erase"}
  /\ \A k \in DOMAIN leases_for_locks :
       \E t \in Threads : key[t] = k /\ pc[t] \in {"held", "erase"}

\* A lock never stays owned by a thread that does not have it: not after a
\* lock() that timed out while etcd was granting it, nor after an unlock() of
\* which both requests were lost.
LockIsReleased ==
  \A k \in Leases : owner = k ~> \/ owner # k
                                 \/ \E t \in Threads : key[t] = k /\ pc[t] = "held"
=============================================================================
