------------------------- MODULE LockManagerProofs -------------------------
(***************************************************************************)
(* Proofs about the two lock services.  LockManager, for any set of        *)
(* threads and any number of leases: a thread that was told it has the     *)
(* lock owns it at etcd until it unlocks, and the two maps of SyncClient   *)
(* hold nothing of a lock that is gone.  AsyncClient, for any number of    *)
(* users: the holder of the lock always finds a thread of the pool.        *)
(***************************************************************************)
EXTENDS LockManager, AsyncClient, FiniteSetTheorems, SequenceTheorems, TLAPS

----------------------------------------------------------------------------
(* The inductive invariant. *)

\* Where a thread has a lock key at etcd, or has had one that was not deleted
\* by its own unlock().
KeyPoints == {"waiting", "granted", "held", "erase", "revoke"}

\* Where the lease that lock() was granted is registered in the map.
KeptPoints == {"request", "waiting", "granted", "refused", "held", "erase"}

\* Whatever a thread remembers, also from an earlier lock(), etcd has granted.
Granted ==
  /\ \A t \in Threads : lease[t] \in used \cup {NoLease} /\ key[t] \in used \cup {NoLease}
  /\ unlocks \subseteq used

\* No two threads share a lease or a lock key, now or from an earlier lock().
Distinct ==
  \A t, u \in Threads :
    t # u => /\ lease[t] # NoLease => lease[t] # lease[u]
             /\ key[t] # NoLease => key[t] # key[u] /\ key[t] # lease[u]

\* A lock key is named after the lease that lock() was granted.
KeyOfLease ==
  \A t \in Threads :
    pc[t] \in KeyPoints => key[t] # NoLease /\ (lease[t] # NoLease => key[t] = lease[t])

\* No Unlock request is on its way for a lock that is being acquired or held.
NoUnlock ==
  \A t \in Threads :
    /\ pc[t] \in {"register", "request"} => lease[t] \notin unlocks
    /\ pc[t] \in {"waiting", "granted", "held"} => key[t] \notin unlocks

\* The lease of a lock has its KeepAlive in the map.
Kept ==
  \A t \in Threads :
    (pc[t] \in KeptPoints /\ lease[t] # NoLease) => lease[t] \in keep_alive_for_locks

\* The lease of a lock that lock() has returned is recorded under its key.
Recorded ==
  \A t \in Threads :
    pc[t] \in {"held", "erase"} =>
      key[t] \in DOMAIN leases_for_locks /\ leases_for_locks[key[t]] = lease[t]

\* The lock is owned from etcd's answer on, until a lease that is no longer
\* refreshed has expired.
Owns ==
  \A t \in Threads :
    (pc[t] \in {"granted", "held"} /\ lease[t] # NoLease /\ lease[t] \notin stopped \ alive)
      => owner = key[t]

IInv ==
  /\ TypeOK /\ Granted /\ Distinct /\ KeyOfLease /\ NoUnlock /\ Kept /\ Recorded /\ Owns
  /\ NoStaleEntries
----------------------------------------------------------------------------
(* The invariant is inductive. *)

\* Every step of a thread and of etcd keeps the invariant.
LEMMA InvInductive == IInv /\ [Next]_vars => IInv'
<1> SUFFICES ASSUME IInv, [Next]_vars PROVE IInv'
  OBVIOUS
<1> USE LeasesDistinct DEF IInv
<1>1. ASSUME NEW t \in Threads, LeaseKeepAlive(t) PROVE IInv'
  <2>1. TypeOK'
    BY <1>1 DEF TypeOK, LockPoints, LeaseKeepAlive, Grant, Goto
  <2>2. Granted'
    BY <1>1 DEF Granted, TypeOK, LeaseKeepAlive, Grant
  <2>3. Distinct'
    BY <1>1 DEF Distinct, Granted, TypeOK, LeaseKeepAlive, Grant
  <2>4. KeyOfLease'
    BY <1>1 DEF KeyOfLease, KeyPoints, TypeOK, LeaseKeepAlive, Goto
  <2>5. NoUnlock'
    BY <1>1 DEF NoUnlock, TypeOK, Granted, LeaseKeepAlive, Grant, Goto
  <2>6. Kept'
    BY <1>1 DEF Kept, KeptPoints, TypeOK, LeaseKeepAlive, Goto
  <2>7. Recorded'
    BY <1>1 DEF Recorded, TypeOK, LeaseKeepAlive, Goto
  <2>8. Owns'
    BY <1>1 DEF Owns, TypeOK, Granted, LeaseKeepAlive, Grant, Goto
  <2>9. NoStaleEntries'
    BY <1>1 DEF NoStaleEntries, TypeOK, LockPoints, LeaseKeepAlive, Goto
  <2> QED
    BY <2>1, <2>2, <2>3, <2>4, <2>5, <2>6, <2>7, <2>8, <2>9
<1>2. ASSUME NEW t \in Threads, Register(t) PROVE IInv'
  <2>1. TypeOK'
    BY <1>2 DEF TypeOK, LockPoints, Register, Goto, serverVars
  <2>2. Granted'
    BY <1>2 DEF Granted, Register, serverVars
  <2>3. Distinct'
    BY <1>2 DEF Distinct, Register
  <2>4. KeyOfLease'
    BY <1>2 DEF KeyOfLease, KeyPoints, Register, Goto
  <2>5. NoUnlock'
    BY <1>2 DEF NoUnlock, Register, Goto, serverVars
  <2>6. Kept'
    BY <1>2 DEF Kept, Register, Goto
  <2>7. Recorded'
    BY <1>2 DEF Recorded, Register, Goto
  <2>8. Owns'
    BY <1>2 DEF Owns, Register, Goto, serverVars
  <2>9. NoStaleEntries'
    BY <1>2 DEF NoStaleEntries, TypeOK, LockPoints, Register, Goto
  <2> QED
    BY <2>1, <2>2, <2>3, <2>4, <2>5, <2>6, <2>7, <2>8, <2>9
<1>3. ASSUME NEW t \in Threads, RequestLock(t) PROVE IInv'
  <2>1. TypeOK'
    BY <1>3 DEF TypeOK, LockPoints, RequestLock, Grant, Goto
  <2>2. Granted'
    BY <1>3 DEF Granted, RequestLock, Grant
  <2>3. Distinct'
    BY <1>3 DEF Distinct, Granted, RequestLock, Grant
  <2>4. KeyOfLease'
    BY <1>3 DEF KeyOfLease, TypeOK, RequestLock, Goto
  <2>5. NoUnlock'
    BY <1>3 DEF NoUnlock, TypeOK, Granted, RequestLock, Grant, Goto
  <2>6. Kept'
    BY <1>3 DEF Kept, KeptPoints, RequestLock, Goto
  <2>7. Recorded'
    BY <1>3 DEF Recorded, RequestLock, Goto
  <2>8. Owns'
    BY <1>3 DEF Owns, TypeOK, Granted, RequestLock, Grant, Goto
  <2>9. NoStaleEntries'
    BY <1>3 DEF NoStaleEntries, LockPoints, RequestLock, Goto
  <2> QED
    BY <2>1, <2>2, <2>3, <2>4, <2>5, <2>6, <2>7, <2>8, <2>9
<1>4. ASSUME NEW t \in Threads, LockGranted(t) PROVE IInv'
  <2>1. TypeOK'
    BY <1>4 DEF TypeOK, LockPoints, LockGranted, Goto, serverVars
  <2>2. Granted'
    BY <1>4 DEF Granted, LockGranted, serverVars
  <2>3. Distinct'
    BY <1>4 DEF Distinct, LockGranted
  <2>4. KeyOfLease'
    BY <1>4 DEF KeyOfLease, KeyPoints, LockGranted, Goto
  <2>5. NoUnlock'
    BY <1>4 DEF NoUnlock, LockGranted, Goto, serverVars
  <2>6. Kept'
    BY <1>4 DEF Kept, KeptPoints, LockGranted, Goto
  <2>7. Recorded'
    BY <1>4 DEF Recorded, LockGranted, Goto
  <2>8. Owns'
    BY <1>4 DEF Owns, LockGranted, Goto, serverVars
  <2>9. NoStaleEntries'
    BY <1>4 DEF NoStaleEntries, LockPoints, LockGranted, Goto
  <2> QED
    BY <2>1, <2>2, <2>3, <2>4, <2>5, <2>6, <2>7, <2>8, <2>9
<1>5. ASSUME NEW t \in Threads, LockRefused(t) PROVE IInv'
  <2>1. TypeOK'
    BY <1>5 DEF TypeOK, LockPoints, LockRefused, Goto
  <2>2. Granted'
    BY <1>5 DEF Granted, LockRefused
  <2>3. Distinct'
    BY <1>5 DEF Distinct, LockRefused
  <2>4. KeyOfLease'
    BY <1>5 DEF KeyOfLease, KeyPoints, TypeOK, LockRefused, Goto
  <2>5. NoUnlock'
    BY <1>5 DEF NoUnlock, TypeOK, LockRefused, Goto
  <2>6. Kept'
    BY <1>5 DEF Kept, KeptPoints, TypeOK, LockRefused, Goto
  <2>7. Recorded'
    BY <1>5 DEF Recorded, TypeOK, LockRefused, Goto
  <2>8. Owns'
    BY <1>5 DEF Owns, TypeOK, LockRefused, Goto
  <2>9. NoStaleEntries'
    BY <1>5 DEF NoStaleEntries, TypeOK, LockPoints, LockRefused, Goto
  <2> QED
    BY <2>1, <2>2, <2>3, <2>4, <2>5, <2>6, <2>7, <2>8, <2>9
<1>6. ASSUME NEW t \in Threads, RecordLock(t) PROVE IInv'
  <2>1. TypeOK'
    BY <1>6 DEF TypeOK, KeyOfLease, KeyPoints, RecordLock, Goto, serverVars
  <2>2. Granted'
    BY <1>6 DEF Granted, RecordLock, serverVars
  <2>3. Distinct'
    BY <1>6 DEF Distinct, RecordLock
  <2>4. KeyOfLease'
    BY <1>6 DEF KeyOfLease, KeyPoints, RecordLock, Goto
  <2>5. NoUnlock'
    BY <1>6 DEF NoUnlock, RecordLock, Goto, serverVars
  <2>6. Kept'
    BY <1>6 DEF Kept, KeptPoints, RecordLock, Goto
  <2>7. Recorded'
    BY <1>6 DEF Recorded, TypeOK, Distinct, RecordLock, Goto
  <2>8. Owns'
    BY <1>6 DEF Owns, RecordLock, Goto, serverVars
  <2>9. NoStaleEntries'
    BY <1>6 DEF NoStaleEntries, TypeOK, RecordLock, Goto
  <2> QED
    BY <2>1, <2>2, <2>3, <2>4, <2>5, <2>6, <2>7, <2>8, <2>9
<1>7. ASSUME NEW t \in Threads, ForgetKeepAlive(t) PROVE IInv'
  <2>1. TypeOK'
    BY <1>7 DEF TypeOK, ForgetKeepAlive, Goto, serverVars
  <2>2. Granted'
    BY <1>7 DEF Granted, ForgetKeepAlive, serverVars
  <2>3. Distinct'
    BY <1>7 DEF Distinct, ForgetKeepAlive
  <2>4. KeyOfLease'
    BY <1>7 DEF KeyOfLease, KeyPoints, ForgetKeepAlive, Goto
  <2>5. NoUnlock'
    BY <1>7 DEF NoUnlock, ForgetKeepAlive, Goto, serverVars
  <2>6. Kept'
    BY <1>7 DEF Kept, KeptPoints, TypeOK, Distinct, ForgetKeepAlive, Goto
  <2>7. Recorded'
    BY <1>7 DEF Recorded, ForgetKeepAlive, Goto
  <2>8. Owns'
    BY <1>7 DEF Owns, TypeOK, Distinct, ForgetKeepAlive, Goto, serverVars
  <2>9. NoStaleEntries'
    BY <1>7 DEF NoStaleEntries, ForgetKeepAlive, Goto
  <2> QED
    BY <2>1, <2>2, <2>3, <2>4, <2>5, <2>6, <2>7, <2>8, <2>9
<1>8. ASSUME NEW t \in Threads, SendUnlock(t) PROVE IInv'
  <2>1. TypeOK'
    BY <1>8 DEF TypeOK, KeyOfLease, KeyPoints, UnlockPoints, SendUnlock, Goto
  <2>2. Granted'
    BY <1>8 DEF Granted, KeyOfLease, KeyPoints, SendUnlock, Goto
  <2>3. Distinct'
    BY <1>8 DEF Distinct, SendUnlock
  <2>4. KeyOfLease'
    BY <1>8 DEF KeyOfLease, KeyPoints, SendUnlock, Goto
  <2>5. NoUnlock'
    BY <1>8 DEF NoUnlock, TypeOK, Distinct, KeyOfLease, KeyPoints, SendUnlock, Goto
  <2>6. Kept'
    BY <1>8 DEF Kept, KeptPoints, SendUnlock, Goto
  <2>7. Recorded'
    BY <1>8 DEF Recorded, SendUnlock, Goto
  <2>8. Owns'
    BY <1>8 DEF Owns, SendUnlock, Goto
  <2>9. NoStaleEntries'
    BY <1>8 DEF NoStaleEntries, SendUnlock, Goto
  <2> QED
    BY <2>1, <2>2, <2>3, <2>4, <2>5, <2>6, <2>7, <2>8, <2>9
<1>9. ASSUME NEW t \in Threads, EraseLock(t) PROVE IInv'
  <2>1. TypeOK'
    BY <1>9 DEF TypeOK, UnlockPoints, EraseLock, serverVars
  <2>2. Granted'
    BY <1>9 DEF Granted, EraseLock, serverVars
  <2>3. Distinct'
    BY <1>9 DEF Distinct, EraseLock
  <2>4. KeyOfLease'
    BY <1>9 DEF KeyOfLease, KeyPoints, TypeOK, EraseLock
  <2>5. NoUnlock'
    BY <1>9 DEF NoUnlock, TypeOK, EraseLock, serverVars
  <2>6. Kept'
    BY <1>9 DEF Kept, KeptPoints, TypeOK, Distinct, Recorded, EraseLock
  <2>7. Recorded'
    BY <1>9 DEF Recorded, TypeOK, Distinct, EraseLock
  <2>8. Owns'
    BY <1>9 DEF Owns, TypeOK, Distinct, Recorded, EraseLock, serverVars
  <2>9. NoStaleEntries'
    BY <1>9 DEF NoStaleEntries, TypeOK, Recorded, EraseLock
  <2> QED
    BY <2>1, <2>2, <2>3, <2>4, <2>5, <2>6, <2>7, <2>8, <2>9
<1>10. ASSUME NEW t \in Threads, RevokeLease(t) PROVE IInv'
  <2>1. TypeOK'
    BY <1>10 DEF TypeOK, UnlockPoints, RevokeLease, DeleteKey, Goto
  <2>2. Granted'
    BY <1>10 DEF Granted, RevokeLease
  <2>3. Distinct'
    BY <1>10 DEF Distinct, RevokeLease
  <2>4. KeyOfLease'
    BY <1>10 DEF KeyOfLease, KeyPoints, RevokeLease, Goto
  <2>5. NoUnlock'
    BY <1>10 DEF NoUnlock, RevokeLease, Goto
  <2>6. Kept'
    BY <1>10 DEF Kept, KeptPoints, RevokeLease, Goto
  <2>7. Recorded'
    BY <1>10 DEF Recorded, RevokeLease, Goto
  <2>8. Owns'
    BY <1>10 DEF Owns, Distinct, RevokeLease, DeleteKey, Goto
  <2>9. NoStaleEntries'
    BY <1>10 DEF NoStaleEntries, LockPoints, RevokeLease, Goto
  <2> QED
    BY <2>1, <2>2, <2>3, <2>4, <2>5, <2>6, <2>7, <2>8, <2>9
<1>11. ASSUME NEW t \in Threads, UnlockReturns(t) PROVE IInv'
  <2>1. TypeOK'
    BY <1>11 DEF TypeOK, UnlockReturns, Goto, serverVars
  <2>2. Granted'
    BY <1>11 DEF Granted, UnlockReturns, serverVars
  <2>3. Distinct'
    BY <1>11 DEF Distinct, UnlockReturns
  <2>4. KeyOfLease'
    BY <1>11 DEF KeyOfLease, KeyPoints, UnlockReturns, Goto
  <2>5. NoUnlock'
    BY <1>11 DEF NoUnlock, UnlockReturns, Goto, serverVars
  <2>6. Kept'
    BY <1>11 DEF Kept, KeptPoints, UnlockReturns, Goto
  <2>7. Recorded'
    BY <1>11 DEF Recorded, UnlockReturns, Goto
  <2>8. Owns'
    BY <1>11 DEF Owns, UnlockReturns, Goto, serverVars
  <2>9. NoStaleEntries'
    BY <1>11 DEF NoStaleEntries, LockPoints, UnlockReturns, Goto
  <2> QED
    BY <2>1, <2>2, <2>3, <2>4, <2>5, <2>6, <2>7, <2>8, <2>9
<1>12. ASSUME NEW k \in Leases, GiveLock(k) PROVE IInv'
  <2>1. TypeOK'
    BY <1>12 DEF TypeOK, GiveLock, clientVars
  <2>2. Granted'
    BY <1>12 DEF Granted, GiveLock, clientVars
  <2>3. Distinct'
    BY <1>12 DEF Distinct, GiveLock, clientVars
  <2>4. KeyOfLease'
    BY <1>12 DEF KeyOfLease, GiveLock, clientVars
  <2>5. NoUnlock'
    BY <1>12 DEF NoUnlock, GiveLock, clientVars
  <2>6. Kept'
    BY <1>12 DEF Kept, GiveLock, clientVars
  <2>7. Recorded'
    BY <1>12 DEF Recorded, GiveLock, clientVars
  <2>8. Owns'
    BY <1>12 DEF Owns, KeyOfLease, KeyPoints, GiveLock, clientVars
  <2>9. NoStaleEntries'
    BY <1>12 DEF NoStaleEntries, GiveLock, clientVars
  <2> QED
    BY <2>1, <2>2, <2>3, <2>4, <2>5, <2>6, <2>7, <2>8, <2>9
<1>13. ASSUME NEW k \in Leases, ServeUnlock(k) PROVE IInv'
  <2>1. TypeOK'
    BY <1>13 DEF TypeOK, ServeUnlock, DeleteKey, clientVars
  <2>2. Granted'
    BY <1>13 DEF Granted, ServeUnlock, clientVars
  <2>3. Distinct'
    BY <1>13 DEF Distinct, ServeUnlock, clientVars
  <2>4. KeyOfLease'
    BY <1>13 DEF KeyOfLease, ServeUnlock, clientVars
  <2>5. NoUnlock'
    BY <1>13 DEF NoUnlock, ServeUnlock, clientVars
  <2>6. Kept'
    BY <1>13 DEF Kept, ServeUnlock, clientVars
  <2>7. Recorded'
    BY <1>13 DEF Recorded, ServeUnlock, clientVars
  <2>8. Owns'
    BY <1>13 DEF Owns, NoUnlock, ServeUnlock, DeleteKey, clientVars
  <2>9. NoStaleEntries'
    BY <1>13 DEF NoStaleEntries, ServeUnlock, clientVars
  <2> QED
    BY <2>1, <2>2, <2>3, <2>4, <2>5, <2>6, <2>7, <2>8, <2>9
<1>14. ASSUME NEW k \in Leases, LeaseExpires(k) PROVE IInv'
  <2>1. TypeOK'
    BY <1>14 DEF TypeOK, LeaseExpires, DeleteKey, clientVars
  <2>2. Granted'
    BY <1>14 DEF Granted, LeaseExpires, clientVars
  <2>3. Distinct'
    BY <1>14 DEF Distinct, LeaseExpires, clientVars
  <2>4. KeyOfLease'
    BY <1>14 DEF KeyOfLease, LeaseExpires, clientVars
  <2>5. NoUnlock'
    BY <1>14 DEF NoUnlock, LeaseExpires, clientVars
  <2>6. Kept'
    BY <1>14 DEF Kept, LeaseExpires, clientVars
  <2>7. Recorded'
    BY <1>14 DEF Recorded, LeaseExpires, clientVars
  <2>8. Owns'
    BY <1>14
       DEF Owns, KeyOfLease, KeyPoints, Kept, KeptPoints, KeptAlive, KeepAliveExists,
           LeaseExpires, DeleteKey, clientVars
  <2>9. NoStaleEntries'
    BY <1>14 DEF NoStaleEntries, LeaseExpires, clientVars
  <2> QED
    BY <2>1, <2>2, <2>3, <2>4, <2>5, <2>6, <2>7, <2>8, <2>9
<1>15. ASSUME NEW k \in Leases, LoseUnlock(k) PROVE IInv'
  <2>1. TypeOK'
    BY <1>15 DEF TypeOK, LoseUnlock, clientVars
  <2>2. Granted' /\ NoUnlock'
    BY <1>15 DEF Granted, NoUnlock, LoseUnlock, clientVars
  <2>3. Distinct' /\ KeyOfLease' /\ Kept' /\ Recorded' /\ Owns' /\ NoStaleEntries'
    BY <1>15
       DEF Distinct, KeyOfLease, Kept, Recorded, Owns, NoStaleEntries, LoseUnlock, clientVars
  <2> QED
    BY <2>1, <2>2, <2>3
<1>16. ASSUME NEW k \in Leases, RefreshFails(k) PROVE IInv'
  <2>1. TypeOK'
    BY <1>16 DEF TypeOK, RefreshFails, serverVars
  <2>2. Granted' /\ Distinct' /\ KeyOfLease' /\ NoUnlock' /\ Kept' /\ Recorded' /\ NoStaleEntries'
    BY <1>16
       DEF Granted, Distinct, KeyOfLease, NoUnlock, Kept, Recorded, NoStaleEntries,
           RefreshFails, serverVars
  <2>3. Owns'
    BY <1>16 DEF Owns, RefreshFails, serverVars
  <2> QED
    BY <2>1, <2>2, <2>3
<1>17. CASE UNCHANGED vars
  <2>1. TypeOK'
    BY <1>17 DEF TypeOK, vars, clientVars, serverVars
  <2>2. Granted'
    BY <1>17 DEF Granted, vars, clientVars, serverVars
  <2>3. Distinct'
    BY <1>17 DEF Distinct, vars, clientVars
  <2>4. KeyOfLease'
    BY <1>17 DEF KeyOfLease, vars, clientVars
  <2>5. NoUnlock'
    BY <1>17 DEF NoUnlock, vars, clientVars, serverVars
  <2>6. Kept'
    BY <1>17 DEF Kept, vars, clientVars
  <2>7. Recorded'
    BY <1>17 DEF Recorded, vars, clientVars
  <2>8. Owns'
    BY <1>17 DEF Owns, vars, clientVars, serverVars
  <2>9. NoStaleEntries'
    BY <1>17 DEF NoStaleEntries, vars, clientVars
  <2> QED
    BY <2>1, <2>2, <2>3, <2>4, <2>5, <2>6, <2>7, <2>8, <2>9
<1> QED
  BY <1>1, <1>2, <1>3, <1>4, <1>5, <1>6, <1>7, <1>8, <1>9, <1>10, <1>11, <1>12, <1>13,
     <1>14, <1>15, <1>16, <1>17
     DEF Next, ThreadStep, Server

\* Initially nobody has a lease, a key or the lock.
LEMMA InitInv == Init => IInv
  BY DEF Init, IInv, TypeOK, Granted, Distinct, KeyOfLease, KeyPoints, NoUnlock, Kept,
     Recorded, Owns, NoStaleEntries

\* Every reachable state of the lock manager satisfies the invariant.
THEOREM Invariance == Spec => []IInv
  BY InitInv, InvInductive, PTL DEF Spec

----------------------------------------------------------------------------
(* What follows from it. *)

\* Every variable keeps its type: in particular every lock that is recorded was
\* given a key, although lock() goes on without a lease when none is granted.
THEOREM TypeCorrect == Spec => []TypeOK
  BY Invariance, PTL DEF IInv

\* For any number of threads, one that was told by lock() that it has the lock
\* under a lease of its own owns it at etcd until it calls unlock(), or until the
\* lease expires because a refresh has failed.
THEOREM HolderOwnsHolds == Spec => []HolderOwns
<1>1. IInv => HolderOwns
  BY DEF IInv, Owns, Holders, HolderOwns
<1> QED
  BY <1>1, Invariance, PTL

\* For any number of threads, keep_alive_for_locks and leases_for_locks have an
\* entry only for a lock that is being acquired, held or unlocked.
THEOREM NoStaleEntriesHolds == Spec => []NoStaleEntries
  BY Invariance, PTL DEF IInv

\* A step changes what one thread holds, if anything.
LEMMA HoldersMove ==
  ASSUME IInv, [Next]_vars, Holders' # Holders
  PROVE  \E t \in Threads : \A u \in Threads \ {t} : u \in Holders' <=> u \in Holders
<1> USE LeasesDistinct DEF IInv
<1> DEFINE Lost(u) == lease[u] \in stopped \ alive
<1>1. ASSUME NEW t \in Threads, LeaseKeepAlive(t) \/ SendUnlock(t) \/ ThreadStep(t)
      PROVE  \A u \in Threads \ {t} : u \in Holders' <=> u \in Holders
  <2>1. \A u \in Threads \ {t} : pc'[u] = pc[u] /\ lease'[u] = lease[u]
    BY <1>1 DEF TypeOK, LeaseKeepAlive, SendUnlock, ThreadStep, Register, RequestLock,
                LockGranted, LockRefused, RecordLock, ForgetKeepAlive, EraseLock,
                RevokeLease, UnlockReturns, Goto
  <2>2. ASSUME NEW u \in Threads \ {t}, lease[u] # NoLease PROVE Lost(u)' <=> Lost(u)
    <3>1. CASE LeaseKeepAlive(t) \/ RequestLock(t)
      BY <2>1, <2>2, <3>1 DEF TypeOK, Granted, LeaseKeepAlive, RequestLock, Grant
    <3>2. CASE ForgetKeepAlive(t) \/ RevokeLease(t)
      BY <2>1, <2>2, <3>2 DEF Distinct, ForgetKeepAlive, RevokeLease, serverVars
    <3>3. CASE EraseLock(t)
      BY <2>1, <2>2, <3>3 DEF Distinct, Recorded, EraseLock, serverVars
    <3>4. CASE \/ SendUnlock(t) \/ Register(t) \/ LockGranted(t) \/ LockRefused(t)
               \/ RecordLock(t) \/ UnlockReturns(t)
      BY <2>1, <3>4 DEF SendUnlock, Register, LockGranted, LockRefused, RecordLock,
                        UnlockReturns, serverVars
    <3> QED BY <1>1, <3>1, <3>2, <3>3, <3>4 DEF ThreadStep
  <2> QED BY <2>1, <2>2 DEF Holders
<1>2. CASE UNCHANGED vars
  BY <1>2 DEF Holders, vars, clientVars, serverVars
<1>3. ASSUME NEW k \in Leases, RefreshFails(k) \/ Server(k)
      PROVE  \E t \in Threads : \A u \in Threads \ {t} : u \in Holders' <=> u \in Holders
  <2>1. /\ UNCHANGED <<pc, lease>>
        /\ \A u \in Threads : lease[u] # k => (Lost(u)' <=> Lost(u))
    BY <1>3 DEF RefreshFails, Server, GiveLock, ServeUnlock, LoseUnlock, LeaseExpires,
                clientVars, serverVars
  <2>2. PICK t \in Threads : t \in Holders' <=> t \notin Holders
    BY DEF Holders
  <2>3. lease[t] = k /\ k # NoLease
    BY <2>1, <2>2 DEF Holders
  <2> QED BY <2>1, <2>3 DEF Holders, Distinct
<1> QED BY <1>1, <1>2, <1>3 DEF Next

\* For any number of threads, lock() and unlock() implement MutualExclusion: a
\* thread comes to hold the lock only when every other has begun unlock(), or has
\* lost a lease that a refresh failed to keep.
THEOREM ImplementsExclusionHolds == Spec => ImplementsExclusion
<1>1. Init => Exclusion!NobodyHolds
  BY DEF Init, Holders, Exclusion!NobodyHolds
<1>2. IInv /\ IInv' /\ [Next]_vars => [Exclusion!ExclusionNext]_Holders
  <2> SUFFICES ASSUME IInv, IInv', [Next]_vars, Holders' # Holders
               PROVE  Exclusion!ExclusionNext
    OBVIOUS
  <2>1. PICK t \in Threads : \A u \in Threads \ {t} : u \in Holders' <=> u \in Holders
    BY HoldersMove DEF IInv
  <2>2. Holders \subseteq Threads /\ Holders' \subseteq Threads
    BY DEF Holders
  <2>3. CASE t \in Holders'
    <3>1. \A u \in Holders' : u = t
      <4> SUFFICES ASSUME NEW u \in Holders' PROVE u = t
        OBVIOUS
      <4>1. owner' = key'[t] /\ owner' = key'[u] /\ key'[t] # NoLease
        BY <2>3 DEF IInv, Holders, Owns, KeyOfLease, KeyPoints
      <4> QED BY <2>2, <2>3, <4>1 DEF IInv, Distinct
    <3>2. Holders' = {t} /\ Holders = {}
      BY <2>1, <2>2, <2>3, <3>1
    <3> QED BY <2>2, <2>3, <3>2 DEF Exclusion!ExclusionNext, Exclusion!Acquire
  <2>4. CASE t \notin Holders'
    <3>1. t \in Holders /\ Holders' = Holders \ {t}
      BY <2>1, <2>2, <2>4
    <3> QED BY <2>1, <3>1 DEF Exclusion!ExclusionNext, Exclusion!Release
  <2> QED BY <2>3, <2>4
<1> QED BY <1>1, <1>2, Invariance, PTL DEF Spec, ImplementsExclusion, Exclusion!ExclusionSpec

----------------------------------------------------------------------------
(* AsyncClient: no thread of the pool is needed and missing. *)

\* A user who asked etcd for the lock.
Asked(u) == \E i \in 1 .. Len(lockQueue) : lockQueue[i] = u

\* Users ask once, until they unlock; who is inside is at the head.
AskedInv ==
  /\ \A i, j \in 1 .. Len(lockQueue) : lockQueue[i] = lockQueue[j] => i = j
  /\ \A i \in 1 .. Len(lockQueue) :
       place[lockQueue[i]] \in {"locking", "inside", "writing", "written"}
  /\ \A u \in Users : place[u] \in {"inside", "writing", "written"} => HasLock(u)

\* A task belongs to a user who waits for it.
Awaited(task) ==
  IF task.kind = "lock" THEN ~sync /\ place[task.user] = "locking"
  ELSE place[task.user] \in {"writing", "unlocking"}

\* One that waits for a thread has not begun.
NotBegun(task) == Awaited(task) /\ task \notin running /\ (task.kind = "lock" => ~Asked(task.user))

TasksInv ==
  /\ \A task \in running : Awaited(task)
  /\ \A i \in 1 .. Len(tasks) : NotBegun(tasks[i])
  /\ \A i, j \in 1 .. Len(tasks) : tasks[i] = tasks[j] => i = j

PoolInv ==
  /\ PoolTypeOK /\ IsFiniteSet(running)
  /\ poolSize = IF sync THEN 1 ELSE Cardinality(Users)
  /\ AskedInv /\ TasksInv

\* A task is known by its kind and its user.
LEMMA TaskFacts ==
  /\ \A u \in Users : /\ Task("lock", u) \in Tasks /\ Task("wait", u) \in Tasks
                      /\ Task("lock", u).kind = "lock" /\ Task("wait", u).kind = "wait"
                      /\ Task("lock", u).user = u /\ Task("wait", u).user = u
  /\ \A t \in Tasks : t.kind \in {"lock", "wait"} /\ t.user \in Users /\ t = Task(t.kind, t.user)
BY DEF Tasks, Task

\* Nobody waits before the first call.
LEMMA PoolInitInv == PoolInit => PoolInv
<1> SUFFICES ASSUME PoolInit PROVE PoolInv
  OBVIOUS
<1>1. Cardinality(Users) \in Nat /\ IsFiniteSet({}) /\ Cardinality({}) = 0
  BY UsersFinite, FS_CardinalityType, FS_EmptySet
<1>2. PoolTypeOK
  BY <1>1 DEF PoolInit, PoolTypeOK
<1> QED BY <1>1, <1>2 DEF PoolInit, PoolInv, AskedInv, TasksInv

\* Nothing is under way for a user who waits for nothing.
LEMMA NothingAwaited ==
  ASSUME PoolInv, NEW u \in Users, place[u] \in {"idle", "inside", "written"}
  PROVE  /\ \A task \in running : task.user # u
         /\ \A i \in 1 .. Len(tasks) : tasks[i].user # u
BY DEF PoolInv, TasksInv, NotBegun, Awaited, PoolTypeOK, Tasks

\* A step of one user leaves the tasks of the others as they were.
LEMMA OthersWait ==
  ASSUME PoolInv, NEW u \in Users, NEW x, place' = [place EXCEPT ![u] = x], sync' = sync,
         \A v \in Users \ {u} : Asked(v)' => Asked(v),
         \A task \in running' : task \in running \/ task.user = u
  PROVE  /\ \A task \in Tasks : task.user # u /\ Awaited(task) => Awaited(task)'
         /\ \A task \in Tasks : task.user # u /\ NotBegun(task) => NotBegun(task)'
<1>1. \A task \in Tasks : task.user # u /\ Awaited(task) => Awaited(task)'
  BY TaskFacts DEF Awaited, PoolInv, PoolTypeOK
<1> QED BY <1>1, TaskFacts DEF NotBegun

\* One for which nothing was under way has a task made,
LEMMA TaskMade ==
  ASSUME PoolInv, NEW u \in Users, NEW x, place' = [place EXCEPT ![u] = x], sync' = sync,
         \A v \in Users \ {u} : Asked(v)' => Asked(v),
         running' = running,
         place[u] \in {"idle", "inside", "written"},
         NEW new \in Tasks, tasks' = Append(tasks, new), new.user = u, Awaited(new)',
         new.kind = "lock" => ~Asked(u)'
  PROVE  TasksInv' /\ tasks' \in Seq(Tasks)
<1>1. /\ \A task \in running : task.user # u
      /\ \A i \in 1 .. Len(tasks) : tasks[i].user # u
  BY NothingAwaited
<1>2. /\ \A task \in Tasks : task.user # u /\ Awaited(task) => Awaited(task)'
      /\ \A task \in Tasks : task.user # u /\ NotBegun(task) => NotBegun(task)'
  BY OthersWait
<1>3. tasks \in Seq(Tasks) /\ running \subseteq Tasks /\ TasksInv
  BY DEF PoolInv, PoolTypeOK
<1>4. /\ Len(tasks') = Len(tasks) + 1 /\ tasks'[Len(tasks) + 1] = new
      /\ \A i \in 1 .. Len(tasks) : tasks'[i] = tasks[i] /\ tasks[i] \in Tasks
      /\ Len(tasks) \in Nat /\ tasks' \in Seq(Tasks)
  BY <1>3
<1>5. \A task \in running' : Awaited(task)'
  BY <1>1, <1>2, <1>3 DEF TasksInv
<1>6. NotBegun(new)'
  BY <1>1 DEF NotBegun
<1>7. ASSUME NEW i \in 1 .. Len(tasks') PROVE NotBegun(tasks[i])'
  <2>1. CASE i = Len(tasks) + 1
    BY <1>4, <1>6, <2>1
  <2>2. CASE i # Len(tasks) + 1
    <3>1. i \in 1 .. Len(tasks) /\ tasks'[i] = tasks[i]
      BY <1>4, <2>2
    <3>2. PICK task \in Tasks : task = tasks[i]
      BY <1>4, <3>1
    <3>3. NotBegun(task) /\ task.user # u
      BY <1>1, <1>3, <3>1, <3>2 DEF TasksInv
    <3>4. NotBegun(task)'
      BY <1>2, <3>3
    <3> QED BY <3>1, <3>2, <3>4
  <2> QED BY <2>1, <2>2
<1>8. \A i, j \in 1 .. Len(tasks') : tasks'[i] = tasks'[j] => i = j
  BY <1>1, <1>3, <1>4 DEF TasksInv
<1> QED BY <1>4, <1>5, <1>7, <1>8 DEF TasksInv

\* or its only task ends.
LEMMA TaskEnds ==
  ASSUME PoolInv, NEW u \in Users, NEW x, place' = [place EXCEPT ![u] = x], sync' = sync,
         \A v \in Users \ {u} : Asked(v)' => Asked(v),
         running' \subseteq running, \A task \in running' : task.user # u,
         tasks' = tasks, \A i \in 1 .. Len(tasks) : tasks[i].user # u
  PROVE  TasksInv'
<1>1. /\ \A task \in Tasks : task.user # u /\ Awaited(task) => Awaited(task)'
      /\ \A task \in Tasks : task.user # u /\ NotBegun(task) => NotBegun(task)'
  BY OthersWait
<1>2. tasks \in Seq(Tasks) /\ running \subseteq Tasks /\ TasksInv
  BY DEF PoolInv, PoolTypeOK
<1>3. \A task \in running' : Awaited(task)'
  BY <1>1, <1>2 DEF TasksInv
<1>4. \A i \in 1 .. Len(tasks) : NotBegun(tasks[i])'
  BY <1>1, <1>2 DEF TasksInv
<1> QED BY <1>2, <1>3, <1>4 DEF TasksInv

\* A user goes on, and the queue of the lock is the same.
LEMMA QueueSame ==
  ASSUME PoolInv, NEW u \in Users, NEW x, place' = [place EXCEPT ![u] = x],
         lockQueue' = lockQueue,
         Asked(u) => x \in {"locking", "inside", "writing", "written"},
         x \in {"inside", "writing", "written"} => HasLock(u)
  PROVE  AskedInv' /\ \A v \in Users \ {u} : Asked(v)' => Asked(v)
<1> USE DEF PoolInv, PoolTypeOK
<1>1. lockQueue \in Seq(Users) /\ \A i \in 1 .. Len(lockQueue) : lockQueue[i] \in Users
  OBVIOUS
<1>2. \A i \in 1 .. Len(lockQueue) :
        place'[lockQueue[i]] \in {"locking", "inside", "writing", "written"}
  BY <1>1 DEF AskedInv, Asked
<1>3. \A v \in Users : place'[v] \in {"inside", "writing", "written"} => HasLock(v)'
  BY DEF AskedInv, HasLock
<1> QED BY <1>2, <1>3 DEF AskedInv, Asked

\* Who has the lock has asked for it.
LEMMA HolderAsked ==
  ASSUME PoolInv, NEW u \in Users, HasLock(u)
  PROVE  Asked(u)
BY DEF PoolInv, PoolTypeOK, HasLock, Asked

\* lock() asks etcd at once with sync, and makes a task otherwise.
LEMMA CallLockInv ==
  ASSUME PoolInv, NEW u \in Users, CallLock(u), UNCHANGED <<sync, poolSize>>
  PROVE  PoolInv'
<1> USE DEF PoolInv
<1>1. /\ place[u] = "idle" /\ place' = [place EXCEPT ![u] = "locking"] /\ running' = running
      /\ \/ sync /\ lockQueue' = Append(lockQueue, u) /\ tasks' = tasks
         \/ ~sync /\ tasks' = Append(tasks, Task("lock", u)) /\ lockQueue' = lockQueue
  BY DEF CallLock, Move
<1>2. \A i \in 1 .. Len(lockQueue) : lockQueue[i] \in Users \ {u}
  BY <1>1 DEF AskedInv, PoolTypeOK
<1>3. CASE sync /\ lockQueue' = Append(lockQueue, u) /\ tasks' = tasks
  <2>1. lockQueue \in Seq(Users)
    BY DEF PoolTypeOK
  <2>2. /\ Len(lockQueue') = Len(lockQueue) + 1 /\ lockQueue'[Len(lockQueue) + 1] = u
        /\ \A i \in 1 .. Len(lockQueue) : lockQueue'[i] = lockQueue[i]
        /\ Len(lockQueue) \in Nat /\ lockQueue' \in Seq(Users)
    BY <1>3, <2>1
  <2>3. lockQueue # <<>> => lockQueue' # <<>> /\ Head(lockQueue') = Head(lockQueue)
    BY <1>3, <2>1
  <2>4. PoolTypeOK'
    BY <1>1, <1>3, <2>2 DEF PoolTypeOK
  <2>5. \A i, j \in 1 .. Len(lockQueue') : lockQueue'[i] = lockQueue'[j] => i = j
    BY <1>2, <2>2 DEF AskedInv
  <2>6. \A i \in 1 .. Len(lockQueue') :
          place'[lockQueue'[i]] \in {"locking", "inside", "writing", "written"}
    BY <1>1, <1>2, <2>2 DEF AskedInv, PoolTypeOK
  <2>7. \A v \in Users : place'[v] \in {"inside", "writing", "written"} => HasLock(v)'
    BY <1>1, <2>3 DEF AskedInv, PoolTypeOK, HasLock
  <2>8. \A v \in Users \ {u} : Asked(v)' => Asked(v)
    BY <2>2 DEF Asked
  <2>9. TasksInv'
    BY <1>1, <1>3, <2>8, NothingAwaited, TaskEnds
  <2> QED BY <1>1, <2>4, <2>5, <2>6, <2>7, <2>9 DEF AskedInv
<1>4. CASE ~sync /\ tasks' = Append(tasks, Task("lock", u)) /\ lockQueue' = lockQueue
  <2>1. AskedInv' /\ \A v \in Users \ {u} : Asked(v)' => Asked(v)
    BY <1>1, <1>4, QueueSame
  <2>2. ~Asked(u)'
    BY <1>2, <1>4 DEF Asked
  <2>3. Awaited(Task("lock", u))'
    BY <1>1, <1>4, TaskFacts DEF Awaited, PoolTypeOK
  <2>4. TasksInv' /\ tasks' \in Seq(Tasks)
    BY <1>1, <1>4, <2>1, <2>2, <2>3, TaskFacts, TaskMade
  <2>5. PoolTypeOK'
    BY <1>1, <1>4, <2>4 DEF PoolTypeOK
  <2> QED BY <1>1, <2>1, <2>4, <2>5
<1> QED BY <1>1, <1>3, <1>4

\* The task at the head of the queue has not begun: a lock task asks etcd now,
\* and the pool has room for it.
LEMMA StartTaskInv ==
  ASSUME PoolInv, StartTask, UNCHANGED <<sync, poolSize>>
  PROVE  PoolInv'
<1> USE DEF PoolInv
<1>1. PICK task : task = Head(tasks)
  OBVIOUS
<1>2. /\ tasks # <<>> /\ Cardinality(running) < poolSize /\ tasks' = Tail(tasks)
      /\ running' = running \cup {task} /\ place' = place
      /\ lockQueue' = IF task.kind = "lock" THEN Append(lockQueue, task.user) ELSE lockQueue
  BY <1>1 DEF StartTask
<1>3. tasks \in Seq(Tasks) /\ lockQueue \in Seq(Users)
  BY DEF PoolTypeOK
<1>4. /\ task = tasks[1] /\ task \in Tasks /\ Len(tasks) > 0 /\ Len(tasks) \in Nat
      /\ tasks' \in Seq(Tasks) /\ Len(tasks') = Len(tasks) - 1
      /\ \A i \in 1 .. Len(tasks') : tasks'[i] = tasks[i + 1] /\ i + 1 \in 1 .. Len(tasks)
  BY <1>1, <1>2, <1>3
<1>5. NotBegun(task) /\ task.user \in Users
  BY <1>4, TaskFacts DEF TasksInv
<1>6. IsFiniteSet(running') /\ Cardinality(running') <= poolSize
  <2>1. Cardinality(running) \in Nat /\ Cardinality(Users) \in Nat
    BY UsersFinite, FS_CardinalityType
  <2>2. IsFiniteSet(running \cup {task}) /\ Cardinality(running \cup {task}) <= Cardinality(running) + 1
    BY <2>1, FS_AddElement
  <2>3. Cardinality(running \cup {task}) \in Nat
    BY <2>2, FS_CardinalityType
  <2>4. poolSize \in Nat
    BY <2>1
  <2> QED BY <1>2, <2>1, <2>2, <2>3, <2>4
<1>7. lockQueue' \in Seq(Users)
  BY <1>2, <1>3, <1>5
<1>8. PoolTypeOK'
  BY <1>2, <1>4, <1>6, <1>7 DEF PoolTypeOK
<1>9. AskedInv' /\ \A v \in Users : Asked(v)' => Asked(v) \/ (task.kind = "lock" /\ v = task.user)
  <2>1. CASE task.kind # "lock"
    BY <1>2, <2>1 DEF AskedInv, HasLock, Asked
  <2>2. CASE task.kind = "lock"
    <3>1. ~Asked(task.user) /\ place[task.user] = "locking"
      BY <1>5, <2>2 DEF NotBegun, Awaited
    <3>2. /\ Len(lockQueue') = Len(lockQueue) + 1 /\ lockQueue'[Len(lockQueue) + 1] = task.user
          /\ \A i \in 1 .. Len(lockQueue) : lockQueue'[i] = lockQueue[i]
          /\ Len(lockQueue) \in Nat
      BY <1>2, <1>3, <1>5, <2>2
    <3>3. lockQueue # <<>> => lockQueue' # <<>> /\ Head(lockQueue') = Head(lockQueue)
      BY <1>2, <1>3, <1>5, <2>2
    <3>4. \A i, j \in 1 .. Len(lockQueue') : lockQueue'[i] = lockQueue'[j] => i = j
      BY <3>1, <3>2 DEF AskedInv, Asked
    <3>5. \A i \in 1 .. Len(lockQueue') :
            place'[lockQueue'[i]] \in {"locking", "inside", "writing", "written"}
      BY <1>2, <3>1, <3>2 DEF AskedInv
    <3>6. \A v \in Users : place'[v] \in {"inside", "writing", "written"} => HasLock(v)'
      BY <1>2, <3>3 DEF AskedInv, HasLock
    <3>7. \A v \in Users : Asked(v)' => Asked(v) \/ v = task.user
      BY <3>2 DEF Asked
    <3> QED BY <2>2, <3>4, <3>5, <3>6, <3>7 DEF AskedInv
  <2> QED BY <2>1, <2>2
<1>10. TasksInv'
  <2>1. \A o \in Tasks : Awaited(o) => Awaited(o)'
    BY <1>2 DEF Awaited
  <2>2. \A o \in running' : Awaited(o)'
    BY <1>2, <1>4, <1>5, <2>1 DEF TasksInv, NotBegun, PoolTypeOK
  <2>3. \A o \in Tasks : NotBegun(o) /\ o # task => NotBegun(o)'
    <3> SUFFICES ASSUME NEW o \in Tasks, NotBegun(o), o # task PROVE NotBegun(o)'
      OBVIOUS
    <3>1. Awaited(o)' /\ o \notin running'
      BY <1>2, <2>1 DEF NotBegun
    <3>2. ASSUME o.kind = "lock" PROVE ~Asked(o.user)'
      <4>1. task.kind = "lock" => task.user # o.user
        BY <1>4, <3>2, TaskFacts
      <4> QED BY <1>9, <3>2, <4>1, TaskFacts DEF NotBegun
    <3> QED BY <3>1, <3>2 DEF NotBegun
  <2>4. ASSUME NEW i \in 1 .. Len(tasks') PROVE NotBegun(tasks[i])'
    <3>1. tasks'[i] = tasks[i + 1] /\ i + 1 \in 1 .. Len(tasks) /\ i + 1 # 1
      BY <1>4
    <3>2. PICK o \in Tasks : o = tasks[i + 1]
      BY <1>3, <3>1
    <3>3. NotBegun(o) /\ o # task
      BY <1>4, <3>1, <3>2 DEF TasksInv
    <3>4. NotBegun(o)'
      BY <2>3, <3>3
    <3> QED BY <3>1, <3>2, <3>4
  <2>5. \A i, j \in 1 .. Len(tasks') : tasks'[i] = tasks'[j] => i = j
    BY <1>4 DEF TasksInv
  <2> QED BY <2>2, <2>4, <2>5 DEF TasksInv
<1> QED BY <1>2, <1>6, <1>8, <1>9, <1>10

\* etcd gives the lock to the head of its queue, whose task ends.
LEMMA LockDoneInv ==
  ASSUME PoolInv, NEW u \in Users, LockDone(u), UNCHANGED <<sync, poolSize>>
  PROVE  PoolInv'
<1> USE DEF PoolInv
<1>1. /\ HasLock(u) /\ place[u] = "locking" /\ place' = [place EXCEPT ![u] = "inside"]
      /\ running' = running \ {Task("lock", u)} /\ tasks' = tasks /\ lockQueue' = lockQueue
  BY DEF LockDone, Move
<1>2. AskedInv' /\ \A v \in Users \ {u} : Asked(v)' => Asked(v)
  BY <1>1, QueueSame
<1>3. \A task \in running' : task.user # u
  BY <1>1, TaskFacts DEF TasksInv, Awaited, PoolTypeOK
<1>4. \A i \in 1 .. Len(tasks) : tasks[i].user # u
  <2> SUFFICES ASSUME NEW i \in 1 .. Len(tasks), tasks[i].user = u PROVE FALSE
    OBVIOUS
  <2>1. NotBegun(tasks[i])
    BY DEF TasksInv
  <2> QED BY <1>1, <2>1, HolderAsked DEF NotBegun, Awaited
<1>5. TasksInv'
  BY <1>1, <1>2, <1>3, <1>4, TaskEnds
<1>6. IsFiniteSet(running') /\ Cardinality(running') <= Cardinality(running)
  BY <1>1, FS_Subset
<1>7. PoolTypeOK'
  <2>1. /\ Cardinality(running) \in Nat /\ Cardinality(running') \in Nat
        /\ Cardinality(Users) \in Nat
    BY <1>6, UsersFinite, FS_CardinalityType
  <2> QED BY <1>1, <1>6, <2>1 DEF PoolTypeOK
<1> QED BY <1>1, <1>2, <1>5, <1>6, <1>7

\* Who has the lock writes and waits for the response in a task.
LEMMA CallPutInv ==
  ASSUME PoolInv, NEW u \in Users, CallPut(u), UNCHANGED <<sync, poolSize>>
  PROVE  PoolInv'
<1> USE DEF PoolInv
<1>1. /\ place[u] = "inside" /\ place' = [place EXCEPT ![u] = "writing"]
      /\ tasks' = Append(tasks, Task("wait", u)) /\ running' = running
      /\ lockQueue' = lockQueue
  BY DEF CallPut, Move, Asyncify
<1>2. HasLock(u)
  BY <1>1 DEF AskedInv
<1>3. AskedInv' /\ \A v \in Users \ {u} : Asked(v)' => Asked(v)
  BY <1>1, <1>2, QueueSame
<1>4. Awaited(Task("wait", u))'
  BY <1>1, TaskFacts DEF Awaited, PoolTypeOK
<1>5. TasksInv' /\ tasks' \in Seq(Tasks)
  BY <1>1, <1>3, <1>4, TaskFacts, TaskMade
<1>6. PoolTypeOK'
  BY <1>1, <1>5 DEF PoolTypeOK
<1> QED BY <1>1, <1>3, <1>5, <1>6

\* unlock() takes the head off etcd's queue, and waits in a task.
LEMMA CallUnlockInv ==
  ASSUME PoolInv, NEW u \in Users, CallUnlock(u), UNCHANGED <<sync, poolSize>>
  PROVE  PoolInv'
<1> USE DEF PoolInv
<1>1. /\ place[u] = "written" /\ place' = [place EXCEPT ![u] = "unlocking"]
      /\ tasks' = Append(tasks, Task("wait", u)) /\ running' = running
      /\ lockQueue' = Tail(lockQueue)
  BY DEF CallUnlock, Move, Asyncify
<1>2. HasLock(u)
  BY <1>1 DEF AskedInv
<1>3. /\ lockQueue \in Seq(Users) /\ lockQueue[1] = u /\ Len(lockQueue) \in Nat
      /\ lockQueue' \in Seq(Users) /\ Len(lockQueue') = Len(lockQueue) - 1 /\ Len(lockQueue) > 0
      /\ \A i \in 1 .. Len(lockQueue') :
           /\ lockQueue'[i] = lockQueue[i + 1] /\ i + 1 \in 1 .. Len(lockQueue)
  BY <1>1, <1>2 DEF HasLock, PoolTypeOK
<1>4. \A i \in 1 .. Len(lockQueue') : lockQueue'[i] \in Users \ {u}
  BY <1>3 DEF AskedInv
<1>5. AskedInv'
  <2>1. \A i, j \in 1 .. Len(lockQueue') : lockQueue'[i] = lockQueue'[j] => i = j
    <3> SUFFICES ASSUME NEW i \in 1 .. Len(lockQueue'), NEW j \in 1 .. Len(lockQueue'),
                        lockQueue'[i] = lockQueue'[j]
                 PROVE  i = j
      OBVIOUS
    <3>1. /\ i + 1 \in 1 .. Len(lockQueue) /\ j + 1 \in 1 .. Len(lockQueue)
          /\ lockQueue[i + 1] = lockQueue[j + 1]
      BY <1>3
    <3>2. i + 1 = j + 1
      BY <3>1 DEF AskedInv
    <3> QED BY <1>3, <3>2
  <2>2. \A i \in 1 .. Len(lockQueue') :
          place'[lockQueue'[i]] \in {"locking", "inside", "writing", "written"}
    BY <1>1, <1>3, <1>4 DEF AskedInv, PoolTypeOK
  <2>3. \A v \in Users \ {u} : place[v] \notin {"inside", "writing", "written"}
    BY <1>2 DEF AskedInv, HasLock
  <2>4. \A v \in Users : place'[v] \notin {"inside", "writing", "written"}
    BY <1>1, <2>3 DEF PoolTypeOK
  <2> QED BY <2>1, <2>2, <2>4 DEF AskedInv
<1>6. \A v \in Users \ {u} : Asked(v)' => Asked(v)
  BY <1>3 DEF Asked
<1>7. Awaited(Task("wait", u))'
  BY <1>1, TaskFacts DEF Awaited, PoolTypeOK
<1>8. TasksInv' /\ tasks' \in Seq(Tasks)
  BY <1>1, <1>6, <1>7, TaskFacts, TaskMade
<1>9. PoolTypeOK'
  BY <1>1, <1>3, <1>8 DEF PoolTypeOK
<1> QED BY <1>1, <1>5, <1>8, <1>9

\* A response has come, and the task that waits for it ends.
LEMMA WaitDoneInv ==
  ASSUME PoolInv, NEW u \in Users, WaitDone(u), UNCHANGED <<sync, poolSize>>
  PROVE  PoolInv'
<1> USE DEF PoolInv
<1>1. PICK x \in {"written", "idle"} :
        /\ place[u] = (IF x = "written" THEN "writing" ELSE "unlocking")
        /\ place' = [place EXCEPT ![u] = x]
  BY DEF WaitDone, Move
<1>2. /\ Task("wait", u) \in running /\ running' = running \ {Task("wait", u)}
      /\ tasks' = tasks /\ lockQueue' = lockQueue
  BY DEF WaitDone
<1>3. Asked(u) => place[u] # "unlocking"
  BY DEF Asked, AskedInv
<1>4. x = "written" => HasLock(u)
  BY <1>1 DEF AskedInv
<1>5. AskedInv' /\ \A v \in Users \ {u} : Asked(v)' => Asked(v)
  BY <1>1, <1>2, <1>3, <1>4, QueueSame
<1>6. \A task \in running' : task.user # u
  BY <1>1, <1>2, TaskFacts DEF TasksInv, Awaited, PoolTypeOK
<1>7. \A i \in 1 .. Len(tasks) : tasks[i].user # u
  <2> SUFFICES ASSUME NEW i \in 1 .. Len(tasks), tasks[i].user = u PROVE FALSE
    OBVIOUS
  <2>1. NotBegun(tasks[i]) /\ tasks[i] \in Tasks
    BY DEF TasksInv, PoolTypeOK
  <2> QED BY <1>1, <1>2, <2>1, TaskFacts DEF NotBegun, Awaited
<1>8. TasksInv'
  BY <1>1, <1>2, <1>5, <1>6, <1>7, TaskEnds
<1>9. IsFiniteSet(running') /\ Cardinality(running') <= Cardinality(running)
  BY <1>2, FS_Subset
<1>10. PoolTypeOK'
  <2>1. /\ Cardinality(running) \in Nat /\ Cardinality(running') \in Nat
        /\ Cardinality(Users) \in Nat
    BY <1>9, UsersFinite, FS_CardinalityType
  <2> QED BY <1>1, <1>2, <1>9, <2>1 DEF PoolTypeOK
<1> QED BY <1>5, <1>8, <1>9, <1>10

\* Users ask for the lock once and in order, and no more than one task of each is
\* in the pool, for any number of users, with sync and without.
THEOREM PoolInvariance == PoolSpec => []PoolInv
<1>1. PoolInit => PoolInv
  BY PoolInitInv
<1>2. PoolInv /\ [PoolNext]_poolVars => PoolInv'
  <2> SUFFICES ASSUME PoolInv, [PoolNext]_poolVars PROVE PoolInv'
    OBVIOUS
  <2>1. CASE StartTask /\ UNCHANGED <<sync, poolSize>>
    BY <2>1, StartTaskInv
  <2>2. ASSUME NEW u \in Users, CallLock(u) \/ UserStep(u), UNCHANGED <<sync, poolSize>>
        PROVE  PoolInv'
    BY <2>2, CallLockInv, LockDoneInv, CallPutInv, CallUnlockInv, WaitDoneInv DEF UserStep
  <2>3. CASE UNCHANGED poolVars
    BY <2>3 DEF poolVars, PoolInv, PoolTypeOK, AskedInv, HasLock, TasksInv, NotBegun, Awaited, Asked
  <2> QED BY <2>1, <2>2, <2>3 DEF PoolNext
<1> QED BY <1>1, <1>2, PTL DEF PoolSpec

\* Every variable keeps its type: in particular no more tasks run than the pool
\* has threads.
THEOREM PoolTypeCorrect == PoolSpec => []PoolTypeOK
<1>1. PoolInv => PoolTypeOK
  BY DEF PoolInv
<1> QED BY <1>1, PoolInvariance, PTL

\* With sync a pool of one thread, and otherwise one with a thread for each user,
\* is never full of tasks that wait for the lock while its holder waits for a
\* response: if no thread waits for a response, the tasks that run belong to
\* other users, one each.
THEOREM PoolNotExhaustedHolds == PoolSpec => []PoolNotExhausted
<1>1. PoolInv => PoolNotExhausted
  <2> SUFFICES ASSUME PoolInv, NEW u \in Users, HasLock(u), place[u] = "writing",
                      \A task \in running : task.kind # "wait"
               PROVE  Cardinality(running) < poolSize
    BY DEF PoolNotExhausted
  <2> USE DEF PoolInv
  <2>1. \A task \in running : ~sync /\ task \in Tasks /\ place[task.user] = "locking"
    BY TaskFacts DEF TasksInv, Awaited, PoolTypeOK
  <2>2. CASE sync
    <3>1. running = {}
      BY <2>1, <2>2
    <3> QED BY <2>2, <3>1, FS_EmptySet
  <2>3. CASE ~sync
    <3> DEFINE others == Users \ {u}
               userOf == [task \in running |-> task.user]
    <3>1. userOf \in [running -> others]
      BY <2>1, TaskFacts
    <3>2. \A t1, t2 \in running : userOf[t1] = userOf[t2] => t1 = t2
      BY <2>1, TaskFacts
    <3>3. userOf \in Injection(running, others)
      <4> HIDE DEF userOf
      <4> QED BY <3>1, <3>2 DEF Injection, IsInjective
    <3>4. /\ IsFiniteSet(others) /\ Cardinality(others) = Cardinality(Users) - 1
          /\ Cardinality(Users) \in Nat
      BY UsersFinite, FS_RemoveElement, FS_CardinalityType
    <3> HIDE DEF userOf, others
    <3>5. Cardinality(running) <= Cardinality(others)
      BY <3>3, <3>4, FS_Injection
    <3>6. Cardinality(running) \in Nat
      BY FS_CardinalityType
    <3> QED BY <2>3, <3>4, <3>5, <3>6
  <2> QED BY <2>2, <2>3
<1> QED BY <1>1, PoolInvariance, PTL
=============================================================================
