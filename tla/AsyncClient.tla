---------------------------- MODULE AsyncClient ----------------------------
(***************************************************************************)
(* Class Client (src/Client.cpp): a request is sent by the calling thread, *)
(* and a task of the pplx thread pool waits for its response; a lock() is  *)
(* a task as a whole, unless it is called with sync.  Users take a lock,   *)
(* write a key while they hold it, and release it, waiting for each task   *)
(* (pplx::task::get()).  The pool has a fixed number of threads.           *)
(*                                                                         *)
(* External: the pool, which starts tasks in order, and etcd, which gives  *)
(* a lock in the order of the requests.                                    *)
(***************************************************************************)
EXTENDS Naturals, Sequences, FiniteSets

CONSTANT Users   \* threads that use the client

ASSUME UsersFinite == IsFiniteSet(Users)

VARIABLES
  sync,       \* users call lock(key, sync): they wait for the lock themselves
  poolSize,   \* threads of the pool
  place,      \* where each user is
  tasks,      \* pool: tasks that no thread has taken yet
  running,    \* pool: tasks that occupy a thread
  lockQueue   \* etcd: lock requests; the first one has the lock

poolVars == <<sync, poolSize, place, tasks, running, lockQueue>>

\* A task executes lock(), or waits for the response to a request sent.
Tasks == [kind : {"lock", "wait"}, user : Users]
Task(kind, u) == [kind |-> kind, user |-> u]

PoolTypeOK ==
  /\ sync \in BOOLEAN
  /\ poolSize \in {1, Cardinality(Users)}
  /\ place \in [Users -> {"idle", "locking", "inside", "writing", "written", "unlocking"}]
  /\ tasks \in Seq(Tasks)
  /\ running \in SUBSET Tasks /\ Cardinality(running) <= poolSize
  /\ lockQueue \in Seq(Users)

\* A pool of one thread will do for those that wait themselves; otherwise there
\* must be a thread for every user.
PoolInit ==
  /\ sync \in BOOLEAN
  /\ poolSize = IF sync THEN 1 ELSE Cardinality(Users)
  /\ place = [u \in Users |-> "idle"]
  /\ tasks = <<>> /\ running = {}
  /\ lockQueue = <<>>

Move(u, from, to) == place[u] = from /\ place' = [place EXCEPT ![u] = to]
HasLock(u) == lockQueue # <<>> /\ Head(lockQueue) = u

\* asyncify: the request has been sent; a task waits for the response.
Asyncify(u) == tasks' = Append(tasks, Task("wait", u))

\* Mutant: sync is ignored.
CallLockInPool(u) ==
  /\ Move(u, "idle", "locking")
  /\ tasks' = Append(tasks, Task("lock", u))
  /\ UNCHANGED <<running, lockQueue>>

CallLock(u) ==
  /\ Move(u, "idle", "locking")
  /\ IF sync
     THEN lockQueue' = Append(lockQueue, u) /\ UNCHANGED tasks
     ELSE tasks' = Append(tasks, Task("lock", u)) /\ UNCHANGED lockQueue
  /\ UNCHANGED running

\* A free thread of the pool takes the next task.
StartTask ==
  /\ tasks # <<>> /\ Cardinality(running) < poolSize
  /\ tasks' = Tail(tasks)
  /\ running' = running \cup {Head(tasks)}
  /\ lockQueue' = IF Head(tasks).kind = "lock"
                  THEN Append(lockQueue, Head(tasks).user) ELSE lockQueue
  /\ UNCHANGED place

\* Mutant: the thread that waited for the lock is not given back.
LockKeepsThread(u) ==
  /\ HasLock(u)
  /\ Move(u, "locking", "inside")
  /\ UNCHANGED <<tasks, running, lockQueue>>

\* etcd has given the lock: lock() returns, and frees its thread.
LockDone(u) ==
  /\ HasLock(u)
  /\ Move(u, "locking", "inside")
  /\ running' = running \ {Task("lock", u)}
  /\ UNCHANGED <<tasks, lockQueue>>

CallPut(u) ==
  /\ Move(u, "inside", "writing")
  /\ Asyncify(u)
  /\ UNCHANGED <<running, lockQueue>>

\* unlock_internal() is executed by the caller: the lock is released, and its
\* lease revoked, before the task is made.
CallUnlock(u) ==
  /\ Move(u, "written", "unlocking")
  /\ lockQueue' = Tail(lockQueue)
  /\ Asyncify(u)
  /\ UNCHANGED running

\* etcd has answered, and the task that waits for it ends.
WaitDone(u) ==
  /\ Task("wait", u) \in running
  /\ Move(u, "writing", "written") \/ Move(u, "unlocking", "idle")
  /\ running' = running \ {Task("wait", u)}
  /\ UNCHANGED <<tasks, lockQueue>>

UserStep(u) == LockDone(u) \/ CallPut(u) \/ WaitDone(u) \/ CallUnlock(u)

PoolNext ==
  /\ StartTask \/ \E u \in Users : CallLock(u) \/ UserStep(u)
  /\ UNCHANGED <<sync, poolSize>>

PoolSpec == PoolInit /\ [][PoolNext]_poolVars

\* Threads run, etcd answers, and a user that has the lock goes on.
PoolFairSpec ==
  /\ PoolSpec
  /\ WF_poolVars(StartTask /\ UNCHANGED <<sync, poolSize>>)
  /\ \A u \in Users : WF_poolVars(UserStep(u) /\ UNCHANGED <<sync, poolSize>>)

----------------------------------------------------------------------------
(* Properties. *)

\* The pool is not exhausted by those who wait for a lock (Client.hpp line
\* 661): while the holder of the lock waits for a response, some thread is
\* free, or busy with a task that ends without the lock.
PoolNotExhausted ==
  \A u \in Users : (HasLock(u) /\ place[u] = "writing") =>
    \/ Cardinality(running) < poolSize
    \/ \E task \in running : task.kind = "wait"

\* Every lock() returns, and so do the calls of the thread that has the lock.
CallsReturn == \A u \in Users : place[u] = "locking" ~> place[u] = "idle"
=============================================================================
