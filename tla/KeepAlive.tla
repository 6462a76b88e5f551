------------------------------ MODULE KeepAlive ------------------------------
(***************************************************************************)
(* Class KeepAlive (src/KeepAlive.cpp): a background thread refreshes a    *)
(* lease until the object is cancelled or a refresh fails, while other     *)
(* threads call Check() and Cancel() (the destructor is a Cancel()).       *)
(* Threads share the flag continue_next, the mutex mutex_for_refresh_, the *)
(* condition variable cv_for_refresh_, the recorded exception eptr_ and    *)
(* the keep-alive stream, which is used through KeepAliveCall.             *)
(*                                                                         *)
(* One action is one step of one thread, between two accesses to shared    *)
(* state; taking the mutex is merged with the read that follows it.  Reads *)
(* and writes of eptr_, unsynchronised in the code, are atomic here.       *)
(***************************************************************************)
CONSTANTS
  Users,       \* threads that call Check() and Cancel()
  Refresher,   \* the thread refresh_task_
  NoThread,    \* the holder of a free mutex
  HasHandler   \* the object was built with a handler

ASSUME ThreadsDistinct == /\ Refresher \notin Users
                          /\ NoThread \notin Users
                          /\ NoThread # Refresher
ASSUME HasHandlerIsBoolean == HasHandler \in BOOLEAN

VARIABLES
  op, isCancelled, failed, result,  \* the keep-alive stream: see KeepAliveCall
  pc,             \* where each thread is
  inCheck,        \* users whose Check() has caught an exception
  continue_next,  \* KeepAlive::continue_next
  mutex,          \* the holder of mutex_for_refresh_
  notified,       \* notify_all has reached the waiting refresher
  eptr,           \* eptr_ is set
  handledIn,      \* history: threads in which handler_ has run
  stopped,        \* history: the Cancel() that won the exchange has returned
  outcome,        \* history: how each user's last Check() ended
  failedBefore    \* history: a refresh had failed when that Check() began

Call == INSTANCE KeepAliveCall
          WITH op <- op, isCancelled <- isCancelled, failed <- failed, result <- result

callVars == <<op, isCancelled, failed, result>>
histVars == <<handledIn, stopped, outcome, failedBefore>>
vars == <<callVars, pc, inCheck, continue_next, mutex, notified, eptr, histVars>>

Threads == Users \cup {Refresher}

\* Program points.  A user between calls is at "idle".  refresh_once() goes
\* from "once" to "refreshing", Cancel() from "cancel" to "cancelling".
UserPoints == {"idle", "once", "refresh", "refreshing", "set", "report",
               "cancel", "notify", "join", "lock", "stream", "cancelling"}
TaskPoints == {"create", "loop", "wait", "waiting", "once", "refresh",
               "refreshing", "throw", "exit", "done"}

TypeOK ==
  /\ Call!CallTypeOK
  /\ pc \in [Threads -> UserPoints \cup TaskPoints]
  /\ \A u \in Users : pc[u] \in UserPoints
  /\ pc[Refresher] \in TaskPoints
  /\ inCheck \in SUBSET Users
  /\ continue_next \in BOOLEAN
  /\ mutex \in Threads \cup {NoThread}
  /\ notified \in BOOLEAN
  /\ eptr \in BOOLEAN
  /\ handledIn \in SUBSET Threads
  /\ stopped \in BOOLEAN
  /\ outcome \in [Users -> {"none", "returned", "threw"}]
  /\ failedBefore \in [Users -> BOOLEAN]

Init ==
  /\ Call!CallInit
  /\ pc = [t \in Threads |-> IF t = Refresher THEN "create" ELSE "idle"]
  /\ inCheck = {}
  /\ continue_next = TRUE
  /\ mutex = NoThread
  /\ notified = FALSE
  /\ eptr = FALSE
  /\ handledIn = {}
  /\ stopped = FALSE
  /\ outcome = [u \in Users |-> "none"]
  /\ failedBefore = [u \in Users |-> FALSE]

\* Thread t moves from one program point to another.
Goto(t, from, to) == pc[t] = from /\ pc' = [pc EXCEPT ![t] = to]

----------------------------------------------------------------------------
(* The constructor and the background thread. *)

\* The constructor has granted the lease and opens the stream, then starts
\* the thread.  A lease that could not be granted (id 0) answers refreshes
\* the way an expired one does.
Create ==
  /\ Goto(Refresher, "create", "loop")
  /\ Call!CreateEnd
  /\ UNCHANGED <<inCheck, continue_next, mutex, notified, eptr, histVars>>

\* refresh(): the head of the loop.
Loop ==
  /\ Goto(Refresher, "loop", IF continue_next THEN "wait" ELSE "exit")
  /\ UNCHANGED <<callVars, inCheck, continue_next, mutex, notified, eptr, histVars>>

\* wait_for() begins: the mutex is taken and released again.
StartWait ==
  /\ Goto(Refresher, "wait", "waiting")
  /\ mutex = NoThread
  /\ notified' = FALSE
  /\ UNCHANGED <<callVars, inCheck, continue_next, mutex, eptr, histVars>>

\* Mutant: wait() instead of wait_for().
WaitForever == FALSE

\* Mutant: a timeout is taken for the end of an idle period.
TimeoutSkipsRefresh ==
  /\ Goto(Refresher, "waiting", "loop")
  /\ mutex = NoThread
  /\ UNCHANGED <<callVars, inCheck, continue_next, mutex, notified, eptr, histVars>>

\* wait_for() returns cv_status::timeout after max(ttl - 1, 1) seconds.
WakeTimeout ==
  /\ Goto(Refresher, "waiting", "once")
  /\ mutex = NoThread
  /\ UNCHANGED <<callVars, inCheck, continue_next, mutex, notified, eptr, histVars>>

\* wait_for() returns no_timeout: notified, or woken spuriously.
WakeNotified ==
  /\ Goto(Refresher, "waiting", IF continue_next THEN "once" ELSE "exit")
  /\ mutex = NoThread
  /\ UNCHANGED <<callVars, inCheck, continue_next, mutex, notified, eptr, histVars>>

\* Mutant: the exception is swallowed.
CatchAndForget ==
  /\ Goto(Refresher, "throw", "exit")
  /\ UNCHANGED <<callVars, inCheck, continue_next, mutex, notified, eptr, histVars>>

\* The thread catches the exception of a failed refresh.
Catch ==
  /\ Goto(Refresher, "throw", "exit")
  /\ eptr' = TRUE
  /\ UNCHANGED <<callVars, inCheck, continue_next, mutex, notified, histVars>>

\* handler_(eptr_), when there is an exception and a handler.
HandleIn(t) ==
  handledIn' = IF eptr /\ HasHandler THEN handledIn \cup {t} ELSE handledIn

\* The thread hands the exception to the handler and ends.
Exit ==
  /\ Goto(Refresher, "exit", "done")
  /\ HandleIn(Refresher)
  /\ UNCHANGED <<callVars, inCheck, continue_next, mutex, notified, eptr,
                 stopped, outcome, failedBefore>>

----------------------------------------------------------------------------
(* refresh_once(), run by the background thread and by Check(). *)

AfterOnce(t) == IF t = Refresher THEN "loop" ELSE "report"

\* Mutant: refresh_once() without its scope_lock.
OnceWithoutMutex(t) ==
  /\ Goto(t, "once", IF continue_next THEN "refresh" ELSE AfterOnce(t))
  /\ UNCHANGED <<callVars, inCheck, continue_next, mutex, notified, eptr, histVars>>

\* The mutex is taken and continue_next read; a cancelled object is left alone.
LockOnce(t) ==
  /\ mutex = NoThread
  /\ Goto(t, "once", IF continue_next THEN "refresh" ELSE AfterOnce(t))
  /\ mutex' = IF continue_next THEN t ELSE NoThread
  /\ UNCHANGED <<callVars, inCheck, continue_next, notified, eptr, histVars>>

BeginRefresh(t) ==
  /\ Goto(t, "refresh", "refreshing")
  /\ Call!RefreshBegin
  /\ UNCHANGED <<inCheck, continue_next, mutex, notified, eptr, histVars>>

\* Mutant: a TTL of 0 is not looked at.
EndRefreshAnyTTL(t, r) ==
  /\ Goto(t, "refreshing", IF r # "error" THEN AfterOnce(t)
                           ELSE IF t = Refresher THEN "throw" ELSE "cancel")
  /\ Call!RefreshEnd(r)
  /\ inCheck' = IF r = "error" /\ t # Refresher THEN inCheck \cup {t} ELSE inCheck
  /\ mutex' = NoThread
  /\ UNCHANGED <<continue_next, notified, eptr, histVars>>

\* Refresh() has returned r.  A failure is thrown; in Check() it is caught,
\* and Cancel() is called.
EndRefresh(t, r) ==
  /\ Goto(t, "refreshing", IF r = "ok" THEN AfterOnce(t)
                           ELSE IF t = Refresher THEN "throw" ELSE "cancel")
  /\ Call!RefreshEnd(r)
  /\ inCheck' = IF r # "ok" /\ t # Refresher THEN inCheck \cup {t} ELSE inCheck
  /\ mutex' = NoThread
  /\ UNCHANGED <<continue_next, notified, eptr, histVars>>

\* The stream closes during an operation on it.
StreamCloses ==
  /\ Call!CloseStream
  /\ UNCHANGED <<pc, inCheck, continue_next, mutex, notified, eptr, histVars>>

----------------------------------------------------------------------------
(* Check() *)

\* An exception already recorded is rethrown; otherwise the lease is refreshed.
CallCheck(u) ==
  /\ op # "create"
  /\ Goto(u, "idle", IF eptr THEN "idle" ELSE "once")
  /\ outcome' = [outcome EXCEPT ![u] = IF eptr THEN "threw" ELSE "none"]
  /\ failedBefore' = [failedBefore EXCEPT ![u] = failed]
  /\ UNCHANGED <<callVars, inCheck, continue_next, mutex, notified, eptr,
                 handledIn, stopped>>

\* Cancel() has returned to Check(), which records the exception.
SetException(u) ==
  /\ Goto(u, "set", "report")
  /\ eptr' = TRUE
  /\ inCheck' = inCheck \ {u}
  /\ UNCHANGED <<callVars, continue_next, mutex, notified, histVars>>

\* The handler is called and the exception rethrown, if there is one by now.
Report(u) ==
  /\ Goto(u, "report", "idle")
  /\ HandleIn(u)
  /\ outcome' = [outcome EXCEPT ![u] = IF eptr THEN "threw" ELSE "returned"]
  /\ UNCHANGED <<callVars, inCheck, continue_next, mutex, notified, eptr,
                 stopped, failedBefore>>

----------------------------------------------------------------------------
(* Cancel() *)

CallCancel(u) ==
  /\ op # "create"
  /\ Goto(u, "idle", "cancel")
  /\ UNCHANGED <<callVars, inCheck, continue_next, mutex, notified, eptr, histVars>>

AfterCancel(u) == IF u \in inCheck THEN "set" ELSE "idle"

\* Only the caller that finds continue_next set goes on; the others return.
Exchange(u) ==
  /\ Goto(u, "cancel", IF continue_next THEN "notify" ELSE AfterCancel(u))
  /\ continue_next' = FALSE
  /\ UNCHANGED <<callVars, inCheck, mutex, notified, eptr, histVars>>

\* notify_all(), without the mutex: lost unless the refresher is waiting.
Notify(u) ==
  /\ Goto(u, "notify", "join")
  /\ notified' = (pc[Refresher] = "waiting")
  /\ UNCHANGED <<callVars, inCheck, continue_next, mutex, eptr, histVars>>

\* Mutant: the thread is detached.
Detach(u) ==
  /\ Goto(u, "join", "lock")
  /\ UNCHANGED <<callVars, inCheck, continue_next, mutex, notified, eptr, histVars>>

\* refresh_task_.join()
Join(u) ==
  /\ pc[Refresher] = "done"
  /\ Goto(u, "join", "lock")
  /\ UNCHANGED <<callVars, inCheck, continue_next, mutex, notified, eptr, histVars>>

LockCancel(u) ==
  /\ mutex = NoThread
  /\ Goto(u, "lock", "stream")
  /\ mutex' = u
  /\ UNCHANGED <<callVars, inCheck, continue_next, notified, eptr, histVars>>

BeginCancel(u) ==
  /\ Goto(u, "stream", "cancelling")
  /\ Call!CancelBegin
  /\ UNCHANGED <<inCheck, continue_next, mutex, notified, eptr, histVars>>

EndCancel(u) ==
  /\ Goto(u, "cancelling", AfterCancel(u))
  /\ Call!CancelEnd
  /\ mutex' = NoThread
  /\ stopped' = TRUE
  /\ UNCHANGED <<inCheck, continue_next, notified, eptr, handledIn, outcome, failedBefore>>

----------------------------------------------------------------------------
RefreshOnce(t) ==
  LockOnce(t) \/ BeginRefresh(t) \/ \E r \in Call!Results : EndRefresh(t, r)

RefresherStep ==
  \/ Create \/ Loop \/ StartWait \/ WakeTimeout
  \/ RefreshOnce(Refresher)
  \/ Catch \/ Exit

CancelStep(u) ==
  \/ Exchange(u) \/ Notify(u) \/ Join(u)
  \/ LockCancel(u) \/ BeginCancel(u) \/ EndCancel(u)

UserStep(u) == RefreshOnce(u) \/ SetException(u) \/ Report(u) \/ CancelStep(u)

Next ==
  \/ RefresherStep \/ WakeNotified
  \/ \E u \in Users : CallCheck(u) \/ CallCancel(u) \/ UserStep(u)
  \/ StreamCloses

Spec == Init /\ [][Next]_vars

\* Every thread inside the class is scheduled, time passes, and an operation
\* on the stream ends (AsyncLeaseKeepAlive!OperationReturns).  Nothing relies
\* on spurious wakeups.  The mutex need not be fair, and nobody has to call
\* Check() or Cancel().
FairSpec ==
  /\ Spec
  /\ WF_vars(RefresherStep \/ (WakeNotified /\ notified))
  /\ \A u \in Users : WF_vars(UserStep(u))
  /\ WF_vars(StreamCloses /\ op = "cancel")

----------------------------------------------------------------------------
(* Properties. *)

\* A thread about to use the stream finds it idle: mutex_for_refresh_ is
\* enough to keep Refresh() and CancelKeepAlive() of all threads apart, as
\* the stream, its completion queue and its tags require.
StreamIsFree == \A t \in Threads : pc[t] \in {"refresh", "stream"} => op = "idle"

\* Once the Cancel() that stopped the object has returned, the background
\* thread has ended, the stream is closed, and no thread refreshes the lease
\* again, not even a Check() that had begun before the Cancel().
CancelStops ==
  stopped => /\ pc[Refresher] = "done"
             /\ isCancelled
             /\ op # "refresh"
             /\ \A t \in Threads : pc[t] \notin {"refresh", "refreshing"}

\* The background thread never ends silently: if nobody has cancelled, its
\* failure is recorded for Check() and has been given to the handler.
NoSilentDeath ==
  (pc[Refresher] = "done" /\ continue_next) =>
     eptr /\ (HasHandler => Refresher \in handledIn)

\* README.md line 870: Check() rethrows when keeping the lease alive has failed.
\* A Check() that begins after a refresh has failed, in whichever thread, returns
\* only when a Cancel() has begun; that of another thread's failing Check()
\* counts, for it is called before eptr_ is set (lines 171 and 175).
CheckRethrows ==
  \A u \in Users : (outcome[u] = "returned" /\ failedBefore[u]) => ~continue_next

\* Cancel() always returns, although its notification can be lost between the
\* refresher's test of continue_next and its wait.
CancelReturns == \A u \in Users : pc[u] = "cancel" ~> pc[u] = "idle"

\* The lease is refreshed again and again until the background thread ends.
KeepsRefreshing == []<>(op = "refresh" \/ pc[Refresher] = "done")
=============================================================================
