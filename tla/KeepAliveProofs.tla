-------------------------- MODULE KeepAliveProofs --------------------------
(***************************************************************************)
(* Proofs about the two sides of class KeepAlive.  Its threads             *)
(* (KeepAlive), for any set of users: they keep apart on the stream, a     *)
(* Cancel() that has returned has stopped the object for good, the         *)
(* background thread never ends silently, and a failure is rethrown by the *)
(* Check() calls that follow it.  Its clock (LeaseTimer), for every ttl,   *)
(* resolution, delay of messages and slack of the scheduler that meet the  *)
(* assumptions of that module: the lease does not expire while the object  *)
(* runs, and a lost lease is noticed.                                      *)
(***************************************************************************)
EXTENDS KeepAlive, LeaseTimer, TLAPS

\* The mutex is held exactly from taking it to leaving the stream.
MutexInv ==
  \A t \in Threads :
     mutex = t <=> pc[t] \in {"refresh", "refreshing", "stream", "cancelling"}

\* An operation on the stream belongs to a thread that is inside it.
OpInv ==
  /\ op = "create" <=> pc[Refresher] = "create"
  /\ op = "refresh" => mutex \in Threads /\ pc[mutex] = "refreshing"
  /\ op = "cancel" => mutex \in Threads /\ pc[mutex] = "cancelling"
  /\ \A t \in Threads : pc[t] = "refreshing" => op = "refresh"
  /\ \A t \in Threads : pc[t] = "cancelling" => op = "cancel"

\* Users wait for the constructor.
CreateInv == pc[Refresher] = "create" => \A u \in Users : pc[u] = "idle"

\* The winner of the exchange in Cancel(), until it returns.
Stopping(u) == pc[u] \in {"notify", "join", "lock", "stream", "cancelling"}

WinnerInv ==
  /\ \A u \in Users : Stopping(u) => ~continue_next /\ ~stopped
  /\ \A u, v \in Users : Stopping(u) /\ Stopping(v) => u = v
  /\ \A u \in Users : pc[u] \in {"lock", "stream", "cancelling"} => pc[Refresher] = "done"

StoppedInv == CancelStops /\ (stopped => ~continue_next)

ExitInv ==
  /\ (pc[Refresher] = "exit" /\ continue_next) => eptr
  /\ NoSilentDeath

Inv == /\ TypeOK
       /\ MutexInv
       /\ OpInv
       /\ CreateInv
       /\ WinnerInv
       /\ StoppedInv
       /\ ExitInv

----------------------------------------------------------------------------
\* The inductive invariant holds when the constructor starts.
LEMMA InitInv == Init => Inv
BY ThreadsDistinct
   DEF Init, Inv, TypeOK, MutexInv, OpInv, CreateInv, WinnerInv, StoppedInv, ExitInv,
       Stopping, CancelStops, NoSilentDeath, Threads, UserPoints, TaskPoints,
       Call!CallInit, Call!CallTypeOK

\* Every step preserves the inductive invariant.
LEMMA InvStep ==
  ASSUME Inv, [Next]_vars
  PROVE  Inv'
<1> USE ThreadsDistinct
    DEF Inv, TypeOK, MutexInv, OpInv, CreateInv, WinnerInv, StoppedInv, ExitInv,
        Stopping, CancelStops, NoSilentDeath, Threads, UserPoints, TaskPoints,
        Call!CallTypeOK, Call!Results, Call!Failures, callVars, histVars, Goto
<1>1. CASE Create
  BY <1>1 DEF Create, Call!CreateEnd
<1>2. CASE Loop
  BY <1>2 DEF Loop
<1>3. CASE StartWait
  BY <1>3 DEF StartWait
<1>4. CASE WakeTimeout
  BY <1>4 DEF WakeTimeout
<1>5. CASE WakeNotified
  BY <1>5 DEF WakeNotified
<1>6. CASE Catch
  BY <1>6 DEF Catch
<1>7. CASE Exit
  BY <1>7 DEF Exit, HandleIn
<1>8. ASSUME NEW t \in Threads, LockOnce(t) PROVE Inv'
  BY <1>8 DEF LockOnce, AfterOnce
<1>9. ASSUME NEW t \in Threads, BeginRefresh(t) PROVE Inv'
  BY <1>9 DEF BeginRefresh, Call!RefreshBegin
<1>10. ASSUME NEW t \in Threads, NEW r \in Call!Results, EndRefresh(t, r)
      PROVE  Inv'
  <2>1. TypeOK'
    BY <1>10 DEF EndRefresh, AfterOnce, Call!RefreshEnd
  <2>2. MutexInv' /\ OpInv' /\ CreateInv'
    BY <1>10 DEF EndRefresh, AfterOnce, Call!RefreshEnd
  <2>3. WinnerInv' /\ StoppedInv' /\ ExitInv'
    BY <1>10 DEF EndRefresh, AfterOnce, Call!RefreshEnd
  <2>4. QED
    BY <2>1, <2>2, <2>3
<1>11. CASE StreamCloses
  BY <1>11 DEF StreamCloses, Call!CloseStream
<1>12. ASSUME NEW u \in Users, CallCheck(u) PROVE Inv'
  BY <1>12 DEF CallCheck
<1>13. ASSUME NEW u \in Users, CallCancel(u) PROVE Inv'
  BY <1>13 DEF CallCancel
<1>14. ASSUME NEW u \in Users, SetException(u) PROVE Inv'
  BY <1>14 DEF SetException
<1>15. ASSUME NEW u \in Users, Report(u) PROVE Inv'
  BY <1>15 DEF Report, HandleIn
<1>16. ASSUME NEW u \in Users, Exchange(u) PROVE Inv'
  <2>1. TypeOK' /\ MutexInv' /\ OpInv' /\ CreateInv'
    BY <1>16 DEF Exchange, AfterCancel
  <2>2. WinnerInv' /\ StoppedInv' /\ ExitInv'
    BY <1>16 DEF Exchange, AfterCancel
  <2>3. QED
    BY <2>1, <2>2
<1>17. ASSUME NEW u \in Users, Notify(u) PROVE Inv'
  BY <1>17 DEF Notify
<1>18. ASSUME NEW u \in Users, Join(u) PROVE Inv'
  BY <1>18 DEF Join
<1>19. ASSUME NEW u \in Users, LockCancel(u) PROVE Inv'
  BY <1>19 DEF LockCancel
<1>20. ASSUME NEW u \in Users, BeginCancel(u) PROVE Inv'
  BY <1>20 DEF BeginCancel, Call!CancelBegin
<1>21. ASSUME NEW u \in Users, EndCancel(u) PROVE Inv'
  BY <1>21 DEF EndCancel, AfterCancel, Call!CancelEnd
<1>22. CASE UNCHANGED vars
  BY <1>22 DEF vars
<1>23. QED
  BY <1>1, <1>2, <1>3, <1>4, <1>5, <1>6, <1>7, <1>8, <1>9, <1>10, <1>11,
     <1>12, <1>13, <1>14, <1>15, <1>16, <1>17, <1>18, <1>19, <1>20, <1>21,
     <1>22
     DEF Next, RefresherStep, RefreshOnce, UserStep, CancelStep

\* The inductive invariant holds in every reachable state.
THEOREM Invariance == Spec => []Inv
<1>1. Inv /\ [Next]_vars => Inv'
  BY InvStep
<1>2. QED
  BY InitInv, <1>1, PTL DEF Spec

\* Variables keep their types, whatever the number of user threads.
THEOREM TypeCorrect == Spec => []TypeOK
<1>1. Inv => TypeOK
  BY DEF Inv
<1>2. QED
  BY <1>1, Invariance, PTL

\* mutex_for_refresh_ keeps the threads' operations on the stream apart.  The
\* holder of the mutex is the only thread inside the stream, so a thread that
\* has just taken it finds no operation in progress; and no thread gets there
\* before the constructor is done.
THEOREM StreamIsFreeHolds == Spec => []StreamIsFree
<1>1. Inv => StreamIsFree
  <2>1. SUFFICES ASSUME Inv, NEW t \in Threads, pc[t] \in {"refresh", "stream"}
                 PROVE  op = "idle"
    BY DEF StreamIsFree
  <2>2. op # "create"
    BY <2>1 DEF Inv, TypeOK, OpInv, CreateInv, Threads, TaskPoints
  <2>3. mutex = t /\ op \notin {"refresh", "cancel"}
    BY <2>1 DEF Inv, MutexInv, OpInv
  <2>4. QED
    BY <2>1, <2>2, <2>3 DEF Inv, TypeOK, Call!CallTypeOK
<1>2. QED
  BY <1>1, Invariance, PTL

\* A Cancel() that has won the exchange and returned has stopped the object:
\* the background thread has ended and no thread refreshes the lease again.
THEOREM CancelStopsHolds == Spec => []CancelStops
<1>1. Inv => CancelStops
  BY DEF Inv, StoppedInv
<1>2. QED
  BY <1>1, Invariance, PTL

\* Unless somebody cancelled, the background thread ends only with its failure
\* recorded in eptr_ and given to the handler.
THEOREM NoSilentDeathHolds == Spec => []NoSilentDeath
<1>1. Inv => NoSilentDeath
  BY DEF Inv, ExitInv
<1>2. QED
  BY <1>1, Invariance, PTL

----------------------------------------------------------------------------
(* Check() rethrows. *)

\* A failure is never forgotten; and a Check() that began after one and is about
\* to report without an exception has seen that the object is being cancelled.
RethrowInv ==
  /\ \A u \in Users : failedBefore[u] = TRUE => failed = TRUE
  /\ \A u \in Users :
       (pc[u] = "report" /\ failedBefore[u] = TRUE /\ eptr = FALSE) => continue_next = FALSE
  /\ CheckRethrows

\* Every step keeps what a Check() that began after a failure relies on.
LEMMA RethrowStep ==
  ASSUME TypeOK, RethrowInv, [Next]_vars
  PROVE  RethrowInv'
<1> USE ThreadsDistinct
    DEF TypeOK, RethrowInv, CheckRethrows, Threads, callVars, histVars, Goto, Call!CallTypeOK
<1>1. CASE Create
  BY <1>1 DEF Create, Call!CreateEnd
<1>2. CASE Loop \/ StartWait \/ WakeTimeout \/ WakeNotified
  BY <1>2 DEF Loop, StartWait, WakeTimeout, WakeNotified
<1>3. CASE Catch \/ Exit
  BY <1>3 DEF Catch, Exit
<1>4. ASSUME NEW t \in Threads, LockOnce(t) PROVE RethrowInv'
  BY <1>4 DEF LockOnce, AfterOnce
<1>5. ASSUME NEW t \in Threads, BeginRefresh(t) PROVE RethrowInv'
  BY <1>5 DEF BeginRefresh, Call!RefreshBegin
<1>6. ASSUME NEW t \in Threads, NEW r \in Call!Results, EndRefresh(t, r)
      PROVE  RethrowInv'
  <2>1. failed = TRUE => failed' = TRUE /\ r # "ok"
    BY <1>6 DEF EndRefresh, Call!RefreshEnd
  <2>2. \A u \in Users : pc'[u] = "report" => pc[u] = "report" \/ (u = t /\ r = "ok")
    BY <1>6 DEF EndRefresh, AfterOnce
  <2> QED
    BY <1>6, <2>1, <2>2 DEF EndRefresh
<1>7. CASE StreamCloses
  BY <1>7 DEF StreamCloses, Call!CloseStream
<1>8. ASSUME NEW u \in Users, CallCheck(u) PROVE RethrowInv'
  BY <1>8 DEF CallCheck
<1>9. ASSUME NEW u \in Users, SetException(u) PROVE RethrowInv'
  BY <1>9 DEF SetException
<1>10. ASSUME NEW u \in Users, Report(u) PROVE RethrowInv'
  BY <1>10 DEF Report
<1>11. ASSUME NEW u \in Users, CallCancel(u) \/ CancelStep(u) PROVE RethrowInv'
  <2>1. PICK p \in UserPoints \ {"report"} : pc' = [pc EXCEPT ![u] = p]
    BY <1>11 DEF CallCancel, CancelStep, Exchange, Notify, Join, LockCancel, BeginCancel,
       EndCancel, AfterCancel, UserPoints
  <2>2. /\ UNCHANGED <<failed, eptr, outcome, failedBefore>>
        /\ continue_next = FALSE => continue_next' = FALSE
    BY <1>11 DEF CallCancel, CancelStep, Exchange, Notify, Join, LockCancel, BeginCancel,
       EndCancel, Call!CancelBegin, Call!CancelEnd
  <2> QED
    BY <2>1, <2>2
<1>12. CASE UNCHANGED vars
  BY <1>12 DEF vars
<1> QED
  BY <1>1, <1>2, <1>3, <1>4, <1>5, <1>6, <1>7, <1>8, <1>9, <1>10, <1>11, <1>12
     DEF Next, RefresherStep, RefreshOnce, UserStep

\* A Check() that begins after a refresh has failed, in whichever thread, ends
\* with the exception unless a Cancel() has begun: the stream never answers
\* "ok" again, so the only other way to return is that continue_next is unset.
THEOREM CheckRethrowsHolds == Spec => []CheckRethrows
<1>1. Init => RethrowInv
  BY DEF Init, RethrowInv, CheckRethrows, Threads
<1>2. TypeOK /\ RethrowInv /\ [Next]_vars => RethrowInv'
  BY RethrowStep
<1>3. RethrowInv => CheckRethrows
  BY DEF RethrowInv
<1> QED
  BY <1>1, <1>2, <1>3, TypeCorrect, PTL DEF Spec

----------------------------------------------------------------------------
(* The clock. *)

\* Ticks since etcd last renewed a lease that is alive, or since it was lost.
Since == IF alive THEN age ELSE lostFor

\* How long the thread stays at a program point.
TimerInv ==
  /\ thread \in {"grant", "lock", "stopped"} => timer = 0
  /\ thread \in {"granted", "create", "request", "reply"} => timer <= Delay

\* At most one of the thread and Check() has the mutex, and nobody calls
\* Check() during the construction.
CheckInv ==
  /\ ~(InRefresh(thread) /\ InRefresh(check))
  /\ InRefresh(check) => thread \in {"wait", "lock"}
  /\ check # "idle" => thread \notin {"grant", "granted", "create"}

LeaseInv ==
  /\ thread = "grant" => ~alive
  /\ alive \/ thread = "grant" => lostFor = 0
  /\ alive /\ (thread = "reply" \/ check = "reply") => answer

\* The time that has passed since the last renewal, by program point.  A reply
\* with a TTL of 0 comes one message after the latest time of a request.
AgeInv ==
  LET Due == RefreshPeriod + Slack + 2 * Delay
  IN  /\ thread = "granted" => Since <= timer
      /\ thread = "create" => Since <= Delay + timer
      /\ thread = "wait" /\ (check = "reply" => answer) => Since <= 2 * Delay + timer
      /\ thread = "lock" /\ ~InRefresh(check) => Since <= Due
      /\ thread = "lock" /\ check = "request" => Since <= Due + ctimer
      /\ thread \in {"wait", "lock"} /\ check = "reply" /\ answer => Since <= ctimer
      /\ thread \in {"wait", "lock"} /\ check = "reply" /\ ~answer =>
           Since <= Due + Delay + ctimer
      /\ thread = "request" => Since <= Due + timer
      /\ thread = "reply" /\ answer => Since <= timer
      /\ thread = "reply" /\ ~answer => Since <= Due + Delay + timer

ClockInv == TimerTypeOK /\ TimerInv /\ CheckInv /\ LeaseInv /\ AgeInv /\ KeptAlive

----------------------------------------------------------------------------
\* The period and the lifetime are numbers of ticks, and the lifetime is at most
\* two periods.
LEMMA PeriodFacts ==
  /\ RefreshPeriod \in Nat /\ Lifetime \in Nat
  /\ Lifetime <= 2 * RefreshPeriod
<1> DEFINE n == IF TTL - 1 > 1 THEN TTL - 1 ELSE 1
<1>1. n \in Nat /\ TTL <= 2 * n
  BY TimesAreNat
<1>2. \A a, b, c \in Nat : a <= b => a * c <= b * c
  OBVIOUS
<1>3. RefreshPeriod = n * TicksPerSecond /\ Lifetime = TTL * TicksPerSecond
  BY DEF RefreshPeriod, Lifetime
<1>4. TTL * TicksPerSecond <= (2 * n) * TicksPerSecond
  BY <1>1, <1>2, TimesAreNat
<1>5. (2 * n) * TicksPerSecond = 2 * (n * TicksPerSecond)
  BY <1>1, TimesAreNat
<1>6. n * TicksPerSecond \in Nat /\ TTL * TicksPerSecond \in Nat
  BY <1>1, TimesAreNat
<1> HIDE DEF n
<1> QED BY <1>3, <1>4, <1>5, <1>6

\* What the steps below use of the constants.
LEMMA Margins ==
  /\ RefreshPeriod \in Nat /\ Lifetime \in Nat /\ Delay \in Nat /\ Slack \in Nat
  /\ RefreshPeriod + Slack + 3 * Delay < Lifetime
  /\ Delay <= RefreshPeriod
  /\ NoticedWithin = RefreshPeriod + Slack + 4 * Delay
<1>1. NoticedWithin = RefreshPeriod + Slack + 4 * Delay
  BY DEF NoticedWithin
<1> QED BY <1>1, PeriodFacts, TimesAreNat, NetworkIsFast

\* The constructor starts with timers in their ranges.
LEMMA TimerInitInv == TimerInit => ClockInv
<1> SUFFICES ASSUME TimerInit PROVE ClockInv
  OBVIOUS
<1>1. /\ timer \in 0 .. RefreshPeriod + Slack /\ ctimer \in 0 .. Delay
      /\ age \in 0 .. Lifetime /\ lostFor \in 0 .. NoticedWithin + 1
  BY Margins DEF TimerInit
<1>3. TimerTypeOK
  BY <1>1, Zenon DEF TimerInit, TimerTypeOK
<1>2. TimerInv /\ CheckInv /\ LeaseInv /\ AgeInv /\ KeptAlive
  BY Margins DEF TimerInit, TimerInv, CheckInv, LeaseInv, AgeInv, KeptAlive, InRefresh
<1> QED BY <1>3, <1>2 DEF ClockInv

\* A tick keeps the invariant: no deadline is passed.
LEMMA TickInv == ClockInv /\ Tick => ClockInv'
<1> SUFFICES ASSUME ClockInv, Tick PROVE ClockInv'
  OBVIOUS
<1> USE Margins
<1>1. TimerTypeOK' /\ TimerInv'
  BY DEF ClockInv, TimerTypeOK, TimerInv, CheckInv, Tick, InTime, MutexFree, InRefresh
<1>2. CheckInv' /\ LeaseInv'
  BY DEF ClockInv, TimerTypeOK, CheckInv, LeaseInv, Tick, InRefresh
<1>3. alive /\ thread # "stopped" => age + 1 < Lifetime
  BY DEF ClockInv, TimerTypeOK, TimerInv, CheckInv, LeaseInv, AgeInv, Since, Tick, InTime,
         MutexFree, InRefresh
<1>4. KeptAlive'
  BY <1>3 DEF ClockInv, TimerTypeOK, KeptAlive, Tick
<1>5. thread # "stopped" => Since \in Nat /\ Since' \in Nat /\ Since' <= Since + 1
  <2> SUFFICES ASSUME thread # "stopped" PROVE Since \in Nat /\ Since' \in Nat /\ Since' <= Since + 1
    OBVIOUS
  <2>1. CASE alive
    <3>1. age + 1 < Lifetime
      BY <1>3, <2>1
    <3>2. age \in Nat /\ age' = age + 1
      BY <3>1 DEF ClockInv, TimerTypeOK, Tick
    <3>3. alive' /\ Since = age /\ Since' = age'
      BY <2>1, <3>1, Zenon DEF Since, Tick
    <3> QED BY <3>2, <3>3
  <2>2. CASE ~alive
    <3>1. ~alive' /\ Since = lostFor /\ Since' = lostFor'
      BY <2>2, Zenon DEF Since, Tick
    <3>2. lostFor \in Nat /\ lostFor' \in {lostFor, lostFor + 1}
      BY <2>2 DEF ClockInv, TimerTypeOK, Tick
    <3> QED BY <3>1, <3>2
  <2> QED BY <2>1, <2>2
<1>6. AgeInv'
  <2>1. /\ timer \in Nat /\ ctimer \in Nat
        /\ UNCHANGED <<thread, check, answer>>
        /\ timer' = IF thread \in {"granted", "create", "wait", "request", "reply"}
                    THEN timer + 1 ELSE timer
        /\ ctimer' = IF InRefresh(check) THEN ctimer + 1 ELSE ctimer
        /\ thread = "lock" => InRefresh(check)
    BY DEF ClockInv, TimerTypeOK, Tick, InTime, MutexFree, InRefresh
  <2> QED BY <1>5, <2>1 DEF ClockInv, TimerTypeOK, TimerInv, CheckInv, AgeInv, InRefresh
<1> QED BY <1>1, <1>2, <1>4, <1>6 DEF ClockInv

\* The steps that take no time.
LEMMA TimerStepInv == ClockInv /\ [TimerNext]_timerVars => ClockInv'
<1> SUFFICES ASSUME ClockInv, [TimerNext]_timerVars PROVE ClockInv'
  OBVIOUS
<1> USE Margins DEF ClockInv, TimerTypeOK, TimerInv, CheckInv, LeaseInv, AgeInv, KeptAlive, Since,
                    InRefresh, MutexFree, ThreadGoto, CheckGoto,
                    threadVars, checkVars, leaseVars
<1>1. CASE Tick
  BY <1>1, TickInv
<1>2. CASE LeaseGrant
  BY <1>2 DEF LeaseGrant
<1>3. CASE LeaseRevoke
  <2>1. alive /\ ~alive' /\ lostFor' = 0
    BY <1>3 DEF LeaseRevoke
  <2>2. TimerTypeOK' /\ TimerInv' /\ CheckInv' /\ LeaseInv' /\ KeptAlive'
    BY <1>3, <2>1 DEF LeaseRevoke
  <2>3. Since' = 0
    BY <2>1
  <2>4. AgeInv'
    BY <1>3, <2>3 DEF LeaseRevoke
  <2> QED BY <2>2, <2>4
<1>4. CASE OpenStream \/ StartThread
  BY <1>4 DEF OpenStream, StartThread
<1>5. CASE WakeOnTime \/ WakeEarly
  BY <1>5 DEF WakeOnTime, WakeEarly
<1>6. CASE Request
  BY <1>6 DEF Request
<1>7. CASE BeginCheck
  BY <1>7 DEF BeginCheck
<1>8. CASE CheckRequest
  BY <1>8 DEF CheckRequest
<1>9. CASE Serve
  BY <1>9 DEF Serve
<1>10. CASE RefreshReturns
  BY <1>10 DEF RefreshReturns
<1>11. CASE Stop
  BY <1>11 DEF Stop
<1>12. CASE UNCHANGED timerVars
  BY <1>12 DEF timerVars
<1> QED BY <1>1, <1>2, <1>3, <1>4, <1>5, <1>6, <1>7, <1>8, <1>9, <1>10, <1>11, <1>12 DEF TimerNext

\* Every reachable state satisfies the invariant.
LEMMA TimerInvariance == TimerSpec => []ClockInv
BY TimerInitInv, TimerStepInv, PTL DEF TimerSpec

\* Every variable of LeaseTimer keeps its type; the timers stay within the delays.
THEOREM TimerTypeCorrect == TimerSpec => []TimerTypeOK
<1>1. ClockInv => TimerTypeOK
  BY DEF ClockInv
<1> QED BY TimerInvariance, <1>1, PTL

\* For every ttl for which the second that refresh() leaves (KeepAlive.cpp line 207)
\* is longer than three messages and the slack of the scheduler, the lease does
\* not expire while the KeepAlive runs.
THEOREM KeptAliveHolds == TimerSpec => []KeptAlive
<1>1. ClockInv => KeptAlive
  BY DEF ClockInv
<1> QED BY TimerInvariance, <1>1, PTL

\* The KeepAlive does not run on for longer than a period, the slack and four
\* messages once the lease is revoked, or if it was never granted.
THEOREM LossIsNoticedHolds == TimerSpec => []LossIsNoticed
<1>1. ClockInv => LossIsNoticed
  BY Margins DEF ClockInv, TimerTypeOK, TimerInv, LeaseInv, AgeInv, Since, LossIsNoticed, InRefresh
<1> QED BY TimerInvariance, <1>1, PTL
============================================================================
