----------------------------- MODULE LeaseTimer -----------------------------
(***************************************************************************)
(* The clock of a lease kept alive: SyncClient::leasegrant and leaserevoke *)
(* (src/SyncClient.cpp), and when class KeepAlive (src/KeepAlive.cpp)      *)
(* refreshes: max(ttl - 1, 1) seconds after the last refresh of its own    *)
(* has returned, while Check() refreshes at any time under the same mutex. *)
(* What the threads do apart from waiting is in module KeepAlive.          *)
(*                                                                         *)
(* Time is counted in ticks.  External: etcd, which ends a lease that was  *)
(* not refreshed for its TTL, the network, which delivers a message within *)
(* Delay ticks, and the scheduler, which wakes a thread within Slack.      *)
(***************************************************************************)
EXTENDS Naturals

CONSTANTS
  TTL,             \* the ttl of the lease, and of the KeepAlive, in seconds
  TicksPerSecond,
  Delay,           \* bound: ticks that a message takes
  Slack            \* bound: ticks by which a thread may wake too late

\* std::max(ttl - 1, 1), in ticks.
RefreshPeriod == (IF TTL - 1 > 1 THEN TTL - 1 ELSE 1) * TicksPerSecond
Lifetime == TTL * TicksPerSecond

\* A lease not alive is noticed after this time: the way back of the grant, the
\* opening of the stream, a period, and one refresh.
NoticedWithin == RefreshPeriod + Slack + 4 * Delay

ASSUME TimesAreNat == TTL \in Nat /\ TicksPerSecond \in Nat /\ Delay \in Nat /\ Slack \in Nat

\* What the code needs of the network: the grant's way back, the opening of the
\* stream and the way of the first refresh fit into the second that the period
\* leaves.  A ttl of 1 leaves none, and no network is fast enough.
ASSUME NetworkIsFast == RefreshPeriod + Slack + 3 * Delay < Lifetime

VARIABLES
  thread,   \* where the constructor, and then the thread refresh_task_, is
  timer,    \* ticks that it has been there
  check,    \* where the Check() of a user is
  ctimer,   \* ticks that it has been there
  answer,   \* the refresh in progress was answered with a positive TTL
  alive,    \* etcd has the lease
  age,      \* ticks since etcd granted or refreshed it
  expired,  \* history: etcd has let it expire
  lostFor   \* history: ticks that the lease has not been alive

threadVars == <<thread, timer>>
checkVars == <<check, ctimer>>
leaseVars == <<alive, age, expired, lostFor>>
timerVars == <<threadVars, checkVars, answer, leaseVars>>

TimerTypeOK ==
  /\ thread \in {"grant", "granted", "create", "wait", "lock", "request", "reply", "stopped"}
  /\ timer \in 0 .. RefreshPeriod + Slack
  /\ check \in {"idle", "lock", "request", "reply"}
  /\ ctimer \in 0 .. Delay
  /\ answer \in BOOLEAN /\ alive \in BOOLEAN /\ expired \in BOOLEAN
  /\ age \in 0 .. Lifetime
  /\ lostFor \in 0 .. NoticedWithin + 1

TimerInit ==
  /\ thread = "grant" /\ timer = 0
  /\ check = "idle" /\ ctimer = 0
  /\ answer = FALSE /\ alive = FALSE /\ age = 0
  /\ expired = FALSE /\ lostFor = 0

----------------------------------------------------------------------------
(* Time. *)

\* mutex_for_refresh_ is held from before a request until after its reply.
InRefresh(p) == p \in {"request", "reply"}
MutexFree == ~InRefresh(thread) /\ ~InRefresh(check)

\* Nobody is late: messages, the timeout of wait_for, and the refresher once it
\* can have the mutex.  A user may take as long as it likes to begin.
InTime ==
  /\ thread \in {"granted", "create", "request", "reply"} => timer < Delay
  /\ thread = "wait" => timer < RefreshPeriod + Slack
  /\ thread = "lock" => ~MutexFree
  /\ InRefresh(check) => ctimer < Delay

Tick ==
  /\ InTime
  /\ timer' = IF thread \in {"granted", "create", "wait", "request", "reply"}
              THEN timer + 1 ELSE timer
  /\ ctimer' = IF InRefresh(check) THEN ctimer + 1 ELSE ctimer
  /\ age' = IF age < Lifetime THEN age + 1 ELSE age
  /\ alive' = (alive /\ age + 1 < Lifetime)
  /\ expired' = (expired \/ (alive /\ ~alive'))
  /\ lostFor' = IF alive \/ thread \in {"grant", "stopped"} \/ lostFor > NoticedWithin
                THEN lostFor ELSE lostFor + 1
  /\ UNCHANGED <<thread, check, answer>>

----------------------------------------------------------------------------
(* Getting and losing the lease. *)

ThreadGoto(from, to) == thread = from /\ thread' = to /\ timer' = 0
CheckGoto(from, to) == check = from /\ check' = to /\ ctimer' = 0

\* leasegrant(): etcd grants the lease, or the call fails.  leasekeepalive() and
\* the constructor of KeepAlive go on with the lease id 0 in that case.
LeaseGrant ==
  /\ ThreadGoto("grant", "granted")
  /\ alive' \in BOOLEAN /\ age' = 0
  /\ UNCHANGED <<checkVars, answer, expired, lostFor>>

\* leaserevoke(), of this client or another one.
LeaseRevoke ==
  /\ alive /\ alive' = FALSE
  /\ UNCHANGED <<threadVars, checkVars, answer, age, expired, lostFor>>

\* The grant has returned: the constructor opens the stream, and then starts the
\* thread.
OpenStream ==
  /\ ThreadGoto("granted", "create")
  /\ UNCHANGED <<checkVars, answer, leaseVars>>

StartThread ==
  /\ ThreadGoto("create", "wait")
  /\ UNCHANGED <<checkVars, answer, leaseVars>>

----------------------------------------------------------------------------
(* refresh() and Check() *)

\* Mutant: the thread leaves the refresh to a Check() that has begun.
WakeUnlessChecked ==
  /\ timer >= RefreshPeriod
  /\ ThreadGoto("wait", IF check = "idle" THEN "lock" ELSE "wait")
  /\ UNCHANGED <<checkVars, answer, leaseVars>>

\* wait_for() returns: after keepalive_ttl seconds, or woken spuriously.
WakeOnTime ==
  /\ timer >= RefreshPeriod
  /\ ThreadGoto("wait", "lock")
  /\ UNCHANGED <<checkVars, answer, leaseVars>>

WakeEarly ==
  /\ timer < RefreshPeriod
  /\ ThreadGoto("wait", "lock")
  /\ UNCHANGED <<checkVars, answer, leaseVars>>

\* refresh_once() of the thread sends its request under the mutex.
Request ==
  /\ MutexFree
  /\ ThreadGoto("lock", "request")
  /\ UNCHANGED <<checkVars, answer, leaseVars>>

BeginCheck ==
  /\ thread \in {"wait", "lock", "request", "reply"}
  /\ CheckGoto("idle", "lock")
  /\ UNCHANGED <<threadVars, answer, leaseVars>>

\* refresh_once() of Check(); nothing is refreshed once the thread has stopped.
CheckRequest ==
  /\ MutexFree
  /\ CheckGoto("lock", IF thread = "stopped" THEN "idle" ELSE "request")
  /\ UNCHANGED <<threadVars, answer, leaseVars>>

\* etcd answers a refresh: the lease is as new, or its TTL is 0.
Serve ==
  /\ \/ ThreadGoto("request", "reply") /\ UNCHANGED checkVars
     \/ CheckGoto("request", "reply") /\ UNCHANGED threadVars
  /\ answer' = alive
  /\ age' = IF alive THEN 0 ELSE age
  /\ UNCHANGED <<alive, expired, lostFor>>

\* Mutant: a TTL of 0 is not looked at.
RefreshReturnsOk ==
  /\ \/ ThreadGoto("reply", "wait") /\ UNCHANGED checkVars
     \/ CheckGoto("reply", "idle") /\ UNCHANGED threadVars
  /\ UNCHANGED <<answer, leaseVars>>

\* Refresh() has returned.  A TTL of 0 ends the thread; in Check(), which has
\* the mutex and so finds the thread waiting, it does so through Cancel().
RefreshReturns ==
  /\ \/ /\ ThreadGoto("reply", IF answer THEN "wait" ELSE "stopped")
        /\ UNCHANGED checkVars
     \/ /\ CheckGoto("reply", "idle")
        /\ IF answer THEN UNCHANGED threadVars ELSE thread' = "stopped" /\ timer' = 0
  /\ UNCHANGED <<answer, leaseVars>>

\* The stream fails during a refresh, or the user calls Cancel(), which waits
\* for the mutex and for the thread.
Stop ==
  /\ \/ InRefresh(thread) /\ UNCHANGED checkVars
     \/ InRefresh(check) /\ check' = "idle" /\ ctimer' = 0
     \/ thread \in {"wait", "lock"} /\ MutexFree /\ UNCHANGED checkVars
  /\ thread' = "stopped" /\ timer' = 0
  /\ UNCHANGED <<answer, leaseVars>>

TimerNext ==
  \/ Tick
  \/ LeaseGrant \/ LeaseRevoke \/ OpenStream \/ StartThread
  \/ WakeOnTime \/ WakeEarly \/ Request \/ BeginCheck \/ CheckRequest
  \/ Serve \/ RefreshReturns \/ Stop

TimerSpec == TimerInit /\ [][TimerNext]_timerVars

----------------------------------------------------------------------------
(* Properties. *)

\* A lease never expires before its KeepAlive has stopped, whatever Check() does
\* meanwhile to the mutex that the timer needs.
KeptAlive == expired => thread = "stopped"

\* A lease that was revoked, or never granted, is noticed: the thread does not
\* keep refreshing it for longer than a period and a few messages.
LossIsNoticed == thread # "stopped" => lostFor <= NoticedWithin
=============================================================================
