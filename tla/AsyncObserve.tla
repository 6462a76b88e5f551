---------------------------- MODULE AsyncObserve ----------------------------
(***************************************************************************)
(* Class AsyncObserveAction (src/v3/AsyncGRPC.cpp) under                   *)
(* SyncClient::Observer (src/SyncClient.cpp): the stream that tells who    *)
(* leads an election.  One thread calls WaitOnce(); the observer is        *)
(* destroyed between two calls or, with `overlap', by another thread while *)
(* a WaitOnce() runs, which holds a reference of its own to the action.    *)
(*                                                                         *)
(* The completion queue, the network and the server are gRPC and etcd,     *)
(* outside the repository.                                                 *)
(***************************************************************************)
EXTENDS Naturals, Sequences

CONSTANT MaxRev   \* bound: revisions of the leader's key

ASSUME MaxRevIsNat == MaxRev \in Nat

VARIABLES
  isCancelled,  \* AsyncObserveAction::isCancelled
  status,       \* Action::status
  holder,       \* who holds protect_is_cancelled, in CancelObserve()
  waiter,       \* where the thread of WaitOnce() is
  destroyer,    \* where the destructor is
  overlap,      \* the observer may be destroyed during a WaitOnce()
  pending,      \* tags of the stream operations started and not completed
  queue,        \* cq_: completed operations no Next has returned yet
  shutdown,     \* cq_.Shutdown() was called
  ending,       \* how the stream ended: "none" while it lives
  inbox,        \* leaders the server has sent and no Read has taken
  sent,         \* history: leaders the server has sent
  observed      \* history: leaders that WaitOnce() has returned

stream == <<pending, queue, shutdown, ending, inbox, sent>>
threads == <<waiter, destroyer, holder, observed>>
vars == <<isCancelled, status, overlap, threads, stream>>

\* READ stands for `this', the others for ELECTION_OBSERVE_*.  A leader is the
\* revision at which its key was last written; 0 stands for no reply.
Tags == {"CREATE", "READ", "FINISH"}
Completions == [tag : Tags, ok : BOOLEAN, val : 0 .. MaxRev]

TypeOK ==
  /\ isCancelled \in BOOLEAN /\ shutdown \in BOOLEAN /\ overlap \in BOOLEAN
  /\ status \in {"OK", "ERROR"}
  /\ holder \in {"none", "waiter", "destroyer"}
  /\ waiter \in {"create", "idle", "read", "next", "cancel", "finish", "aborted"}
  /\ destroyer \in {"none", "cancel", "finish", "release", "released", "destroyed"}
  /\ pending \in SUBSET Tags
  /\ queue \in Seq(Completions)
  /\ ending \in {"none", "OK", "ERROR"}
  /\ inbox \in Seq(1 .. MaxRev)
  /\ sent \in Seq(1 .. MaxRev) /\ observed \in Seq(1 .. MaxRev)

\* The constructor has asked for the stream and waits for it.  isCancelled is
\* not initialised: it may have any value.
Init ==
  /\ isCancelled \in BOOLEAN /\ status = "OK" /\ holder = "none"
  /\ waiter = "create" /\ destroyer = "none" /\ overlap \in BOOLEAN
  /\ pending = {"CREATE"} /\ queue = <<>> /\ shutdown = FALSE
  /\ ending = "none" /\ inbox = <<>> /\ sent = <<>> /\ observed = <<>>

----------------------------------------------------------------------------
(* gRPC and the server. *)

Complete(tag, ok, val) ==
  /\ tag \in pending
  /\ pending' = pending \ {tag}
  /\ queue' = Append(queue, [tag |-> tag, ok |-> ok, val |-> val])
  /\ UNCHANGED <<isCancelled, status, overlap, threads, shutdown, sent>>

CompleteCreate ==
  \E ok \in BOOLEAN :
    /\ Complete("CREATE", ok, 0)
    /\ ending' = IF ok THEN ending ELSE "ERROR"
    /\ UNCHANGED inbox

\* A read takes the next leader; on an ended stream it fails after the last.
CompleteRead ==
  /\ \/ inbox # <<>> /\ Complete("READ", TRUE, Head(inbox)) /\ inbox' = Tail(inbox)
     \/ /\ ending # "none" /\ inbox = <<>>
        /\ Complete("READ", FALSE, 0) /\ UNCHANGED inbox
  /\ UNCHANGED ending

\* Finish completes on an ended stream from which everything was read.
CompleteFinish ==
  /\ ending # "none" /\ inbox = <<>> /\ "READ" \notin pending
  /\ Complete("FINISH", TRUE, 0)
  /\ UNCHANGED <<ending, inbox>>

Transport == CompleteCreate \/ CompleteRead \/ CompleteFinish

\* The server sends a leader newer than the last one.
SendLeader(n) ==
  /\ waiter # "create" /\ ending = "none"
  /\ \A i \in 1 .. Len(sent) : sent[i] < n
  /\ inbox' = Append(inbox, n) /\ sent' = Append(sent, n)
  /\ UNCHANGED <<isCancelled, status, overlap, threads, pending, queue, shutdown, ending>>

\* The connection breaks, or the server ends the stream.
StreamEnds ==
  /\ waiter # "create" /\ ending = "none"
  /\ ending' \in {"OK", "ERROR"}
  /\ UNCHANGED <<isCancelled, status, overlap, threads, pending, queue, shutdown, inbox, sent>>

----------------------------------------------------------------------------
(* The client. *)

Post(tag) == pending' = pending \cup {tag}
Take == queue # <<>> /\ queue' = Tail(queue)
Got(tag) == Head(queue).ok /\ Head(queue).tag = tag

\* What Finish stores in Action::status when its event is taken.
StatusAfter == IF Got("FINISH") THEN (IF ending = "OK" THEN "OK" ELSE "ERROR") ELSE status

\* context.TryCancel() ends the stream, replies not yet read included.
TryCancel ==
  /\ ending' = IF ending = "none" THEN "ERROR" ELSE ending
  /\ inbox' = <<>>

Create ==
  /\ waiter = "create"
  /\ Take
  /\ IF Got("CREATE")
     THEN UNCHANGED <<status, isCancelled>>
     ELSE status' = "ERROR" /\ isCancelled' = TRUE
  /\ waiter' = "idle"
  /\ UNCHANGED <<overlap, destroyer, holder, observed, pending, shutdown, ending, inbox, sent>>

\* Mutant: the stream is read again after it has failed.
CallWaitOnceAgain ==
  /\ waiter = "idle" /\ destroyer = "none"
  /\ waiter' = "read"
  /\ UNCHANGED <<isCancelled, status, overlap, destroyer, holder, observed, stream>>

\* WaitOnce() returns an error at once if the stream is cancelled or has failed.
CallWaitOnce ==
  /\ waiter = "idle" /\ destroyer = "none"
  /\ status' = IF isCancelled THEN "ERROR" ELSE status
  /\ waiter' = IF status' = "OK" THEN "read" ELSE "idle"
  /\ UNCHANGED <<isCancelled, overlap, destroyer, holder, observed, stream>>

\* A read started on a queue that is shut down aborts the program in gRPC.
Read ==
  /\ waiter = "read"
  /\ IF shutdown
     THEN waiter' = "aborted" /\ UNCHANGED pending
     ELSE waiter' = "next" /\ Post("READ")
  /\ UNCHANGED <<isCancelled, status, overlap, destroyer, holder, observed,
                 queue, shutdown, ending, inbox, sent>>

\* cq_.Next returns a leader, which WaitOnce() returns, unless a destructor has
\* stored the status of the finished stream meanwhile.
NextLeader ==
  /\ waiter = "next" /\ Take /\ Got("READ")
  /\ IF status = "OK"
     THEN waiter' = "idle" /\ observed' = Append(observed, Head(queue).val)
     ELSE waiter' = "cancel" /\ UNCHANGED observed
  /\ UNCHANGED <<isCancelled, status, overlap, destroyer, holder, pending, shutdown,
                 ending, inbox, sent>>

\* Mutant: WaitOnce() returns the reply of the last read when the read has failed.
NextStaleReply ==
  /\ waiter = "next" /\ Take /\ ~Got("READ")
  /\ waiter' = "idle"
  /\ observed' = IF observed = <<>> THEN <<>> ELSE Append(observed, observed[Len(observed)])
  /\ UNCHANGED <<isCancelled, status, overlap, destroyer, holder, pending, shutdown,
                 ending, inbox, sent>>

\* The read failed, the event is the destructor's, or the queue has been shut
\* down and drained.
NextFailed ==
  /\ waiter = "next"
  /\ \/ Take /\ ~Got("READ") /\ status' = StatusAfter
     \/ queue = <<>> /\ shutdown /\ pending = {} /\ UNCHANGED <<queue, status>>
  /\ waiter' = "cancel"
  /\ UNCHANGED <<isCancelled, overlap, destroyer, holder, observed, pending, shutdown,
                 ending, inbox, sent>>

\* The destructor; nothing is left to call WaitOnce() on.
Destroy ==
  /\ destroyer = "none" /\ waiter # "create"
  /\ overlap \/ waiter = "idle"
  /\ destroyer' = "cancel"
  /\ UNCHANGED <<isCancelled, status, overlap, waiter, holder, observed, stream>>

\* The caller of CancelObserve() and where it is.
At(who, where) == (IF who = "waiter" THEN waiter ELSE destroyer) = where

\* CancelObserve() returns: WaitOnce() fails, the destructor drops its reference.
Return(who, st) ==
  IF who = "waiter" THEN waiter' = "idle" /\ status' = "ERROR" /\ UNCHANGED destroyer
                    ELSE destroyer' = "release" /\ status' = st /\ UNCHANGED waiter

CancelAgain(who) ==
  /\ At(who, "cancel") /\ holder = "none" /\ isCancelled
  /\ Return(who, status)
  /\ UNCHANGED <<isCancelled, overlap, holder, observed, stream>>

CancelFirst(who) ==
  /\ At(who, "cancel") /\ holder = "none" /\ ~isCancelled
  /\ isCancelled' = TRUE /\ holder' = who
  /\ Post("FINISH")
  /\ IF who = "waiter" THEN waiter' = "finish" /\ UNCHANGED destroyer
                       ELSE destroyer' = "finish" /\ UNCHANGED waiter
  /\ UNCHANGED <<status, overlap, observed, queue, shutdown, ending, inbox, sent>>

\* Mutant: Next() in the place of AsyncNext() with a deadline.
FinishBlocking(who) ==
  /\ At(who, "finish")
  /\ Take
  /\ Return(who, StatusAfter)
  /\ TryCancel /\ shutdown' = TRUE /\ holder' = "none"
  /\ UNCHANGED <<isCancelled, overlap, observed, pending, sent>>

\* AsyncNext takes an event, whichever it is, or gives up after a microsecond.
FinishObserve(who) ==
  /\ At(who, "finish")
  /\ \/ Take /\ Return(who, StatusAfter)
     \/ queue = <<>> /\ UNCHANGED queue /\ Return(who, status)
  /\ TryCancel /\ shutdown' = TRUE /\ holder' = "none"
  /\ UNCHANGED <<isCancelled, overlap, observed, pending, sent>>

CancelObserve(who) == CancelAgain(who) \/ CancelFirst(who) \/ FinishObserve(who)

Release ==
  /\ destroyer = "release"
  /\ destroyer' = "released"
  /\ UNCHANGED <<isCancelled, status, overlap, waiter, holder, observed, stream>>

\* ~Action, when the last reference is gone.
DestroyAction ==
  /\ destroyer = "released" /\ waiter = "idle"
  /\ destroyer' = "destroyed"
  /\ shutdown' = TRUE /\ TryCancel
  /\ UNCHANGED <<isCancelled, status, overlap, waiter, holder, observed, pending, queue, sent>>

WaiterStep ==
  Create \/ Read \/ NextLeader \/ NextFailed \/ CancelObserve("waiter")
DestroyerStep == CancelObserve("destroyer") \/ Release \/ DestroyAction

Next ==
  \/ Transport \/ StreamEnds \/ \E n \in 1 .. MaxRev : SendLeader(n)
  \/ CallWaitOnce \/ WaiterStep \/ Destroy \/ DestroyerStep

Spec == Init /\ [][Next]_vars

\* The threads of the observer run, and the local transport completes what it
\* can; the server may be silent.
FairSpec ==
  /\ Spec
  /\ WF_vars(WaiterStep)
  /\ WF_vars(DestroyerStep)
  /\ WF_vars(Transport)

----------------------------------------------------------------------------
(* Properties. *)

\* WaitOnce() returns the leaders in the order in which the server told them,
\* each once and none left out: a failed or finished stream never shows the
\* last reply as a new one.
ObservedInOrder ==
  /\ Len(observed) <= Len(sent)
  /\ \A i \in 1 .. Len(observed) : observed[i] = sent[i]

\* An observer that is not destroyed while it is used never starts an operation
\* on a completion queue that was shut down.
NoReadAfterShutdown == waiter = "aborted" => overlap

\* The destructor returns, although the server may be silent (line 936), and so
\* does a WaitOnce() during which the observer is destroyed.
DestroyReturns ==
  /\ destroyer = "cancel" ~> destroyer \in {"released", "destroyed"}
  /\ destroyer # "none" ~> waiter \in {"idle", "aborted"}
=============================================================================
