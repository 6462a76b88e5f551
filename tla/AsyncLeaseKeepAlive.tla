------------------------ MODULE AsyncLeaseKeepAlive ------------------------
(***************************************************************************)
(* Class AsyncLeaseKeepAliveAction (src/v3/AsyncGRPC.cpp): the lease       *)
(* keep-alive stream of one KeepAlive object, over a gRPC completion       *)
(* queue.  Every operation on it runs under KeepAlive::mutex_for_refresh_, *)
(* so one program counter suffices; the concurrency here is between the    *)
(* operation and the stream: operations complete late, fail, time out, or  *)
(* are answered after the timeout.                                         *)
(*                                                                         *)
(* The completion queue, the network and the server (Complete, CloseByPeer *)
(* and LeaseGone) are gRPC and etcd, outside the repository.               *)
(***************************************************************************)
EXTENDS Sequences

VARIABLES
  op,           \* the operation the caller is in (see KeepAliveCall)
  isCancelled,  \* AsyncLeaseKeepAliveAction::isCancelled
  result,       \* what the last Refresh() returned
  pc,           \* where the operation in progress stands
  after,        \* what Refresh() returns once CancelKeepAlive() has returned
  status,       \* Action::status
  reply,        \* the TTL in the last reply read: none, positive or zero
  pending,      \* tags of the stream operations started and not completed
  queue,        \* cq_: completed operations no Next has returned yet
  ending,       \* how the stream ended: "none" while it lives
  leaseAlive,   \* the server still holds the lease
  hasTimeout,   \* parameters.has_grpc_timeout()
  failed,       \* history: some refresh has failed
  answered      \* history: this refresh has read a reply

clientVars == <<op, isCancelled, result, pc, after, status, reply, hasTimeout,
                failed, answered>>
streamVars == <<pending, queue, ending, leaseAlive>>
vars == <<clientVars, streamVars>>

\* The tags of action_constants.cpp that this class uses.
Tags == {"CREATE", "WRITE", "READ", "DONE", "FINISH"}

\* A completed operation: its tag, its ok flag, and what it delivers: the TTL
\* of a read reply, the status that Finish stores.
Values == {"none", "positive", "zero", "OK", "ERROR"}
Events == [tag : Tags, ok : BOOLEAN, val : Values]

TypeOK ==
  /\ op \in {"create", "idle", "refresh", "cancel"}
  /\ isCancelled \in BOOLEAN
  /\ result \in {"none", "ok", "expired", "error"}
  /\ pc \in {"create", "idle", "refresh", "write", "read", "cancel", "done", "finish"}
  /\ after \in {"parse", "abort"}
  /\ status \in {"OK", "ERROR"}
  /\ reply \in {"none", "positive", "zero"}
  /\ pending \in SUBSET Tags
  /\ queue \in Seq(Events)
  /\ ending \in {"none", "OK", "ERROR"}
  /\ leaseAlive \in BOOLEAN
  /\ hasTimeout \in BOOLEAN
  /\ failed \in BOOLEAN
  /\ answered \in BOOLEAN

\* The constructor has asked for the stream and waits for CREATE.
Init ==
  /\ op = "create" /\ pc = "create"
  /\ isCancelled = FALSE
  /\ result = "none" /\ after = "abort"
  /\ status = "OK" /\ reply = "none"
  /\ pending = {"CREATE"} /\ queue = <<>>
  /\ ending = "none" /\ leaseAlive \in BOOLEAN /\ hasTimeout = FALSE
  /\ failed = FALSE /\ answered = FALSE

----------------------------------------------------------------------------
(* gRPC and the server. *)

Post(tag) == pending' = pending \cup {tag}

\* The operation `tag' completes and its event reaches the completion queue.
Complete(tag, ok, val) ==
  /\ tag \in pending
  /\ pending' = pending \ {tag}
  /\ queue' = Append(queue, [tag |-> tag, ok |-> ok, val |-> val])
  /\ UNCHANGED <<clientVars, leaseAlive>>

\* Operations that need only the local transport, or an ended stream.  The
\* half-close is sent after the message before it; Finish completes with the
\* status, once no read is outstanding.
CompleteLocal ==
  \/ Complete("CREATE", TRUE, "none") /\ UNCHANGED ending
  \/ Complete("CREATE", FALSE, "none") /\ ending' = "ERROR"
  \/ Complete("WRITE", ending = "none", "none") /\ UNCHANGED ending
  \/ /\ "WRITE" \notin pending
     /\ Complete("DONE", ending = "none", "none")
     /\ UNCHANGED ending
  \/ ending # "none" /\ Complete("READ", FALSE, "none") /\ UNCHANGED ending
  \/ /\ ending # "none" /\ "READ" \notin pending
     /\ Complete("FINISH", TRUE, ending)
     /\ UNCHANGED ending

\* The server's answer to a refresh: the lease's TTL, 0 when it is gone.
Answer ==
  /\ Complete("READ", TRUE, IF leaseAlive THEN "positive" ELSE "zero")
  /\ UNCHANGED ending

HalfClosed == pc \in {"done", "finish"} /\ "DONE" \notin pending

\* The connection breaks, or the server ends the stream.  etcd's handler
\* returns without an error only after the client's half-close.
CloseByPeer ==
  /\ op # "create"
  /\ ending = "none"
  /\ ending' \in IF HalfClosed THEN {"OK", "ERROR"} ELSE {"ERROR"}
  /\ UNCHANGED <<clientVars, pending, queue, leaseAlive>>

\* The lease expires or is revoked; it never comes back.
LeaseGone ==
  /\ leaseAlive
  /\ leaseAlive' = FALSE
  /\ UNCHANGED <<clientVars, pending, queue, ending>>

\* cq_.Next or cq_.AsyncNext returns the event at the head of the queue.
Take == queue # <<>> /\ queue' = Tail(queue)

\* The event returned is the successful completion of `tag'.
Got(tag) == Head(queue).ok /\ Head(queue).tag = tag

\* cq_.AsyncNext returns TIMEOUT: the deadline passed and nothing is queued.
TimedOut == hasTimeout /\ queue = <<>> /\ UNCHANGED queue

----------------------------------------------------------------------------
(* The client's operations. *)

\* Lines 546-556: the constructor.
Create ==
  /\ pc = "create"
  /\ Take
  /\ isCancelled' = ~Got("CREATE")
  /\ status' = IF Got("CREATE") THEN status ELSE "ERROR"
  /\ op' = "idle" /\ pc' = "idle"
  /\ UNCHANGED <<hasTimeout, result, after, reply, failed, answered, pending, ending,
                 leaseAlive>>

\* What etcd::Response(ParseResponse()) holds, judged as refresh_once does:
\* an error status, a TTL of 0 (also the TTL of a reply never read), or a TTL.
ParseResponse(st, rep) ==
  CASE st # "OK" -> "error"
    [] st = "OK" /\ rep # "positive" -> "expired"
    [] st = "OK" /\ rep = "positive" -> "ok"

\* Refresh() returns r, or CancelKeepAlive() does.
ReturnRefresh(r) ==
  /\ op' = "idle" /\ pc' = "idle"
  /\ result' = r
  /\ failed' = (failed \/ r # "ok")

\* KeepAlive.cpp line 238 gives the stream the timeout that the KeepAlive has by
\* now: set_grpc_timeout() may have changed it since the last refresh.
RefreshBegin ==
  /\ pc = "idle"
  /\ hasTimeout' \in BOOLEAN
  /\ op' = "refresh" /\ pc' = "refresh"
  /\ result' = "none" /\ answered' = FALSE
  /\ UNCHANGED <<isCancelled, after, status, reply, failed, streamVars>>

\* Lines 577-581: a cancelled stream is not refreshed.
RefreshCancelled ==
  /\ pc = "refresh" /\ isCancelled
  /\ status' = "ERROR"
  /\ ReturnRefresh("error")
  /\ UNCHANGED <<hasTimeout, isCancelled, after, reply, answered, streamVars>>

\* Lines 583-590 and 643.
Write ==
  /\ pc = "refresh" /\ ~isCancelled
  /\ Post("WRITE")
  /\ pc' = "write"
  /\ UNCHANGED <<hasTimeout, op, isCancelled, result, after, status, reply, failed, answered,
                 queue, ending, leaseAlive>>

\* Lines 617 and 647.
WriteDone ==
  /\ pc = "write"
  /\ Take /\ Got("WRITE")
  /\ Post("READ")
  /\ pc' = "read"
  /\ UNCHANGED <<hasTimeout, op, isCancelled, result, after, status, reply, failed, answered,
                 ending, leaseAlive>>

\* Lines 604-608 with a timeout: ABORTED, and the stream is left as it is.
\* Lines 655-658 without one: the stream is cancelled first.
WriteFailed ==
  /\ pc = "write"
  /\ Take /\ ~Got("WRITE")
  /\ IF hasTimeout
     THEN ReturnRefresh("error") /\ UNCHANGED after
     ELSE pc' = "cancel" /\ after' = "abort" /\ UNCHANGED <<op, result, failed>>
  /\ UNCHANGED <<hasTimeout, isCancelled, status, reply, answered, pending, ending, leaseAlive>>

\* Mutant: the deadline leaves Action::status alone.
WriteTimeoutStatusKept ==
  /\ pc = "write" /\ TimedOut
  /\ pc' = "cancel" /\ after' = "parse"
  /\ UNCHANGED <<hasTimeout, op, isCancelled, result, status, reply, failed, answered,
                 pending, ending, leaseAlive>>

\* Lines 593-597 and 611-615: the response is parsed after the cancellation.
WriteTimeout ==
  /\ pc = "write" /\ TimedOut
  /\ status' = "ERROR"
  /\ pc' = "cancel" /\ after' = "parse"
  /\ UNCHANGED <<hasTimeout, op, isCancelled, result, reply, failed, answered, pending,
                 ending, leaseAlive>>

\* Lines 631-634 and 649-653.
ReadDone ==
  /\ pc = "read"
  /\ Take /\ Got("READ")
  /\ reply' = Head(queue).val
  /\ ReturnRefresh(ParseResponse(status, reply'))
  /\ answered' = TRUE
  /\ UNCHANGED <<hasTimeout, isCancelled, after, status, pending, ending, leaseAlive>>

\* Lines 635-641 and 655-658.
ReadFailed ==
  /\ pc = "read"
  /\ Take /\ ~Got("READ")
  /\ pc' = "cancel" /\ after' = "abort"
  /\ UNCHANGED <<hasTimeout, op, isCancelled, result, status, reply, failed, answered,
                 pending, ending, leaseAlive>>

\* Mutant: a read that timed out is reported without cancelling the stream.
ReadTimeoutReturns ==
  /\ pc = "read" /\ TimedOut
  /\ status' = "ERROR"
  /\ ReturnRefresh("error")
  /\ UNCHANGED <<hasTimeout, isCancelled, after, reply, answered, pending, ending, leaseAlive>>

\* Lines 620-624 and 638-641.
ReadTimeout ==
  /\ pc = "read" /\ TimedOut
  /\ status' = "ERROR"
  /\ pc' = "cancel" /\ after' = "abort"
  /\ UNCHANGED <<hasTimeout, op, isCancelled, result, reply, failed, answered, pending,
                 ending, leaseAlive>>

CancelBegin ==
  /\ pc = "idle"
  /\ op' = "cancel" /\ pc' = "cancel"
  /\ UNCHANGED <<hasTimeout, isCancelled, result, after, status, reply, failed, answered,
                 streamVars>>

\* Line 664: CancelKeepAlive() on a stream already cancelled does nothing.
CancelAgain ==
  /\ pc = "cancel" /\ isCancelled
  /\ op = "cancel"
  /\ op' = "idle" /\ pc' = "idle"
  /\ UNCHANGED <<hasTimeout, isCancelled, result, after, status, reply, failed, answered,
                 streamVars>>

\* Mutant: isCancelled is tested but never set.
WritesDoneFlagUnset ==
  /\ pc = "cancel" /\ ~isCancelled
  /\ Post("DONE")
  /\ pc' = "done"
  /\ UNCHANGED <<hasTimeout, op, isCancelled, result, after, status, reply, failed, answered,
                 queue, ending, leaseAlive>>

\* Mutant: the half-close is not asked for, but waited for.
WritesDoneNotSent ==
  /\ pc = "cancel" /\ ~isCancelled
  /\ isCancelled' = TRUE
  /\ pc' = "done"
  /\ UNCHANGED <<hasTimeout, op, result, after, status, reply, failed, answered, streamVars>>

\* Lines 664-668.
WritesDone ==
  /\ pc = "cancel" /\ ~isCancelled
  /\ isCancelled' = TRUE
  /\ Post("DONE")
  /\ pc' = "done"
  /\ UNCHANGED <<hasTimeout, op, result, after, status, reply, failed, answered, queue,
                 ending, leaseAlive>>

\* An event taken by CancelKeepAlive: any tag will do, but a late reply is
\* still stored in `reply', and Finish stores the status.
Absorb ==
  /\ Take
  /\ reply'  = IF Got("READ") THEN Head(queue).val ELSE reply
  /\ status' = IF Got("FINISH") THEN Head(queue).val ELSE status

\* Lines 669-680.
Finish ==
  /\ pc = "done"
  /\ Absorb
  /\ Post("FINISH")
  /\ pc' = "finish"
  /\ UNCHANGED <<hasTimeout, op, isCancelled, result, after, failed, answered, ending,
                 leaseAlive>>

\* Lines 681-695, and the return of the caller: KeepAlive::Cancel, or Refresh
\* with its response (613-615, 639-641, 656-658).
Finished ==
  /\ pc = "finish"
  /\ Absorb
  /\ ending' = IF ending = "none" THEN "ERROR" ELSE ending  \* context.TryCancel()
  /\ IF op = "cancel"
     THEN op' = "idle" /\ pc' = "idle" /\ UNCHANGED <<result, failed>>
     ELSE ReturnRefresh(IF after = "parse" THEN ParseResponse(status', reply') ELSE "error")
  /\ UNCHANGED <<hasTimeout, isCancelled, after, answered, pending, leaseAlive>>

ClientStep ==
  \/ Create
  \/ RefreshCancelled \/ Write
  \/ WriteDone \/ WriteFailed \/ WriteTimeout
  \/ ReadDone \/ ReadFailed \/ ReadTimeout
  \/ CancelAgain \/ WritesDone \/ Finish \/ Finished

Next ==
  \/ RefreshBegin \/ CancelBegin
  \/ ClientStep
  \/ CompleteLocal \/ Answer \/ CloseByPeer \/ LeaseGone

Spec == Init /\ [][Next]_vars

\* The client's threads run, and the local transport completes what it can.
ClientFairness == WF_vars(ClientStep) /\ WF_vars(CompleteLocal)

\* The server answers refreshes, and ends a stream the client half-closed.
ServerFairness == WF_vars(Answer) /\ WF_vars(HalfClosed /\ CloseByPeer)

FairSpec == Spec /\ ClientFairness /\ ServerFairness

----------------------------------------------------------------------------
(* Properties. *)

\* When a refresh can start, nothing is in flight and the completion queue is
\* empty: an answer that comes after its refresh timed out is never taken for
\* the answer to a later one.  Refresh() compares tags only, and every refresh
\* uses the same tags.
NothingInFlight == (pc = "idle" /\ ~isCancelled) => (pending = {} /\ queue = <<>>)

\* A refresh reports a TTL only if it read that TTL itself: the parse after a
\* timed-out write (line 613) never reports the reply of an earlier refresh as
\* this one's, although Finish may have overwritten the DEADLINE status.
TTLIsFresh == result \in {"ok", "expired"} => answered

\* The stream keeps the promises that KeepAlive relies on: AsyncLeaseKeepAlive
\* implements KeepAliveCall, with the variables of the same names.
Call == INSTANCE KeepAliveCall
          WITH op <- op, isCancelled <- isCancelled, failed <- failed, result <- result

ImplementsCall == Call!CallSpec

\* Every operation returns, as long as the server keeps answering.
OperationReturns == op # "idle" ~> op = "idle"
=============================================================================
