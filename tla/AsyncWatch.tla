----------------------------- MODULE AsyncWatch -----------------------------
(***************************************************************************)
(* Class AsyncWatchAction (src/v3/AsyncGRPC.cpp): the watch stream, the    *)
(* completion-queue loop both overloads of waitForResponse() share, and    *)
(* CancelWatch().  What a loop does with a reply differs between the two   *)
(* overloads: see Watcher and OneShotWatch.                                *)
(*                                                                         *)
(* The completion queue, the network and the server are gRPC and etcd,     *)
(* outside the repository.                                                 *)
(***************************************************************************)
EXTENDS Naturals, Sequences

CONSTANT MaxEvents   \* bound: replies with events that the server sends

ASSUME MaxEventsIsNat == MaxEvents \in Nat

VARIABLES
  isCancelled,  \* AsyncWatchAction::isCancelled
  status,       \* Action::status as the constructor leaves it: nobody reads it
                \* once Finish has stored the status of the call there
  loop,         \* where the thread inside the constructor and the loop stands
  finalRound,   \* the_final_round
  pending,      \* tags of the stream operations started and not completed
  queue,        \* cq_: completed operations no Next has returned yet
  ending,       \* how the stream ended: "none" while it lives
  inbox,        \* replies the server has sent and no Read has taken
  server,       \* the watch at the server: "none", "active" or "cancelled"
  sent,         \* replies with events sent so far
  delivered     \* history: what was handed to the user, in order

streamVars == <<pending, queue, ending, inbox, server, sent>>
loopVars   == <<status, loop, finalRound, delivered>>
watchVars  == <<isCancelled, loopVars, streamVars>>

\* Tags: READ stands for `this', the others for WATCH_* of action_constants.
Tags == {"CREATE", "WRITE", "READ", "WRITE_CANCEL", "WRITES_DONE", "FINISH"}

\* Replies: the watch was created, it was cancelled (by request, or by the
\* server; "compacted" if because the revision is gone), or the n-th events.
\* "failed" is the error response that a stream never opened leads to.
Kinds      == {"none", "created", "canceled", "compacted", "events", "failed"}
Replies    == [kind : Kinds, n : 0 .. MaxEvents]
Reply(k)   == [kind |-> k, n |-> 0]
EventsN(n) == [kind |-> "events", n |-> n]
Completions == [tag : Tags, ok : BOOLEAN, val : Replies]

WatchTypeOK ==
  /\ isCancelled \in BOOLEAN
  /\ status \in {"OK", "ERROR"}
  /\ loop \in {"create", "write", "start", "next", "end", "done"}
  /\ finalRound \in BOOLEAN
  /\ pending \in SUBSET Tags
  /\ queue \in Seq(Completions)
  /\ ending \in {"none", "OK", "ERROR"}
  /\ inbox \in Seq(Replies)
  /\ server \in {"none", "active", "cancelled"}
  /\ sent \in 0 .. MaxEvents
  /\ delivered \in Seq(Replies)

\* The constructor has asked for the stream and waits for WATCH_CREATE.
WatchInit ==
  /\ isCancelled = FALSE /\ status = "OK"
  /\ loop = "create" /\ finalRound = FALSE
  /\ pending = {"CREATE"} /\ queue = <<>>
  /\ ending = "none" /\ inbox = <<>>
  /\ server = "none" /\ sent = 0
  /\ delivered = <<>>

----------------------------------------------------------------------------
(* gRPC and the server. *)

\* The operation `tag' completes and its event reaches the completion queue.
Complete(tag, ok, val) ==
  /\ tag \in pending
  /\ pending' = pending \ {tag}
  /\ queue' = Append(queue, [tag |-> tag, ok |-> ok, val |-> val])
  /\ UNCHANGED <<isCancelled, loopVars>>

\* A message sent succeeds while the stream lives.
CompleteSend(tag) ==
  /\ Complete(tag, ending = "none", Reply("none"))
  /\ UNCHANGED <<ending, inbox, server, sent>>

CompleteCreate ==
  \E ok \in BOOLEAN :
    /\ Complete("CREATE", ok, Reply("none"))
    /\ ending' = IF ok THEN ending ELSE "ERROR"
    /\ UNCHANGED <<inbox, server, sent>>

\* A read takes the next reply; once the stream has ended it may also fail.
CompleteRead ==
  \/ /\ inbox # <<>>
     /\ Complete("READ", TRUE, Head(inbox))
     /\ inbox' = Tail(inbox)
     /\ UNCHANGED <<ending, server, sent>>
  \/ /\ ending # "none"
     /\ Complete("READ", FALSE, Reply("none"))
     /\ UNCHANGED <<ending, inbox, server, sent>>

\* Finish completes once the stream has ended and no read is outstanding.
CompleteFinish ==
  /\ ending # "none" /\ "READ" \notin pending
  /\ Complete("FINISH", TRUE, Reply("none"))
  /\ UNCHANGED <<ending, inbox, server, sent>>

Transport ==
  \/ CompleteCreate \/ CompleteRead \/ CompleteFinish
  \/ \E tag \in {"WRITE", "WRITE_CANCEL", "WRITES_DONE"} : CompleteSend(tag)

\* The server sends a reply.
Send(reply) ==
  /\ ending = "none"
  /\ inbox' = Append(inbox, reply)
  /\ UNCHANGED <<isCancelled, loopVars, pending, queue, ending>>

\* The WatchCreateRequest has left the client.
Requested == loop \in {"start", "next", "end", "done"} /\ status = "OK"

ServerCreates ==
  /\ Requested /\ server = "none"
  /\ Send(Reply("created"))
  /\ server' = "active" /\ UNCHANGED sent

ServerEvents ==
  /\ server = "active" /\ sent < MaxEvents
  /\ Send(EventsN(sent + 1))
  /\ sent' = sent + 1 /\ UNCHANGED server

\* The server cancels the watch on its own, or on the client's request.
ServerCancels ==
  /\ server = "active"
  /\ Send(Reply("canceled")) \/ Send(Reply("compacted"))
  /\ server' = "cancelled" /\ UNCHANGED sent

\* The connection breaks, or the server ends the stream.
ConnectionEnds ==
  /\ loop # "create" /\ ending = "none"
  /\ ending' \in {"OK", "ERROR"}
  /\ UNCHANGED <<isCancelled, loopVars, pending, queue, inbox, server, sent>>

Environment == ServerCreates \/ ServerEvents \/ ServerCancels \/ ConnectionEnds

----------------------------------------------------------------------------
(* The client. *)

Post(tag) == pending' = pending \cup {tag}

\* cq_.Next or cq_.AsyncNext returns the event at the head of the queue.
Take == queue # <<>> /\ queue' = Tail(queue)

\* The event returned is the successful completion of `tag'.
Got(tag) == Head(queue).ok /\ Head(queue).tag = tag

\* context.TryCancel() ends the stream, replies not yet read included.
TryCancel ==
  /\ ending' = IF ending = "none" THEN "ERROR" ELSE ending
  /\ inbox' = <<>>

\* The constructor waits for the answer to one request and makes the next;
\* without it, nothing can be watched.
Construct(at, request, then, next) ==
  /\ loop = at
  /\ Take
  /\ IF Got(request)
     THEN Post(next) /\ loop' = then /\ UNCHANGED <<status, isCancelled>>
     ELSE /\ status' = "ERROR" /\ isCancelled' = TRUE
          /\ loop' = "start" /\ UNCHANGED pending
  /\ UNCHANGED <<finalRound, delivered, ending, inbox, server, sent>>

Create == Construct("create", "CREATE", "write", "WRITE")
Write  == Construct("write", "WRITE", "start", "READ")

\* The loop takes an event for which `condition' holds.
LoopTakes(condition) ==
  /\ loop = "next"
  /\ Take
  /\ condition

\* Mutant: a failed operation is ignored.
NotOkIgnored ==
  /\ LoopTakes(~Head(queue).ok)
  /\ UNCHANGED <<isCancelled, loopVars, pending, ending, inbox, server, sent>>

\* An operation failed: leave the loop.
NotOk ==
  /\ LoopTakes(~Head(queue).ok)
  /\ loop' = "end"
  /\ UNCHANGED <<isCancelled, status, finalRound, delivered,
                 pending, ending, inbox, server, sent>>

\* The cancel request was written: half-close the stream.
WriteCancelDone ==
  /\ LoopTakes(Got("WRITE_CANCEL"))
  /\ Post("WRITES_DONE")
  /\ UNCHANGED <<isCancelled, loopVars, ending, inbox, server, sent>>

\* Mutant: Finish is waited for without the 1-second limit.
WritesDoneUnlimited ==
  /\ LoopTakes(Got("WRITES_DONE"))
  /\ Post("FINISH")
  /\ UNCHANGED <<isCancelled, loopVars, ending, inbox, server, sent>>

\* The stream is half-closed: finish it, and wait for that only 1 second.
WritesDone ==
  /\ LoopTakes(Got("WRITES_DONE"))
  /\ finalRound' = TRUE
  /\ Post("FINISH")
  /\ UNCHANGED <<isCancelled, status, loop, delivered, ending, inbox, server, sent>>

Finish ==
  /\ LoopTakes(Got("FINISH"))
  /\ loop' = "end"
  /\ UNCHANGED <<isCancelled, status, finalRound, delivered,
                 pending, ending, inbox, server, sent>>

\* AsyncNext times out in the final round: shut the stream down.
FinalTimeout ==
  /\ loop = "next" /\ finalRound /\ queue = <<>>
  /\ TryCancel
  /\ loop' = "end"
  /\ UNCHANGED <<isCancelled, status, finalRound, delivered, pending, queue, server, sent>>

\* The reply says that the watch is cancelled: cancel the call, read no more.
\* What becomes of `delivered' is up to the overload.
ReadCanceled ==
  /\ LoopTakes(Got("READ") /\ Head(queue).val.kind \in {"canceled", "compacted"})
  /\ TryCancel
  /\ UNCHANGED <<isCancelled, status, loop, finalRound, pending, server, sent>>

LoopStep ==
  \/ NotOk \/ WriteCancelDone \/ WritesDone \/ Finish
  \/ FinalTimeout
=============================================================================
