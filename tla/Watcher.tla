------------------------------- MODULE Watcher -------------------------------
(***************************************************************************)
(* Class Watcher (src/Watcher.cpp): a thread, task_, runs the callback     *)
(* overload of waitForResponse() until the stream ends, while user threads *)
(* call Wait(), Wait(callback) and Cancel() (the destructor is a Cancel()).*)
(***************************************************************************)
EXTENDS AsyncWatch

CONSTANT Users   \* threads that use the watcher

VARIABLES
  pc,            \* where each user thread is
  cancelled,     \* Watcher::cancelled: some Wait() has taken the join
  waitCallback   \* Watcher::wait_callback: "unset", "set", or "called"

userVars == <<pc, cancelled, waitCallback>>
vars == <<watchVars, userVars>>

TypeOK ==
  /\ WatchTypeOK
  /\ pc \in [Users -> {"idle", "cancel", "write", "wait", "join"}]
  /\ cancelled \in BOOLEAN
  /\ waitCallback \in {"unset", "set", "called"}

\* A wait callback may be given to the constructor.
Init ==
  /\ WatchInit
  /\ pc = [u \in Users |-> "idle"]
  /\ cancelled = FALSE
  /\ waitCallback \in {"unset", "set"}

----------------------------------------------------------------------------
(* task_ *)

\* callback(response)
Deliver(reply) == delivered' = Append(delivered, reply)

\* Lines 1390-1396: a stream that could not be opened is reported, and the
\* loop is entered all the same.
Start ==
  /\ loop = "start" /\ loop' = "next"
  /\ IF status = "OK" THEN UNCHANGED delivered ELSE Deliver(Reply("failed"))
  /\ UNCHANGED <<isCancelled, status, finalRound, streamVars>>

\* Lines 1441-1452.
CallbackCanceled ==
  /\ ReadCanceled
  /\ IF Head(queue).val.kind = "compacted"
     THEN Deliver(Head(queue).val)
     ELSE UNCHANGED delivered

\* Mutant: events that come after CancelWatch() are dropped.
CallbackUnlessCancelled ==
  /\ LoopTakes(Got("READ") /\ Head(queue).val.kind \in {"created", "events"})
  /\ IF Head(queue).val.kind = "events" /\ ~isCancelled
     THEN Deliver(Head(queue).val)
     ELSE UNCHANGED delivered
  /\ Post("READ")
  /\ UNCHANGED <<isCancelled, status, loop, finalRound, ending, inbox, server, sent>>

\* Lines 1454-1464: events are handed to the callback, and the next reply is
\* read once it has returned.
CallbackEvents ==
  /\ LoopTakes(Got("READ") /\ Head(queue).val.kind \in {"created", "events"})
  /\ IF Head(queue).val.kind = "events"
     THEN Deliver(Head(queue).val)
     ELSE UNCHANGED delivered
  /\ Post("READ")
  /\ UNCHANGED <<isCancelled, status, loop, finalRound, ending, inbox, server, sent>>

\* The loop has ended: the wait callback set by now is called.
End ==
  /\ loop = "end" /\ loop' = "done"
  /\ waitCallback' = IF waitCallback = "set" THEN "called" ELSE waitCallback
  /\ UNCHANGED <<isCancelled, status, finalRound, delivered, streamVars, pc, cancelled>>

TaskStep ==
  \/ /\ Create \/ Write \/ Start \/ LoopStep \/ CallbackCanceled \/ CallbackEvents
     /\ UNCHANGED userVars
  \/ End

----------------------------------------------------------------------------
(* User threads. *)

Goto(u, from, to) == pc[u] = from /\ pc' = [pc EXCEPT ![u] = to]

\* The constructor of Watcher has returned.
Constructed == loop \notin {"create", "write"}

CallCancel(u) ==
  /\ Constructed
  /\ Goto(u, "idle", "cancel")
  /\ UNCHANGED <<watchVars, cancelled, waitCallback>>

\* CancelWatch(): the first caller writes the cancel request.  Cancel() then
\* goes on with Wait().
ExchangeCancelled(u) ==
  /\ Goto(u, "cancel", IF isCancelled THEN "wait" ELSE "write")
  /\ isCancelled' = TRUE
  /\ UNCHANGED <<loopVars, streamVars, cancelled, waitCallback>>

WriteCancel(u) ==
  /\ Goto(u, "write", "wait")
  /\ Post("WRITE_CANCEL")
  /\ UNCHANGED <<isCancelled, loopVars, queue, ending, inbox, server, sent,
                 cancelled, waitCallback>>

CallWait(u) ==
  /\ Constructed
  /\ Goto(u, "idle", "wait")
  /\ UNCHANGED <<watchVars, cancelled, waitCallback>>

\* Wait(): the first caller joins the thread, the others return.
ExchangeJoin(u) ==
  /\ Goto(u, "wait", IF cancelled THEN "idle" ELSE "join")
  /\ cancelled' = TRUE
  /\ UNCHANGED <<watchVars, waitCallback>>

\* Mutant: Wait() does not wait for the thread.
JoinEarly(u) ==
  /\ Goto(u, "join", "idle")
  /\ UNCHANGED <<watchVars, cancelled, waitCallback>>

Join(u) ==
  /\ loop = "done"
  /\ Goto(u, "join", "idle")
  /\ UNCHANGED <<watchVars, cancelled, waitCallback>>

\* Wait(callback): kept unless there is one already.
SetWaitCallback(u) ==
  /\ Constructed
  /\ pc[u] = "idle"
  /\ waitCallback = "unset" /\ waitCallback' = "set"
  /\ UNCHANGED <<watchVars, pc, cancelled>>

UserStep(u) == ExchangeCancelled(u) \/ WriteCancel(u) \/ ExchangeJoin(u) \/ Join(u)

UserCalls(u) == CallCancel(u) \/ CallWait(u) \/ SetWaitCallback(u)

Next ==
  \/ TaskStep
  \/ \E u \in Users : UserCalls(u) \/ UserStep(u)
  \/ (Transport \/ Environment) /\ UNCHANGED userVars

Spec == Init /\ [][Next]_vars

\* The threads run and the local transport completes what it can; the server
\* need not say anything.
FairSpec ==
  /\ Spec
  /\ WF_vars(TaskStep)
  /\ WF_vars(Transport /\ UNCHANGED userVars)
  /\ \A u \in Users : WF_vars(UserStep(u))

----------------------------------------------------------------------------
(* Properties. *)

\* The members of a sequence.
Members(s) == {s[i] : i \in 1 .. Len(s)}

\* Every reply with events reaches the callback once, in the order sent and with
\* none left out; while the stream lives, what has not reached it is still on its
\* way, also after Cancel() was called.
EventsInOrder ==
  /\ \A i \in 1 .. Len(delivered) : delivered[i].kind = "events" => delivered[i].n = i
  /\ (ending = "none" /\ loop = "next") =>
       \A n \in 1 .. sent :
         EventsN(n) \in Members(delivered) \cup Members(inbox)
                          \cup {event.val : event \in Members(queue)}

\* Once somebody has called Cancel() or Wait() and no thread is left in the
\* join, the task has ended: the callback does not run any more (README.md
\* line 740), and the object may be destroyed.
StoppedOnceJoined ==
  (cancelled /\ \A u \in Users : pc[u] # "join") => loop = "done"

\* On a stream that could be opened, Cancel() returns even if the server never
\* answers: the cancel request, the half-close and the 1-second wait for
\* Finish lead out of the loop in every order of completions.
CancelReturns ==
  \A u \in Users : (pc[u] = "cancel" /\ status = "OK") ~> pc[u] = "idle"

\* A lost connection stops the task, unless the server cancelled the watch.
ConnectionLossStops ==
  (Constructed /\ status = "OK" /\ ending # "none" /\ server # "cancelled")
     ~> loop = "done"

=============================================================================
