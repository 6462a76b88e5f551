---------------------------- MODULE OneShotWatch ----------------------------
(***************************************************************************)
(* SyncClient::watch() (src/SyncClient.cpp): Response::create() runs the   *)
(* overload of AsyncWatchAction::waitForResponse() without a callback,     *)
(* which cancels its own watch at the first reply worth returning, and     *)
(* then parses the last reply read.                                        *)
(***************************************************************************)
EXTENDS AsyncWatch

VARIABLES
  future,  \* the watch starts at a revision the store has not reached
  reply,   \* AsyncWatchAction::reply, the last reply read
  result   \* what watch() returned: an error, or the reply

oneShotVars == <<watchVars, future, reply, result>>

OneShotTypeOK ==
  /\ WatchTypeOK
  /\ future \in BOOLEAN
  /\ reply \in Replies
  /\ result \in Replies

OneShotInit ==
  /\ WatchInit
  /\ future \in BOOLEAN
  /\ reply = Reply("none")
  /\ result = Reply("none")

\* Lines 1293-1296.
OneShotStart ==
  /\ loop = "start"
  /\ loop' = IF status = "OK" THEN "next" ELSE "end"
  /\ UNCHANGED <<isCancelled, status, finalRound, delivered, streamVars>>

\* Lines 1343-1348.
WatchCanceled ==
  /\ ReadCanceled
  /\ reply' = Head(queue).val
  /\ UNCHANGED delivered

\* Mutant: only events are worth returning.
EventsOnly(r) == r.kind = "events"

\* Lines 1350-1357: events, or the creation of a watch for a future revision.
Effective(r) == r.kind = "events" \/ (r.kind = "created" /\ future)

\* Mutant: the next reply is read although the watch is being cancelled.
ReadEffectiveAndNext ==
  /\ LoopTakes(Got("READ") /\ Effective(Head(queue).val))
  /\ reply' = Head(queue).val
  /\ isCancelled' = TRUE
  /\ pending' = pending \cup {"WRITE_CANCEL", "READ"}
  /\ UNCHANGED <<loopVars, ending, inbox, server, sent>>

\* Lines 1365-1370 and CancelWatch(): the cancel request is written, and a
\* read into nullptr is started with the tag WATCH_FINISH.  gRPC has nothing
\* to do for such a read and completes it at once; the write may be faster.
ReadEffective ==
  /\ loop = "next" /\ queue # <<>>
  /\ Got("READ") /\ Effective(Head(queue).val)
  /\ reply' = Head(queue).val
  /\ isCancelled' = TRUE
  /\ LET finish == [tag |-> "FINISH", ok |-> TRUE, val |-> Reply("none")]
         write  == [tag |-> "WRITE_CANCEL", ok |-> ending = "none", val |-> Reply("none")]
     IN  \/ queue' = Append(Tail(queue), finish) /\ Post("WRITE_CANCEL")
         \/ queue' = Tail(queue) \o <<write, finish>> /\ UNCHANGED pending
  /\ UNCHANGED <<loopVars, ending, inbox, server, sent>>

\* Any other reply of a watch that is not cancelled.
Other(r) == r.kind \in {"created", "events"} /\ ~Effective(r)

\* Lines 1371-1374.
ReadOther ==
  /\ LoopTakes(Got("READ") /\ Other(Head(queue).val))
  /\ reply' = Head(queue).val
  /\ Post("READ")
  /\ UNCHANGED <<isCancelled, loopVars, ending, inbox, server, sent>>

\* Response::create(): parse the reply, or report the status.  A reply that
\* says "compacted" is an error; any other is returned as a success.
Return ==
  /\ loop = "end" /\ loop' = "done"
  /\ result' = IF status = "OK" THEN reply ELSE Reply("failed")
  /\ UNCHANGED <<isCancelled, status, finalRound, delivered, streamVars, reply>>

ClientStep ==
  \/ (Create \/ Write \/ OneShotStart \/ LoopStep) /\ UNCHANGED <<reply, result>>
  \/ (WatchCanceled \/ ReadEffective \/ ReadOther) /\ UNCHANGED result
  \/ Return

OneShotNext ==
  /\ \/ ClientStep
     \/ (Transport \/ Environment) /\ UNCHANGED <<reply, result>>
  /\ UNCHANGED future

OneShotSpec == OneShotInit /\ [][OneShotNext]_oneShotVars

\* The thread runs and the local transport completes what it can; the server
\* need not say anything.
OneShotFairSpec ==
  /\ OneShotSpec
  /\ WF_oneShotVars(ClientStep /\ UNCHANGED future)
  /\ WF_oneShotVars(Transport /\ UNCHANGED <<future, reply, result>>)

----------------------------------------------------------------------------
(* Properties. *)

\* The events that watch() returns are the first that the server sent: none
\* before them was read and dropped.
FirstChange == result.kind = "events" => result.n = 1

\* Once the server has sent events, or has created a watch for a future
\* revision, watch() returns: the cancel request and the read into nullptr lead
\* out of the loop in every order of completions, and also if the connection is
\* lost meanwhile.
WatchReturns ==
  (sent > 0 \/ (future /\ server # "none")) ~> loop = "done"

=============================================================================
