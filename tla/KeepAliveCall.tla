--------------------------- MODULE KeepAliveCall ---------------------------
(***************************************************************************)
(* What the lease keep-alive stream (class AsyncLeaseKeepAliveAction in    *)
(* src/v3/AsyncGRPC.cpp) promises to its only user, class KeepAlive: one   *)
(* operation at a time, refreshes that stop succeeding for good after the  *)
(* first failure, and a cancellation that is final.  AsyncLeaseKeepAlive   *)
(* implements this specification; KeepAlive is built from its actions.     *)
(***************************************************************************)
VARIABLES
  op,           \* the operation in progress, "create" at first, "idle" between two
  isCancelled,  \* the stream was cancelled, or could not be created
  failed,       \* some refresh has failed
  result        \* what the last refresh returned

callVars == <<op, isCancelled, failed, result>>

\* A refresh returns the lease's new TTL ("ok"), a TTL of 0 ("expired"), or an
\* etcd::Response that is not ok ("error").
Failures == {"error", "expired"}
Results  == {"ok"} \cup Failures

CallTypeOK ==
  /\ op \in {"create", "idle", "refresh", "cancel"}
  /\ isCancelled \in BOOLEAN
  /\ failed \in BOOLEAN
  /\ result \in Results \cup {"none"}

CallInit ==
  /\ op = "create"
  /\ isCancelled = FALSE
  /\ failed = FALSE
  /\ result = "none"

\* The constructor returns.  It may have failed to open the stream, which is
\* then cancelled from the start.
CreateEnd ==
  /\ op = "create"
  /\ op' = "idle"
  /\ isCancelled' \in BOOLEAN
  /\ UNCHANGED <<failed, result>>

RefreshBegin ==
  /\ op = "idle"
  /\ op' = "refresh"
  /\ result' = "none"
  /\ UNCHANGED <<isCancelled, failed>>

CancelBegin ==
  /\ op = "idle"
  /\ op' = "cancel"
  /\ UNCHANGED <<isCancelled, failed, result>>

\* The stream is closed by a cancellation, or by a refresh that goes wrong.
CloseStream ==
  /\ op \in {"refresh", "cancel"}
  /\ ~isCancelled
  /\ isCancelled' = TRUE
  /\ UNCHANGED <<op, failed, result>>

\* A refresh succeeds only on an open stream, and only if none failed before;
\* on a closed stream it is an error, whatever state the lease is in.
RefreshEnd(r) ==
  /\ op = "refresh"
  /\ r = "ok" => ~isCancelled /\ ~failed
  /\ r = "expired" => ~isCancelled
  /\ op' = "idle"
  /\ result' = r
  /\ failed' = (failed \/ r # "ok")
  /\ UNCHANGED isCancelled

\* A cancellation returns with the stream closed.
CancelEnd ==
  /\ op = "cancel"
  /\ isCancelled
  /\ op' = "idle"
  /\ UNCHANGED <<isCancelled, failed, result>>

CallNext ==
  \/ CreateEnd
  \/ RefreshBegin
  \/ CancelBegin
  \/ CloseStream
  \/ \E r \in Results : RefreshEnd(r)
  \/ CancelEnd

CallSpec == CallInit /\ [][CallNext]_callVars
=============================================================================
