--------------------- MODULE AsyncLeaseKeepAliveProofs ---------------------
(***************************************************************************)
(* What AsyncLeaseKeepAlive keeps invariant, and that it implements        *)
(* KeepAliveCall: the promises on which KeepAlive is built hold in every   *)
(* behaviour of the stream, however late, failed or lost its completions.  *)
(***************************************************************************)
EXTENDS AsyncLeaseKeepAlive, Integers, SequenceTheorems, TLAPS

----------------------------------------------------------------------------
(* The inductive invariant. *)

\* A read that succeeded delivers a TTL, a Finish delivers a status.
EventSound(e) ==
  /\ e.tag = "READ" => e.val \in {"none", "positive", "zero"}
  /\ (e.tag = "READ" /\ e.ok = TRUE) => e.val \in {"positive", "zero"}
  /\ e.tag = "FINISH" => e.val \in {"OK", "ERROR"}

QueueSound == \A i \in 1 .. Len(queue) : EventSound(queue[i])

\* The program counter, the operation it is in, and the flag.
Control ==
  /\ pc = "create" <=> op = "create"
  /\ pc = "idle" <=> op = "idle"
  /\ pc \in {"refresh", "write", "read"} => op = "refresh"
  /\ pc \in {"cancel", "done", "finish"} => op \in {"refresh", "cancel"}
  /\ pc \in {"create", "write", "read"} => isCancelled = FALSE
  /\ (pc = "cancel" /\ op = "refresh") => isCancelled = FALSE
  /\ pc \in {"done", "finish"} => isCancelled = TRUE

\* The operation `tag' is the only one in flight: not completed, or completed
\* and its event not taken.
Only(tag) ==
  \/ pending = {tag} /\ queue = <<>>
  \/ pending = {} /\ Len(queue) = 1 /\ queue[1].tag = tag

\* A refresh whose write timed out, until it returns what it then parses.
LateParse == op = "refresh" /\ after = "parse"

\* What is in flight on a stream that is not cancelled.
InFlight ==
  /\ pc = "create" => Only("CREATE")
  /\ (pc \in {"idle", "refresh"} /\ isCancelled = FALSE) => pending = {} /\ queue = <<>>
  /\ pc = "write" => Only("WRITE")
  /\ pc = "read" => Only("READ")
  /\ (pc = "cancel" /\ LateParse) => Only("WRITE")

\* What is in flight while the stream is closed after a write that timed out:
\* the first completion is the late one of the write, the second is the
\* half-close or a Finish that failed, so neither brings back status OK.
ClosingDone ==
  \/ pending = {"WRITE", "DONE"} /\ queue = <<>>
  \/ pending = {"DONE"} /\ Len(queue) = 1 /\ queue[1].tag = "WRITE"
  \/ pending = {} /\ Len(queue) = 2 /\ queue[1].tag = "WRITE" /\ queue[2].tag = "DONE"

HarmlessEvent(e) == e.tag = "DONE" \/ (e.tag = "FINISH" /\ e.val = "ERROR")

ClosingFinish ==
  \/ /\ "DONE" \in pending
     /\ pending \subseteq {"DONE", "FINISH"}
     /\ \A i \in 1 .. Len(queue) : HarmlessEvent(queue[i])
  \/ /\ pending \subseteq {"FINISH"}
     /\ queue # <<>>
     /\ HarmlessEvent(queue[1])

Closing ==
  /\ (LateParse /\ pc \in {"cancel", "done", "finish"}) => status = "ERROR"
  /\ (LateParse /\ pc = "done") => ClosingDone
  /\ (LateParse /\ pc = "finish") => ClosingFinish
  /\ ending = "OK" => isCancelled = TRUE /\ "DONE" \notin pending

\* Why no refresh succeeds after one that failed: the stream is cancelled, or
\* has ended, so that every write fails, or the lease is gone, so that every
\* answer has a TTL of 0.
Doomed ==
  /\ pc = "create" => failed = FALSE
  /\ (pc \in {"create", "idle", "refresh", "write", "read"} /\ isCancelled = FALSE)
        => status = "OK"
  /\ (pc \in {"idle", "refresh"} /\ isCancelled = FALSE /\ failed = TRUE)
        => ending # "none" \/ leaseAlive = FALSE
  /\ (pc = "write" /\ queue # <<>> /\ queue[1].ok = FALSE) => ending # "none"
  /\ (pc = "write" /\ failed = TRUE)
        => \/ leaseAlive = FALSE
           \/ ending # "none" /\ (queue # <<>> => queue[1].ok = FALSE)
  /\ (pc = "read" /\ queue # <<>> /\ queue[1].val = "zero") => leaseAlive = FALSE
  /\ (pc = "read" /\ failed = TRUE)
        => leaseAlive = FALSE /\ (queue # <<>> => queue[1].val # "positive")

Fresh == result \in {"ok", "expired"} => answered = TRUE

IInv ==
  /\ TypeOK /\ QueueSound /\ Control /\ InFlight /\ Closing /\ Doomed /\ Fresh
----------------------------------------------------------------------------
(* Lemmas about the completion queue. *)

\* What Take returns and what it leaves.
LEMMA HeadAndTail ==
  ASSUME NEW q \in Seq(Events), q # <<>>
  PROVE  /\ Head(q) = q[1] /\ q[1] \in Events
         /\ Len(q) \in Nat /\ Len(q) >= 1
         /\ Tail(q) \in Seq(Events) /\ Len(Tail(q)) = Len(q) - 1
         /\ \A i \in 1 .. Len(q) - 1 : Tail(q)[i] = q[i + 1]
         /\ Len(q) = 1 => Tail(q) = <<>>
<1>1. /\ Len(q) \in Nat /\ Len(q) >= 1 /\ q[1] \in Events
      /\ Head(q) = q[1]
  BY EmptySeq, LenProperties, ElementOfSeq
<1>2. /\ Tail(q) \in Seq(Events) /\ Len(Tail(q)) = Len(q) - 1
      /\ \A i \in 1 .. Len(q) - 1 : Tail(q)[i] = q[i + 1]
  BY HeadTailProperties
<1>3. Len(q) = 1 => Tail(q) = <<>>
  <2>1. Tail(q) # <<>> => Len(Tail(q)) # 0
    BY <1>2, EmptySeq
  <2> QED
    BY <1>1, <1>2, <2>1
<1> QED
  BY <1>1, <1>2, <1>3

\* What a completion leaves in the queue.
LEMMA Appended ==
  ASSUME NEW q \in Seq(Events), NEW e \in Events
  PROVE  /\ Append(q, e) \in Seq(Events) /\ Append(q, e) # <<>>
         /\ Len(q) \in Nat /\ Len(Append(q, e)) = Len(q) + 1
         /\ \A i \in 1 .. Len(q) : Append(q, e)[i] = q[i]
         /\ Append(q, e)[Len(q) + 1] = e
         /\ q = <<>> => Append(q, e)[1] = e /\ Len(Append(q, e)) = 1
<1>1. /\ Append(q, e) \in Seq(Events) /\ Append(q, e) # <<>>
      /\ Len(q) \in Nat /\ Len(Append(q, e)) = Len(q) + 1
      /\ \A i \in 1 .. Len(q) : Append(q, e)[i] = q[i]
      /\ Append(q, e)[Len(q) + 1] = e
  BY AppendProperties, LenProperties
<1>2. q = <<>> => Len(q) = 0
  BY EmptySeq
<1> QED
  BY <1>1, <1>2

----------------------------------------------------------------------------
(* The invariant is inductive. *)

\* A refresh that has closed the stream returns an error: what its completions
\* store never turns the response of a timed-out write into a TTL.
LEMMA ClosedRefreshFails ==
  ASSUME IInv, Finished
  PROVE  /\ status' \in {"OK", "ERROR"} /\ reply' \in {"none", "positive", "zero"}
         /\ op = "refresh" => result' = "error" /\ failed' = TRUE
<1>1. queue \in Seq(Events) /\ queue # <<>>
  BY DEF IInv, TypeOK, Finished, Take, Absorb
<1>2. queue[1] \in Events /\ Head(queue) = queue[1] /\ EventSound(queue[1])
  BY <1>1, HeadAndTail DEF IInv, QueueSound
<1>3. status' \in {"OK", "ERROR"} /\ reply' \in {"none", "positive", "zero"}
  BY <1>2 DEF IInv, TypeOK, EventSound, Finished, Absorb, Got
<1>4. LateParse => status' = "ERROR"
  <2>1. LateParse => status = "ERROR" /\ HarmlessEvent(queue[1])
    BY <1>1 DEF IInv, Closing, ClosingFinish, Finished
  <2> QED
    BY <2>1 DEF HarmlessEvent, Finished, Absorb, Got
<1>5. op = "refresh" => result' = "error" /\ failed' = TRUE
  BY <1>4 DEF LateParse, Finished, ReturnRefresh, ParseResponse
<1> QED
  BY <1>3, <1>5

\* Every step of the stream keeps the invariant.
LEMMA InvInductive == IInv /\ [Next]_vars => IInv'
<1> SUFFICES ASSUME IInv, [Next]_vars PROVE IInv'
  OBVIOUS
<1>1. CASE RefreshBegin
  <2>1. TypeOK'
    BY <1>1 DEF TypeOK, IInv, RefreshBegin, streamVars
  <2>2. QueueSound'
    BY <1>1 DEF IInv, QueueSound, RefreshBegin, streamVars
  <2>3. Control'
    BY <1>1 DEF Control, RefreshBegin
  <2>4. InFlight'
    BY <1>1 DEF IInv, InFlight, RefreshBegin, streamVars
  <2>5. Closing'
    BY <1>1 DEF IInv, Closing, RefreshBegin, streamVars
  <2>6. Doomed'
    BY <1>1 DEF IInv, Doomed, RefreshBegin, streamVars
  <2>7. Fresh'
    BY <1>1 DEF Fresh, RefreshBegin
  <2> QED
    BY <2>1, <2>2, <2>3, <2>4, <2>5, <2>6, <2>7 DEF IInv
<1>2. CASE CancelBegin
  <2>1. TypeOK'
    BY <1>2 DEF TypeOK, IInv, CancelBegin, streamVars
  <2>2. QueueSound'
    BY <1>2 DEF IInv, QueueSound, CancelBegin, streamVars
  <2>3. Control'
    BY <1>2 DEF Control, CancelBegin
  <2>4. InFlight'
    BY <1>2 DEF InFlight, LateParse, CancelBegin
  <2>5. Closing'
    BY <1>2 DEF IInv, LateParse, Closing, CancelBegin, streamVars
  <2>6. Doomed'
    BY <1>2 DEF Doomed, CancelBegin
  <2>7. Fresh'
    BY <1>2 DEF IInv, Fresh, CancelBegin
  <2> QED
    BY <2>1, <2>2, <2>3, <2>4, <2>5, <2>6, <2>7 DEF IInv
<1>3. CASE Create
  <2>0. /\ queue \in Seq(Events) /\ queue # <<>> /\ queue' = Tail(queue)
    BY <1>3 DEF IInv, TypeOK, Create, Take
  <2>1. TypeOK'
    BY <1>3, <2>0 DEF TypeOK, IInv, Create
  <2>2. QueueSound'
    BY <2>0 DEF IInv, QueueSound
  <2>3. Control'
    BY <1>3 DEF Control, Create
  <2>4. InFlight'
    BY <1>3, <2>0 DEF IInv, InFlight, Only, Create
  <2>5. Closing'
    BY <1>3 DEF IInv, Control, Closing, Create
  <2>6. Doomed'
    BY <1>3 DEF IInv, Control, Doomed, Create
  <2>7. Fresh'
    BY <1>3 DEF IInv, Fresh, Create
  <2> QED
    BY <2>1, <2>2, <2>3, <2>4, <2>5, <2>6, <2>7 DEF IInv
<1>4. CASE RefreshCancelled
  <2>1. TypeOK'
    BY <1>4 DEF TypeOK, IInv, RefreshCancelled, streamVars, ReturnRefresh
  <2>2. QueueSound'
    BY <1>4 DEF IInv, QueueSound, RefreshCancelled, streamVars
  <2>3. Control'
    BY <1>4 DEF Control, RefreshCancelled, ReturnRefresh
  <2>4. InFlight'
    BY <1>4 DEF InFlight, RefreshCancelled, ReturnRefresh
  <2>5. Closing'
    BY <1>4 DEF IInv, Closing, RefreshCancelled, streamVars, ReturnRefresh
  <2>6. Doomed'
    BY <1>4 DEF Doomed, RefreshCancelled, ReturnRefresh
  <2>7. Fresh'
    BY <1>4 DEF Fresh, RefreshCancelled, ReturnRefresh
  <2> QED
    BY <2>1, <2>2, <2>3, <2>4, <2>5, <2>6, <2>7 DEF IInv
<1>5. CASE Write
  <2>1. TypeOK'
    BY <1>5 DEF TypeOK, IInv, Write, Post, Tags
  <2>2. QueueSound'
    BY <1>5 DEF IInv, QueueSound, Write
  <2>3. Control'
    BY <1>5 DEF IInv, Control, Write
  <2>4. InFlight'
    BY <1>5 DEF IInv, InFlight, Only, Write, Post
  <2>5. Closing'
    BY <1>5 DEF IInv, Closing, Write
  <2>6. Doomed'
    BY <1>5 DEF IInv, InFlight, Doomed, Write
  <2>7. Fresh'
    BY <1>5 DEF IInv, Fresh, Write
  <2> QED
    BY <2>1, <2>2, <2>3, <2>4, <2>5, <2>6, <2>7 DEF IInv
<1>6. CASE WriteDone
  <2>0. /\ queue \in Seq(Events) /\ queue # <<>> /\ queue' = Tail(queue)
    BY <1>6 DEF IInv, TypeOK, WriteDone, Take
  <2>1. TypeOK'
    BY <1>6, <2>0 DEF TypeOK, IInv, WriteDone, Post, Tags
  <2>2. QueueSound'
    BY <2>0 DEF IInv, QueueSound
  <2>3. Control'
    BY <1>6 DEF IInv, Control, WriteDone
  <2>4. InFlight'
    BY <1>6, <2>0 DEF IInv, InFlight, Only, WriteDone, Post
  <2>5. Closing'
    BY <1>6 DEF IInv, Control, Closing, WriteDone
  <2>6. Doomed'
    BY <1>6 DEF IInv, InFlight, Only, Doomed, WriteDone, Take, Got
  <2>7. Fresh'
    BY <1>6 DEF IInv, Fresh, WriteDone
  <2> QED
    BY <2>1, <2>2, <2>3, <2>4, <2>5, <2>6, <2>7 DEF IInv
<1>7. CASE WriteFailed
  <2>0. /\ queue \in Seq(Events) /\ queue # <<>> /\ queue' = Tail(queue)
    BY <1>7 DEF IInv, TypeOK, WriteFailed, Take
  <2>1. TypeOK'
    BY <1>7, <2>0 DEF TypeOK, IInv, WriteFailed, ReturnRefresh
  <2>2. QueueSound'
    BY <2>0 DEF IInv, QueueSound
  <2>3. Control'
    BY <1>7 DEF IInv, Control, WriteFailed, ReturnRefresh
  <2>4. InFlight'
    BY <1>7, <2>0 DEF IInv, InFlight, Only, LateParse, WriteFailed, ReturnRefresh
  <2>5. Closing'
    BY <1>7 DEF IInv, LateParse, Closing, WriteFailed, ReturnRefresh
  <2>6. Doomed'
    BY <1>7 DEF IInv, InFlight, Only, Doomed, WriteFailed, Take, Got, ReturnRefresh
  <2>7. Fresh'
    BY <1>7 DEF IInv, Fresh, WriteFailed, ReturnRefresh
  <2> QED
    BY <2>1, <2>2, <2>3, <2>4, <2>5, <2>6, <2>7 DEF IInv
<1>8. CASE WriteTimeout
  <2>1. TypeOK'
    BY <1>8 DEF TypeOK, IInv, WriteTimeout, TimedOut
  <2>2. QueueSound'
    BY <1>8 DEF QueueSound, WriteTimeout, TimedOut
  <2>3. Control'
    BY <1>8 DEF IInv, Control, WriteTimeout
  <2>4. InFlight'
    BY <1>8 DEF IInv, InFlight, Only, WriteTimeout, TimedOut
  <2>5. Closing'
    BY <1>8 DEF IInv, Closing, WriteTimeout
  <2>6. Doomed'
    BY <1>8 DEF Doomed, WriteTimeout
  <2>7. Fresh'
    BY <1>8 DEF IInv, Fresh, WriteTimeout
  <2> QED
    BY <2>1, <2>2, <2>3, <2>4, <2>5, <2>6, <2>7 DEF IInv
<1>9. CASE ReadDone
  <2>0. /\ queue \in Seq(Events) /\ queue # <<>> /\ queue' = Tail(queue)
    BY <1>9 DEF IInv, TypeOK, ReadDone, Take
  <2>1. TypeOK'
    BY <1>9
       DEF TypeOK, IInv, QueueSound, ReadDone, Take, Got, ReturnRefresh, ParseResponse,
           EventSound
  <2>2. QueueSound'
    BY <2>0 DEF IInv, QueueSound
  <2>3. Control'
    BY <1>9 DEF Control, ReadDone, ReturnRefresh
  <2>4. InFlight'
    BY <1>9, <2>0 DEF IInv, InFlight, Only, ReadDone, ReturnRefresh
  <2>5. Closing'
    BY <1>9 DEF IInv, Closing, ReadDone, ReturnRefresh
  <2>6. Doomed'
    BY <1>9
       DEF TypeOK, IInv, Doomed, QueueSound, ReadDone, Take, Got, ReturnRefresh,
           ParseResponse, EventSound
  <2>7. Fresh'
    BY <1>9 DEF Fresh, ReadDone
  <2> QED
    BY <2>1, <2>2, <2>3, <2>4, <2>5, <2>6, <2>7 DEF IInv
<1>10. CASE ReadFailed
  <2>0. /\ queue \in Seq(Events) /\ queue # <<>> /\ queue' = Tail(queue)
    BY <1>10 DEF IInv, TypeOK, ReadFailed, Take
  <2>1. TypeOK'
    BY <1>10, <2>0 DEF TypeOK, IInv, ReadFailed
  <2>2. QueueSound'
    BY <2>0 DEF IInv, QueueSound
  <2>3. Control'
    BY <1>10 DEF IInv, Control, ReadFailed
  <2>4. InFlight'
    BY <1>10 DEF InFlight, LateParse, ReadFailed
  <2>5. Closing'
    BY <1>10 DEF IInv, LateParse, Closing, ReadFailed
  <2>6. Doomed'
    BY <1>10 DEF Doomed, ReadFailed
  <2>7. Fresh'
    BY <1>10 DEF IInv, Fresh, ReadFailed
  <2> QED
    BY <2>1, <2>2, <2>3, <2>4, <2>5, <2>6, <2>7 DEF IInv
<1>11. CASE ReadTimeout
  <2>1. TypeOK'
    BY <1>11 DEF TypeOK, IInv, ReadTimeout, TimedOut
  <2>2. QueueSound'
    BY <1>11 DEF QueueSound, ReadTimeout, TimedOut
  <2>3. Control'
    BY <1>11 DEF IInv, Control, ReadTimeout
  <2>4. InFlight'
    BY <1>11 DEF InFlight, LateParse, ReadTimeout
  <2>5. Closing'
    BY <1>11 DEF IInv, Closing, ReadTimeout
  <2>6. Doomed'
    BY <1>11 DEF Doomed, ReadTimeout
  <2>7. Fresh'
    BY <1>11 DEF IInv, Fresh, ReadTimeout
  <2> QED
    BY <2>1, <2>2, <2>3, <2>4, <2>5, <2>6, <2>7 DEF IInv
<1>12. CASE CancelAgain
  <2>1. TypeOK'
    BY <1>12 DEF TypeOK, IInv, CancelAgain, streamVars
  <2>2. QueueSound'
    BY <1>12 DEF IInv, QueueSound, CancelAgain, streamVars
  <2>3. Control'
    BY <1>12 DEF Control, CancelAgain
  <2>4. InFlight'
    BY <1>12 DEF InFlight, CancelAgain
  <2>5. Closing'
    BY <1>12 DEF IInv, Closing, CancelAgain, streamVars
  <2>6. Doomed'
    BY <1>12 DEF Doomed, CancelAgain
  <2>7. Fresh'
    BY <1>12 DEF IInv, Fresh, CancelAgain
  <2> QED
    BY <2>1, <2>2, <2>3, <2>4, <2>5, <2>6, <2>7 DEF IInv
<1>13. CASE WritesDone
  <2>1. TypeOK'
    BY <1>13 DEF TypeOK, IInv, WritesDone, Post, Tags
  <2>2. QueueSound'
    BY <1>13 DEF IInv, QueueSound, WritesDone
  <2>3. Control'
    BY <1>13 DEF IInv, Control, WritesDone
  <2>4. InFlight'
    BY <1>13 DEF InFlight, WritesDone
  <2>5. Closing'
    BY <1>13 DEF IInv, InFlight, Only, LateParse, Closing, ClosingDone, WritesDone, Post
  <2>6. Doomed'
    BY <1>13 DEF Doomed, WritesDone
  <2>7. Fresh'
    BY <1>13 DEF IInv, Fresh, WritesDone
  <2> QED
    BY <2>1, <2>2, <2>3, <2>4, <2>5, <2>6, <2>7 DEF IInv
<1>14. CASE Finish
  <2>0. /\ queue \in Seq(Events) /\ queue # <<>> /\ queue' = Tail(queue)
    BY <1>14 DEF IInv, TypeOK, Finish, Take, Absorb
  <2>1. TypeOK'
    BY <1>14 DEF TypeOK, IInv, QueueSound, Finish, Take, Got, Post, Absorb, EventSound, Tags
  <2>2. QueueSound'
    BY <2>0 DEF IInv, QueueSound
  <2>3. Control'
    BY <1>14 DEF IInv, Control, Finish
  <2>4. InFlight'
    BY <1>14 DEF InFlight, Finish
  <2>5. Closing'
    <3>1. /\ op' = op /\ after' = after /\ ending' = ending /\ pc' = "finish"
          /\ isCancelled' = isCancelled
          /\ pending' = pending \cup {"FINISH"}
      BY <1>14 DEF Finish, Post
    <3>2. ASSUME LateParse
          PROVE  status' = "ERROR" /\ ClosingFinish'
      <4>1. status = "ERROR" /\ ClosingDone
        BY <1>14, <3>2 DEF IInv, Closing, Finish
      <4>2. queue[1].tag = "WRITE" /\ pending \in {{"DONE"}, {}}
        BY <2>0, <4>1, HeadAndTail DEF ClosingDone
      <4>3. status' = "ERROR"
        BY <1>14, <4>1, <4>2 DEF Finish, Absorb, Got
      <4>4. CASE pending = {"DONE"}
        <5>1. queue' = <<>>
          BY <2>0, <4>1, <4>4, HeadAndTail DEF ClosingDone
        <5> QED
          BY <3>1, <4>3, <4>4, <5>1 DEF ClosingFinish
      <4>5. CASE pending = {}
        <5>1. Len(queue) = 2 /\ queue[2].tag = "DONE"
          BY <4>1, <4>5 DEF ClosingDone
        <5>2. Len(queue') = 1 /\ queue'[1].tag = "DONE"
          BY <2>0, <5>1, HeadAndTail
        <5> QED
          BY <3>1, <4>3, <4>5, <5>2 DEF ClosingFinish, HarmlessEvent
      <4> QED
        BY <4>2, <4>4, <4>5
    <3> QED
      BY <3>1, <3>2 DEF IInv, Closing, LateParse
  <2>6. Doomed'
    BY <1>14 DEF Doomed, Finish
  <2>7. Fresh'
    BY <1>14 DEF IInv, Fresh, Finish
  <2> QED
    BY <2>1, <2>2, <2>3, <2>4, <2>5, <2>6, <2>7 DEF IInv
<1>15. CASE Finished
  <2>0. /\ queue \in Seq(Events) /\ queue # <<>> /\ queue' = Tail(queue)
    BY <1>15 DEF IInv, TypeOK, Finished, Take, Absorb
  <2>9. /\ status' \in {"OK", "ERROR"} /\ reply' \in {"none", "positive", "zero"}
        /\ op = "refresh" => result' = "error" /\ failed' = TRUE
    BY <1>15, ClosedRefreshFails
  <2>1. TypeOK'
    BY <1>15, <2>0, <2>9, HeadAndTail DEF IInv, TypeOK, Control, Finished, ReturnRefresh
  <2>2. QueueSound'
    BY <2>0, HeadAndTail DEF IInv, QueueSound
  <2>3. Control'
    BY <1>15 DEF Control, Finished, ReturnRefresh
  <2>4. InFlight'
    BY <1>15 DEF IInv, Control, InFlight, Finished, ReturnRefresh
  <2>5. Closing'
    BY <1>15 DEF IInv, Closing, Finished, ReturnRefresh
  <2>6. Doomed'
    BY <1>15 DEF IInv, Control, Doomed, Finished, ReturnRefresh
  <2>7. Fresh'
    BY <1>15, <2>9 DEF IInv, Control, Fresh, Finished
  <2> QED
    BY <2>1, <2>2, <2>3, <2>4, <2>5, <2>6, <2>7 DEF IInv
<1>16. CASE Complete("CREATE", TRUE, "none") /\ UNCHANGED ending
  <2> DEFINE e == [tag |-> "CREATE", ok |-> TRUE, val |-> "none"]
  <2>8. queue \in Seq(Events) /\ e \in Events
    BY DEF IInv, TypeOK, Events, Tags, Values
  <2>9. /\ queue' = Append(queue, e)
        /\ "CREATE" \in pending /\ pending' = pending \ {"CREATE"}
    BY <1>16 DEF Complete
  <2>10. /\ queue' \in Seq(Events) /\ queue' # <<>>
         /\ Len(queue) \in Nat /\ Len(queue') = Len(queue) + 1
         /\ \A i \in 1 .. Len(queue) : queue'[i] = queue[i]
         /\ queue'[Len(queue) + 1] = e
         /\ queue = <<>> => queue'[1] = e /\ Len(queue') = 1
    BY <2>8, <2>9, Appended
  <2>11. e.tag = "CREATE" /\ e.ok = TRUE /\ e.val = "none"
    OBVIOUS
  <2> HIDE DEF e
  <2>1. TypeOK'
    BY <1>16, <2>10 DEF IInv, TypeOK, clientVars, Complete
  <2>2. QueueSound'
    BY <2>10, <2>11 DEF IInv, QueueSound, EventSound
  <2>3. Control'
    BY <1>16 DEF IInv, Control, clientVars, Complete
  <2>4. InFlight'
    BY <1>16 DEF IInv, InFlight, Only, LateParse, clientVars, Complete
  <2>5. Closing'
    BY <1>16 DEF IInv, LateParse, Closing, ClosingDone, ClosingFinish, clientVars, Complete
  <2>6. Doomed'
    BY <1>16 DEF IInv, InFlight, Only, Doomed, clientVars, Complete
  <2>7. Fresh'
    BY <1>16 DEF IInv, Fresh, clientVars, Complete
  <2> QED
    BY <2>1, <2>2, <2>3, <2>4, <2>5, <2>6, <2>7 DEF IInv
<1>17. CASE Complete("CREATE", FALSE, "none") /\ ending' = "ERROR"
  <2> DEFINE e == [tag |-> "CREATE", ok |-> FALSE, val |-> "none"]
  <2>8. queue \in Seq(Events) /\ e \in Events
    BY DEF IInv, TypeOK, Events, Tags, Values
  <2>9. /\ queue' = Append(queue, e)
        /\ "CREATE" \in pending /\ pending' = pending \ {"CREATE"}
    BY <1>17 DEF Complete
  <2>10. /\ queue' \in Seq(Events) /\ queue' # <<>>
         /\ Len(queue) \in Nat /\ Len(queue') = Len(queue) + 1
         /\ \A i \in 1 .. Len(queue) : queue'[i] = queue[i]
         /\ queue'[Len(queue) + 1] = e
         /\ queue = <<>> => queue'[1] = e /\ Len(queue') = 1
    BY <2>8, <2>9, Appended
  <2>11. e.tag = "CREATE" /\ e.ok = FALSE /\ e.val = "none"
    OBVIOUS
  <2> HIDE DEF e
  <2>1. TypeOK'
    BY <1>17, <2>10 DEF IInv, TypeOK, clientVars, Complete
  <2>2. QueueSound'
    BY <2>10, <2>11 DEF IInv, QueueSound, EventSound
  <2>3. Control'
    BY <1>17 DEF IInv, Control, clientVars, Complete
  <2>4. InFlight'
    BY <1>17 DEF IInv, InFlight, Only, LateParse, clientVars, Complete
  <2>5. Closing'
    BY <1>17 DEF IInv, LateParse, Closing, ClosingDone, ClosingFinish, clientVars, Complete
  <2>6. Doomed'
    BY <1>17 DEF IInv, Doomed, clientVars, Complete
  <2>7. Fresh'
    BY <1>17 DEF IInv, Fresh, clientVars, Complete
  <2> QED
    BY <2>1, <2>2, <2>3, <2>4, <2>5, <2>6, <2>7 DEF IInv
<1>18. CASE Complete("WRITE", ending = "none", "none") /\ UNCHANGED ending
  <2> DEFINE e == [tag |-> "WRITE", ok |-> (ending = "none"), val |-> "none"]
  <2>8. queue \in Seq(Events) /\ e \in Events
    BY DEF IInv, TypeOK, Events, Tags, Values
  <2>9. /\ queue' = Append(queue, e)
        /\ "WRITE" \in pending /\ pending' = pending \ {"WRITE"}
    BY <1>18 DEF Complete
  <2>10. /\ queue' \in Seq(Events) /\ queue' # <<>>
         /\ Len(queue) \in Nat /\ Len(queue') = Len(queue) + 1
         /\ \A i \in 1 .. Len(queue) : queue'[i] = queue[i]
         /\ queue'[Len(queue) + 1] = e
         /\ queue = <<>> => queue'[1] = e /\ Len(queue') = 1
    BY <2>8, <2>9, Appended
  <2>11. e.tag = "WRITE" /\ e.ok = (ending = "none") /\ e.val = "none"
    OBVIOUS
  <2> HIDE DEF e
  <2>1. TypeOK'
    BY <1>18, <2>10 DEF IInv, TypeOK, clientVars, Complete
  <2>2. QueueSound'
    BY <2>10, <2>11 DEF IInv, QueueSound, EventSound
  <2>3. Control'
    BY <1>18 DEF IInv, Control, clientVars, Complete
  <2>4. InFlight'
    BY <1>18 DEF IInv, InFlight, Only, LateParse, clientVars, Complete
  <2>5. Closing'
    BY <1>18 DEF IInv, LateParse, Closing, ClosingDone, ClosingFinish, clientVars, Complete
  <2>6. Doomed'
    BY <1>18, <2>8, <2>9 DEF IInv, Doomed, clientVars, Events, Complete
  <2>7. Fresh'
    BY <1>18 DEF IInv, Fresh, clientVars, Complete
  <2> QED
    BY <2>1, <2>2, <2>3, <2>4, <2>5, <2>6, <2>7 DEF IInv
<1>19. CASE /\ "WRITE" \notin pending
            /\ Complete("DONE", ending = "none", "none") /\ UNCHANGED ending
  <2> DEFINE e == [tag |-> "DONE", ok |-> (ending = "none"), val |-> "none"]
  <2>8. queue \in Seq(Events) /\ e \in Events
    BY DEF IInv, TypeOK, Events, Tags, Values
  <2>9. /\ queue' = Append(queue, e)
        /\ "DONE" \in pending /\ pending' = pending \ {"DONE"}
    BY <1>19 DEF Complete
  <2>10. /\ queue' \in Seq(Events) /\ queue' # <<>>
         /\ Len(queue) \in Nat /\ Len(queue') = Len(queue) + 1
         /\ \A i \in 1 .. Len(queue) : queue'[i] = queue[i]
         /\ queue'[Len(queue) + 1] = e
         /\ queue = <<>> => queue'[1] = e /\ Len(queue') = 1
    BY <2>8, <2>9, Appended
  <2>11. e.tag = "DONE" /\ e.ok = (ending = "none") /\ e.val = "none"
    OBVIOUS
  <2> HIDE DEF e
  <2>1. TypeOK'
    BY <1>19, <2>10 DEF IInv, TypeOK, clientVars, Complete
  <2>2. QueueSound'
    BY <2>10, <2>11 DEF IInv, QueueSound, EventSound
  <2>3. Control'
    BY <1>19 DEF IInv, Control, clientVars, Complete
  <2>4. InFlight'
    BY <1>19 DEF IInv, InFlight, Only, LateParse, clientVars, Complete
  <2>5. Closing'
    BY <1>19
       DEF IInv, LateParse, Closing, ClosingDone, ClosingFinish, HarmlessEvent, clientVars,
           Complete
  <2>6. Doomed'
    BY <1>19, <2>8, <2>9 DEF IInv, Doomed, clientVars, Events, Complete
  <2>7. Fresh'
    BY <1>19 DEF IInv, Fresh, clientVars, Complete
  <2> QED
    BY <2>1, <2>2, <2>3, <2>4, <2>5, <2>6, <2>7 DEF IInv
<1>20. CASE ending # "none" /\ Complete("READ", FALSE, "none") /\ UNCHANGED ending
  <2> DEFINE e == [tag |-> "READ", ok |-> FALSE, val |-> "none"]
  <2>8. queue \in Seq(Events) /\ e \in Events
    BY DEF IInv, TypeOK, Events, Tags, Values
  <2>9. /\ queue' = Append(queue, e)
        /\ "READ" \in pending /\ pending' = pending \ {"READ"}
    BY <1>20 DEF Complete
  <2>10. /\ queue' \in Seq(Events) /\ queue' # <<>>
         /\ Len(queue) \in Nat /\ Len(queue') = Len(queue) + 1
         /\ \A i \in 1 .. Len(queue) : queue'[i] = queue[i]
         /\ queue'[Len(queue) + 1] = e
         /\ queue = <<>> => queue'[1] = e /\ Len(queue') = 1
    BY <2>8, <2>9, Appended
  <2>11. e.tag = "READ" /\ e.ok = FALSE /\ e.val = "none"
    OBVIOUS
  <2> HIDE DEF e
  <2>1. TypeOK'
    BY <1>20, <2>10 DEF IInv, TypeOK, clientVars, Complete
  <2>2. QueueSound'
    BY <2>10, <2>11 DEF IInv, QueueSound, EventSound
  <2>3. Control'
    BY <1>20 DEF IInv, Control, clientVars, Complete
  <2>4. InFlight'
    BY <1>20 DEF IInv, InFlight, Only, LateParse, clientVars, Complete
  <2>5. Closing'
    BY <1>20 DEF IInv, LateParse, Closing, ClosingDone, ClosingFinish, clientVars, Complete
  <2>6. Doomed'
    BY <1>20 DEF IInv, Doomed, clientVars, Complete
  <2>7. Fresh'
    BY <1>20 DEF IInv, Fresh, clientVars, Complete
  <2> QED
    BY <2>1, <2>2, <2>3, <2>4, <2>5, <2>6, <2>7 DEF IInv
<1>21. CASE /\ ending # "none" /\ "READ" \notin pending
            /\ Complete("FINISH", TRUE, ending) /\ UNCHANGED ending
  <2> DEFINE e == [tag |-> "FINISH", ok |-> TRUE, val |-> ending]
  <2>8. queue \in Seq(Events) /\ e \in Events
    BY DEF IInv, TypeOK, Events, Tags, Values
  <2>9. /\ queue' = Append(queue, e)
        /\ "FINISH" \in pending /\ pending' = pending \ {"FINISH"}
    BY <1>21 DEF Complete
  <2>10. /\ queue' \in Seq(Events) /\ queue' # <<>>
         /\ Len(queue) \in Nat /\ Len(queue') = Len(queue) + 1
         /\ \A i \in 1 .. Len(queue) : queue'[i] = queue[i]
         /\ queue'[Len(queue) + 1] = e
         /\ queue = <<>> => queue'[1] = e /\ Len(queue') = 1
    BY <2>8, <2>9, Appended
  <2>11. e.tag = "FINISH" /\ e.ok = TRUE /\ e.val = ending
    OBVIOUS
  <2> HIDE DEF e
  <2>1. TypeOK'
    BY <1>21, <2>10 DEF IInv, TypeOK, clientVars, Complete
  <2>2. QueueSound'
    BY <1>21, <2>10, <2>11 DEF TypeOK, IInv, QueueSound, EventSound
  <2>3. Control'
    BY <1>21 DEF IInv, Control, clientVars, Complete
  <2>4. InFlight'
    BY <1>21 DEF IInv, InFlight, Only, LateParse, clientVars, Complete
  <2>5. Closing'
    BY <1>21
       DEF TypeOK, IInv, LateParse, Closing, ClosingDone, ClosingFinish, HarmlessEvent,
           clientVars, Complete
  <2>6. Doomed'
    BY <1>21 DEF IInv, InFlight, Only, Doomed, clientVars, Complete
  <2>7. Fresh'
    BY <1>21 DEF IInv, Fresh, clientVars, Complete
  <2> QED
    BY <2>1, <2>2, <2>3, <2>4, <2>5, <2>6, <2>7 DEF IInv
<1>22. CASE Answer
  <2> DEFINE e == [tag |-> "READ", ok |-> TRUE,
                   val |-> (IF leaseAlive THEN "positive" ELSE "zero")]
  <2>8. queue \in Seq(Events) /\ e \in Events
    BY DEF IInv, TypeOK, Events, Tags, Values
  <2>9. /\ queue' = Append(queue, e)
        /\ "READ" \in pending /\ pending' = pending \ {"READ"}
    BY <1>22 DEF Complete, Answer
  <2>10. /\ queue' \in Seq(Events) /\ queue' # <<>>
         /\ Len(queue) \in Nat /\ Len(queue') = Len(queue) + 1
         /\ \A i \in 1 .. Len(queue) : queue'[i] = queue[i]
         /\ queue'[Len(queue) + 1] = e
         /\ queue = <<>> => queue'[1] = e /\ Len(queue') = 1
    BY <2>8, <2>9, Appended
  <2>11. e.tag = "READ" /\ e.ok = TRUE /\ e.val = (IF leaseAlive THEN "positive" ELSE "zero")
    OBVIOUS
  <2> HIDE DEF e
  <2>1. TypeOK'
    BY <1>22, <2>8, <2>9 DEF IInv, TypeOK, clientVars, Complete, Answer
  <2>2. QueueSound'
    BY <2>10, <2>11 DEF IInv, QueueSound, EventSound
  <2>3. Control'
    BY <1>22 DEF IInv, Control, clientVars, Complete, Answer
  <2>4. InFlight'
    BY <1>22 DEF IInv, InFlight, Only, LateParse, clientVars, Complete, Answer
  <2>5. Closing'
    BY <1>22
       DEF IInv, LateParse, Closing, ClosingDone, ClosingFinish, clientVars, Complete,
           Answer
  <2>6. Doomed'
    BY <1>22 DEF IInv, InFlight, Only, Doomed, clientVars, Complete, Answer
  <2>7. Fresh'
    BY <1>22 DEF IInv, Fresh, clientVars, Complete, Answer
  <2> QED
    BY <2>1, <2>2, <2>3, <2>4, <2>5, <2>6, <2>7 DEF IInv
<1>23. CASE CloseByPeer
  <2>1. TypeOK'
    BY <1>23 DEF IInv, TypeOK, clientVars, CloseByPeer
  <2>2. QueueSound'
    BY <1>23 DEF IInv, QueueSound, CloseByPeer
  <2>3. Control'
    BY <1>23 DEF IInv, Control, clientVars, CloseByPeer
  <2>4. InFlight'
    BY <1>23 DEF IInv, InFlight, Only, LateParse, clientVars, CloseByPeer
  <2>5. Closing'
    BY <1>23
       DEF IInv, Control, LateParse, Closing, ClosingDone, ClosingFinish, clientVars,
           CloseByPeer, HalfClosed
  <2>6. Doomed'
    BY <1>23 DEF IInv, Doomed, clientVars, CloseByPeer
  <2>7. Fresh'
    BY <1>23 DEF IInv, Fresh, clientVars, CloseByPeer
  <2> QED
    BY <2>1, <2>2, <2>3, <2>4, <2>5, <2>6, <2>7 DEF IInv
<1>24. CASE LeaseGone
  <2>1. TypeOK'
    <3>1. leaseAlive' \in BOOLEAN /\ UNCHANGED <<clientVars, pending, queue, ending>>
      BY <1>24 DEF LeaseGone
    <3> QED
      BY <3>1 DEF IInv, TypeOK, clientVars
  <2>2. QueueSound'
    BY <1>24 DEF IInv, QueueSound, LeaseGone
  <2>3. Control'
    BY <1>24 DEF IInv, Control, clientVars, LeaseGone
  <2>4. InFlight'
    BY <1>24 DEF IInv, InFlight, Only, LateParse, clientVars, LeaseGone
  <2>5. Closing'
    BY <1>24 DEF IInv, LateParse, Closing, ClosingDone, ClosingFinish, clientVars, LeaseGone
  <2>6. Doomed'
    BY <1>24 DEF IInv, Doomed, clientVars, LeaseGone
  <2>7. Fresh'
    BY <1>24 DEF IInv, Fresh, clientVars, LeaseGone
  <2> QED
    BY <2>1, <2>2, <2>3, <2>4, <2>5, <2>6, <2>7 DEF IInv
<1>25. CASE UNCHANGED vars
  <2>1. TypeOK'
    BY <1>25 DEF IInv, TypeOK, clientVars, streamVars, vars
  <2>2. QueueSound'
    BY <1>25 DEF IInv, QueueSound, streamVars, vars
  <2>3. Control'
    BY <1>25 DEF IInv, Control, clientVars, vars
  <2>4. InFlight'
    BY <1>25 DEF IInv, InFlight, Only, LateParse, clientVars, streamVars, vars
  <2>5. Closing'
    BY <1>25
       DEF IInv, LateParse, Closing, ClosingDone, ClosingFinish, clientVars, streamVars,
           vars
  <2>6. Doomed'
    BY <1>25 DEF IInv, Doomed, clientVars, streamVars, vars
  <2>7. Fresh'
    BY <1>25 DEF IInv, Fresh, clientVars, vars
  <2> QED
    BY <2>1, <2>2, <2>3, <2>4, <2>5, <2>6, <2>7 DEF IInv
<1>26. CompleteLocal => IInv'
  BY <1>16, <1>17, <1>18, <1>19, <1>20, <1>21 DEF CompleteLocal
<1> QED
  BY <1>1, <1>2, <1>3, <1>4, <1>5, <1>6, <1>7, <1>8, <1>9, <1>10, <1>11, <1>12, <1>13,
     <1>14, <1>15, <1>22, <1>23, <1>24, <1>25, <1>26
     DEF Next, ClientStep

\* The constructor starts with one operation in flight.
LEMMA InitInv == Init => IInv
<1> SUFFICES ASSUME Init PROVE IInv
  OBVIOUS
<1>1. queue = <<>> /\ queue \in Seq(Events) /\ Len(queue) = 0
  BY EmptySeq DEF Init
<1>2. TypeOK
  BY <1>1 DEF Init, TypeOK, Tags
<1>3. QueueSound
  BY <1>1 DEF QueueSound
<1>4. Control /\ InFlight /\ Closing
  BY DEF Init, Control, InFlight, Only, Closing
<1>5. Doomed /\ Fresh
  BY DEF Init, Doomed, Fresh
<1> QED
  BY <1>2, <1>3, <1>4, <1>5 DEF IInv

\* Every reachable state of the stream satisfies the invariant.
THEOREM Invariance == Spec => []IInv
  BY InitInv, InvInductive, PTL DEF Spec

----------------------------------------------------------------------------
(* What follows from it. *)

\* Every variable keeps its type: in particular the status that Finish stores
\* and the TTL that a read stores are never mixed up, although CancelKeepAlive
\* takes whatever completion comes first.
THEOREM TypeCorrect == Spec => []TypeOK
  BY Invariance, PTL DEF IInv

\* No completion of an earlier refresh is left when a refresh can start, in
\* every order of completions, failures and timeouts.
THEOREM NothingInFlightHolds == Spec => []NothingInFlight
<1>1. IInv => NothingInFlight
  BY DEF IInv, TypeOK, InFlight, NothingInFlight
<1> QED
  BY <1>1, Invariance, PTL

\* A TTL that Refresh() reports was read by that refresh, also when the write
\* timed out and the response is parsed after CancelKeepAlive().
THEOREM TTLIsFreshHolds == Spec => []TTLIsFresh
<1>1. IInv => TTLIsFresh
  BY DEF IInv, Fresh, TTLIsFresh
<1> QED
  BY <1>1, Invariance, PTL

\* The stream implements KeepAliveCall: refreshes stop succeeding for good
\* after the first failure, and a cancellation is final.
THEOREM ImplementsCallHolds == Spec => ImplementsCall
<1>1. Init => Call!CallInit
  BY DEF Init, Call!CallInit
<1>2. IInv /\ [Next]_vars => [Call!CallNext]_(Call!callVars)
  <2> SUFFICES ASSUME IInv, [Next]_vars
               PROVE  [Call!CallNext]_(Call!callVars)
    OBVIOUS
  <2> USE DEF Call!callVars
  <2>1. CASE RefreshBegin
    BY <2>1 DEF IInv, Control, RefreshBegin, Call!CallNext, Call!RefreshBegin
  <2>2. CASE CancelBegin
    BY <2>2 DEF IInv, Control, CancelBegin, Call!CallNext, Call!CancelBegin
  <2>3. CASE Create
    BY <2>3 DEF IInv, Control, Create, Call!CallNext, Call!CreateEnd
  <2>4. CASE RefreshCancelled
    <3>1. Call!RefreshEnd("error")
      BY <2>4 DEF IInv, Control, RefreshCancelled, ReturnRefresh, Call!RefreshEnd
    <3> QED
      BY <3>1 DEF Call!CallNext, Call!Results, Call!Failures
  <2>5. CASE Write \/ WriteDone \/ WriteTimeout \/ ReadFailed \/ ReadTimeout \/ Finish
    BY <2>5 DEF Write, WriteDone, WriteTimeout, ReadFailed, ReadTimeout, Finish
  <2>6. CASE WriteFailed
    <3>1. CASE hasTimeout
      <4>1. Call!RefreshEnd("error")
        BY <2>6, <3>1 DEF IInv, Control, WriteFailed, ReturnRefresh, Call!RefreshEnd
      <4> QED
        BY <4>1 DEF Call!CallNext, Call!Results, Call!Failures
    <3>2. CASE ~hasTimeout
      BY <2>6, <3>2 DEF WriteFailed
    <3> QED
      BY <3>1, <3>2
  <2>7. CASE ReadDone
    <3> DEFINE r == ParseResponse(status, reply')
    <3>1. op = "refresh" /\ isCancelled = FALSE /\ status = "OK"
      BY <2>7 DEF IInv, Control, Doomed, ReadDone
    <3>2. queue \in Seq(Events) /\ queue # <<>> /\ Head(queue) = queue[1]
      BY <2>7 DEF IInv, TypeOK, ReadDone, Take
    <3>3. reply' = queue[1].val
      BY <2>7, <3>2 DEF ReadDone
    <3>4. r \in {"ok", "expired"} /\ (r = "ok" => reply' = "positive")
      BY <3>1 DEF ParseResponse
    <3>5. r = "ok" => failed = FALSE
      BY <2>7, <3>2, <3>4 DEF IInv, Doomed, ReadDone
    <3>6. Call!RefreshEnd(r)
      BY <2>7, <3>1, <3>5 DEF ReadDone, ReturnRefresh, Call!RefreshEnd
    <3> QED
      BY <3>4, <3>6 DEF Call!CallNext, Call!Results, Call!Failures
  <2>8. CASE CancelAgain
    BY <2>8 DEF CancelAgain, Call!CallNext, Call!CancelEnd
  <2>9. CASE WritesDone
    BY <2>9 DEF IInv, Control, WritesDone, Call!CallNext, Call!CloseStream
  <2>10. CASE Finished
    <3>1. isCancelled = TRUE /\ op \in {"refresh", "cancel"}
      BY <2>10 DEF IInv, Control, Finished
    <3>2. CASE op = "cancel"
      BY <2>10, <3>1, <3>2 DEF Finished, Call!CallNext, Call!CancelEnd
    <3>3. CASE op = "refresh"
      <4>1. result' = "error"
        BY <2>10, <3>3, ClosedRefreshFails DEF IInv
      <4>2. Call!RefreshEnd("error")
        BY <2>10, <3>3, <4>1 DEF Finished, ReturnRefresh, Call!RefreshEnd
      <4> QED
        BY <4>2 DEF Call!CallNext, Call!Results, Call!Failures
    <3> QED
      BY <3>1, <3>2, <3>3
  <2>11. CASE CompleteLocal \/ Answer \/ CloseByPeer \/ LeaseGone
    BY <2>11 DEF CompleteLocal, Answer, Complete, CloseByPeer, LeaseGone, clientVars
  <2>12. CASE UNCHANGED vars
    BY <2>12 DEF vars, clientVars
  <2> QED
    BY <2>1, <2>2, <2>3, <2>4, <2>5, <2>6, <2>7, <2>8, <2>9, <2>10, <2>11, <2>12
       DEF Next, ClientStep
<1> QED
  BY <1>1, <1>2, Invariance, PTL DEF Spec, ImplementsCall, Call!CallSpec
=============================================================================
