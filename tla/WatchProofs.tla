----------------------------- MODULE WatchProofs -----------------------------
(***************************************************************************)
(* Proofs about the two users of a watch stream, for any number of events. *)
(* Watcher: the events reach the callback once and in order, and once the  *)
(* task was joined it has ended, for any set of user threads.  One-shot    *)
(* watch: SyncClient::watch() returns the first events of the watch.       *)
(*                                                                         *)
(* Both rest on one invariant of AsyncWatch: at most one read is in        *)
(* flight, and it takes the reply after those already handled.             *)
(***************************************************************************)
EXTENDS Watcher, OneShotWatch, SequenceTheorems, TLAPS

----------------------------------------------------------------------------
(* The stream. *)

\* How many replies the server has sent, and what the j-th of them is.
Total ==
  (IF server = "none" THEN 0 ELSE 1) + sent + (IF server = "cancelled" THEN 1 ELSE 0)

InLog(j, r) ==
  /\ j = 1 => r.kind = "created"
  /\ (j >= 2 /\ j <= sent + 1) => r = EventsN(j - 1)
  /\ j = sent + 2 => r.kind \in {"canceled", "compacted"}

\* The replies that no read has taken are the last ones sent.
LogInv ==
  /\ server = "none" => sent = 0
  /\ Len(inbox) <= Total
  /\ \A i \in 1 .. Len(inbox) : InLog(Total - Len(inbox) + i, inbox[i])

\* Reads have taken the first c replies, unless the rest was thrown away.
Taken(c) == (ending # "none" /\ inbox = <<>>) \/ Total - Len(inbox) = c

NoReadIn(q) == \A i \in 1 .. Len(q) : q[i].tag # "READ"

NoReadQueued == NoReadIn(queue)

\* No read is in flight.
NoRead == "READ" \notin pending /\ NoReadQueued

\* One read is in flight, c replies after the beginning: it has not completed,
\* or its completion is number j in the queue.
ReadPending(c) == "READ" \in pending /\ NoReadQueued /\ Taken(c)

ReadAt(c, j) ==
  /\ "READ" \notin pending
  /\ queue[j].tag = "READ"
  /\ \A i \in 1 .. Len(queue) : i # j => queue[i].tag # "READ"
  /\ queue[j].ok = TRUE => c < Total /\ InLog(c + 1, queue[j].val) /\ Taken(c + 1)
  /\ queue[j].ok = FALSE => ending # "none"

Reading(c) == ReadPending(c) \/ \E j \in 1 .. Len(queue) : ReadAt(c, j)

\* The only operation in flight is `tag', and it fails only on an ended stream.
Only(tag) ==
  \/ pending = {tag} /\ queue = <<>>
  \/ /\ pending = {} /\ Len(queue) = 1 /\ queue[1].tag = tag
     /\ queue[1].ok = FALSE => ending # "none"

\* The constructor, before anything was asked of the server.
ConstructInv ==
  /\ loop \in {"create", "write"} => server = "none" /\ status = "OK" /\ delivered = <<>>
  /\ loop = "create" => Only("CREATE")
  /\ loop = "write" => Only("WRITE")

StreamInv == WatchTypeOK /\ LogInv /\ ConstructInv

----------------------------------------------------------------------------
(* Watcher. *)

\* After c replies the callback was given the events in all but the first.
Given(c) ==
  /\ Len(delivered) = IF c = 0 THEN 0 ELSE c - 1
  /\ \A i \in 1 .. Len(delivered) : delivered[i] = EventsN(i)

\* While the loop runs, the next reply will be read, or the stream has ended.
LoopInv ==
  /\ (loop = "start" /\ status # "OK") => NoRead /\ ending # "none" /\ delivered = <<>>
  /\ (loop = "start" /\ status = "OK") => Reading(0) /\ delivered = <<>>
  /\ loop = "next" => \/ NoRead /\ ending # "none"
                      \/ \E c \in 0 .. MaxEvents + 2 : Reading(c) /\ Given(c)

\* Nothing but events is ever numbered, and events by their place.
DeliveredInv ==
  \A i \in 1 .. Len(delivered) : delivered[i].kind = "events" => delivered[i].n = i

\* Nobody uses the watcher before its constructor has returned.
CallersInv == \A u \in Users : pc[u] # "idle" => Constructed

WatcherInv ==
  /\ TypeOK /\ StreamInv /\ LoopInv /\ DeliveredInv
  /\ StoppedOnceJoined /\ CallersInv

----------------------------------------------------------------------------
(* Lemmas about sequences. *)

\* What Take returns and what it leaves.
LEMMA HeadAndTail ==
  ASSUME NEW S, NEW q \in Seq(S), q # <<>>
  PROVE  /\ Head(q) = q[1] /\ q[1] \in S
         /\ Len(q) \in Nat /\ Len(q) >= 1
         /\ Tail(q) \in Seq(S) /\ Len(Tail(q)) = Len(q) - 1
         /\ \A i \in 1 .. Len(q) - 1 : Tail(q)[i] = q[i + 1]
<1>1. /\ Len(q) \in Nat /\ Len(q) >= 1 /\ q[1] \in S
      /\ Head(q) = q[1]
  BY EmptySeq, LenProperties, ElementOfSeq
<1>2. /\ Tail(q) \in Seq(S) /\ Len(Tail(q)) = Len(q) - 1
      /\ \A i \in 1 .. Len(q) - 1 : Tail(q)[i] = q[i + 1]
  BY HeadTailProperties
<1> QED
  BY <1>1, <1>2

\* What Append adds.
LEMMA Appended ==
  ASSUME NEW S, NEW q \in Seq(S), NEW e \in S
  PROVE  /\ Append(q, e) \in Seq(S) /\ Append(q, e) # <<>>
         /\ Len(q) \in Nat /\ Len(Append(q, e)) = Len(q) + 1
         /\ \A i \in 1 .. Len(q) : Append(q, e)[i] = q[i]
         /\ Append(q, e)[Len(q) + 1] = e
  BY AppendProperties, LenProperties

\* The sequences of the stream, and their lengths.
LEMMA Lengths ==
  ASSUME WatchTypeOK
  PROVE  /\ queue \in Seq(Completions) /\ Len(queue) \in Nat
         /\ inbox \in Seq(Replies) /\ Len(inbox) \in Nat
         /\ delivered \in Seq(Replies) /\ Len(delivered) \in Nat
         /\ sent \in Nat /\ Total \in Nat /\ Total <= MaxEvents + 2
         /\ queue = <<>> => Len(queue) = 0
         /\ inbox = <<>> => Len(inbox) = 0
         /\ delivered = <<>> => Len(delivered) = 0
<1>1. /\ queue \in Seq(Completions) /\ Len(queue) \in Nat
      /\ inbox \in Seq(Replies) /\ Len(inbox) \in Nat
      /\ delivered \in Seq(Replies) /\ Len(delivered) \in Nat
  BY LenProperties DEF WatchTypeOK
<1>2. sent \in Nat /\ Total \in Nat /\ Total <= MaxEvents + 2
  BY MaxEventsIsNat DEF WatchTypeOK, Total
<1>3. /\ queue = <<>> => Len(queue) = 0
      /\ inbox = <<>> => Len(inbox) = 0
      /\ delivered = <<>> => Len(delivered) = 0
  BY EmptySeq
<1> QED
  BY <1>1, <1>2, <1>3

\* The replies that have no number.
LEMMA PlainReplies ==
  \A k \in Kinds : Reply(k) \in Replies /\ Reply(k).kind = k
  BY MaxEventsIsNat DEF Replies, Reply

----------------------------------------------------------------------------
(* The network and the server. *)

\* What a step of the environment keeps: it does not touch the loop, a stream
\* that has ended stays so, and the read in flight keeps its place.
Kept ==
  /\ StreamInv'
  /\ UNCHANGED <<isCancelled, loopVars>>
  /\ ending # "none" => ending' # "none"
  /\ NoRead => NoRead'
  /\ \A c \in Nat : Reading(c) => Reading(c)'

\* An operation other than a read completes.
LEMMA CompleteOther ==
  ASSUME StreamInv, NEW tag \in Tags \ {"READ"}, NEW ok \in BOOLEAN,
         Complete(tag, ok, Reply("none")),
         ending' \in {"none", "OK", "ERROR"}, ending # "none" => ending' # "none",
         ok = FALSE => ending' # "none",
         UNCHANGED <<inbox, server, sent>>
  PROVE  Kept
<1> DEFINE e == [tag |-> tag, ok |-> ok, val |-> Reply("none")]
<1>1. /\ tag \in pending /\ pending' = pending \ {tag} /\ queue' = Append(queue, e)
      /\ UNCHANGED <<isCancelled, loopVars>>
  BY DEF Complete
<1>2. e \in Completions /\ e.tag = tag /\ e.ok = ok
  BY PlainReplies DEF Completions, Kinds
<1> HIDE DEF e
<1>3. /\ queue \in Seq(Completions) /\ Len(queue) \in Nat
      /\ queue' \in Seq(Completions) /\ Len(queue') = Len(queue) + 1
      /\ \A i \in 1 .. Len(queue) : queue'[i] = queue[i]
      /\ queue'[Len(queue) + 1] = e
      /\ queue = <<>> => Len(queue) = 0
  BY <1>1, <1>2, Lengths, Appended DEF StreamInv
<1>4. Total' = Total /\ (\A c \in Nat : Taken(c) => Taken(c)')
      /\ (\A c \in Nat : \A r \in Replies : InLog(c, r) => InLog(c, r)')
  BY DEF Total, Taken, InLog
<1>5. NoReadQueued => NoReadQueued'
  BY <1>2, <1>3 DEF NoReadQueued, NoReadIn
<1>6. NoRead => NoRead'
  BY <1>1, <1>5 DEF NoRead
<1>7. ASSUME NEW c \in Nat, Reading(c) PROVE Reading(c)'
  <2>1. CASE ReadPending(c)
    BY <1>1, <1>4, <1>5, <2>1 DEF ReadPending, Reading
  <2>2. ASSUME NEW j \in 1 .. Len(queue), ReadAt(c, j) PROVE Reading(c)'
    <3>1. j \in 1 .. Len(queue') /\ queue'[j] = queue[j]
      BY <1>3
    <3>. queue[j] \in Completions
      BY <1>3, ElementOfSeq
    <3>5. queue[j].val \in Replies
      BY DEF Completions
    <3>2. \A i \in 1 .. Len(queue') : i # j => queue'[i].tag # "READ"
      BY <1>2, <1>3, <2>2 DEF ReadAt
    <3>3. c + 1 \in Nat
      OBVIOUS
    <3>4. ReadAt(c, j)'
      BY <1>1, <1>4, <2>2, <3>1, <3>2, <3>3, <3>5 DEF ReadAt
    <3> QED
      BY <3>1, <3>4 DEF Reading
  <2> QED
    BY <1>7, <2>1, <2>2 DEF Reading
<1>8. StreamInv'
  <2>1. WatchTypeOK'
    BY <1>1, <1>3 DEF StreamInv, WatchTypeOK, loopVars
  <2>2. LogInv'
    BY DEF StreamInv, LogInv, InLog, Total
  <2>3. ConstructInv'
    BY <1>1, <1>2, <1>3 DEF StreamInv, ConstructInv, Only, loopVars
  <2> QED
    BY <2>1, <2>2, <2>3 DEF StreamInv
<1> QED
  BY <1>1, <1>6, <1>7, <1>8 DEF Kept

\* A read takes the first reply of the inbox.
LEMMA CompleteReadTakes ==
  ASSUME StreamInv, inbox # <<>>, Complete("READ", TRUE, Head(inbox)),
         inbox' = Tail(inbox), UNCHANGED <<ending, server, sent>>
  PROVE  Kept
<1> DEFINE e == [tag |-> "READ", ok |-> TRUE, val |-> Head(inbox)]
<1>1. /\ "READ" \in pending /\ pending' = pending \ {"READ"} /\ queue' = Append(queue, e)
      /\ UNCHANGED <<isCancelled, loopVars>>
  BY DEF Complete
<1>2. /\ inbox \in Seq(Replies) /\ Len(inbox) \in Nat /\ Total \in Nat
      /\ Head(inbox) = inbox[1] /\ inbox[1] \in Replies /\ Len(inbox) >= 1
      /\ inbox' \in Seq(Replies) /\ Len(inbox') = Len(inbox) - 1
      /\ \A i \in 1 .. Len(inbox) - 1 : inbox'[i] = inbox[i + 1]
  BY Lengths, HeadAndTail DEF StreamInv
<1>3. e \in Completions /\ e.tag = "READ" /\ e.ok = TRUE /\ e.val = inbox[1]
  BY <1>2 DEF Completions, Tags
<1> HIDE DEF e
<1>4. /\ queue \in Seq(Completions) /\ Len(queue) \in Nat
      /\ queue' \in Seq(Completions) /\ Len(queue') = Len(queue) + 1
      /\ \A i \in 1 .. Len(queue) : queue'[i] = queue[i]
      /\ queue'[Len(queue) + 1] = e
  BY <1>1, <1>3, Lengths, Appended DEF StreamInv
<1>5. Total' = Total /\ \A c, r : InLog(c, r)' <=> InLog(c, r)
  BY DEF Total, InLog
<1>6. ASSUME NEW c \in Nat, Reading(c) PROVE Reading(c)'
  <2>1. NoReadQueued /\ Total - Len(inbox) = c
    BY <1>1, <1>6 DEF Reading, ReadAt, ReadPending, Taken
  <2>2. c < Total /\ InLog(c + 1, inbox[1])
    BY <1>2, <2>1 DEF StreamInv, LogInv
  <2>3. Taken(c + 1)'
    BY <1>2, <1>5, <2>1 DEF Taken
  <2>4. PICK j \in Nat : j = Len(queue) + 1
    BY <1>4
  <2>5. ReadAt(c, j)'
    BY <1>1, <1>3, <1>4, <1>5, <2>1, <2>2, <2>3, <2>4 DEF ReadAt, NoReadQueued, NoReadIn
  <2> QED
    BY <1>4, <2>4, <2>5 DEF Reading
<1>7. StreamInv'
  <2>1. WatchTypeOK'
    BY <1>1, <1>2, <1>4 DEF StreamInv, WatchTypeOK, loopVars
  <2>2. LogInv'
    <3>1. \A i \in 1 .. Len(inbox') : InLog(Total - Len(inbox') + i, inbox'[i])
      BY <1>2 DEF StreamInv, LogInv
    <3> QED
      BY <1>2, <1>5, <3>1 DEF StreamInv, LogInv
  <2>3. ConstructInv'
    BY <1>1 DEF StreamInv, ConstructInv, Only, loopVars
  <2> QED
    BY <2>1, <2>2, <2>3 DEF StreamInv
<1> QED
  BY <1>1, <1>6, <1>7 DEF Kept, NoRead

\* A read fails on a stream that has ended.
LEMMA CompleteReadFails ==
  ASSUME StreamInv, ending # "none", Complete("READ", FALSE, Reply("none")),
         UNCHANGED <<ending, inbox, server, sent>>
  PROVE  Kept
<1> DEFINE e == [tag |-> "READ", ok |-> FALSE, val |-> Reply("none")]
<1>1. /\ "READ" \in pending /\ pending' = pending \ {"READ"} /\ queue' = Append(queue, e)
      /\ UNCHANGED <<isCancelled, loopVars>>
  BY DEF Complete
<1>2. e \in Completions /\ e.tag = "READ" /\ e.ok = FALSE
  BY PlainReplies DEF Completions, Kinds, Tags
<1> HIDE DEF e
<1>3. /\ queue \in Seq(Completions) /\ Len(queue) \in Nat
      /\ queue' \in Seq(Completions) /\ Len(queue') = Len(queue) + 1
      /\ \A i \in 1 .. Len(queue) : queue'[i] = queue[i]
      /\ queue'[Len(queue) + 1] = e
  BY <1>1, <1>2, Lengths, Appended DEF StreamInv
<1>4. ASSUME NEW c \in Nat, Reading(c) PROVE Reading(c)'
  <2>1. NoReadQueued
    BY <1>1, <1>4 DEF Reading, ReadAt, ReadPending
  <2>2. PICK j \in Nat : j = Len(queue) + 1
    BY <1>3
  <2>3. ReadAt(c, j)'
    BY <1>1, <1>2, <1>3, <2>1, <2>2 DEF ReadAt, NoReadQueued, NoReadIn
  <2> QED
    BY <1>3, <2>2, <2>3 DEF Reading
<1>5. StreamInv'
  <2>1. WatchTypeOK'
    BY <1>1, <1>3 DEF StreamInv, WatchTypeOK, loopVars
  <2>2. LogInv'
    BY DEF StreamInv, LogInv, InLog, Total
  <2>3. ConstructInv'
    BY <1>1 DEF StreamInv, ConstructInv, Only, loopVars
  <2> QED
    BY <2>1, <2>2, <2>3 DEF StreamInv
<1> QED
  BY <1>1, <1>4, <1>5 DEF Kept, NoRead

\* The server sends one more reply.
LEMMA SendKeeps ==
  ASSUME StreamInv, NEW r \in Replies, Send(r), loop \notin {"create", "write"},
         server' \in {"active", "cancelled"}, sent' \in 0 .. MaxEvents,
         NEW t \in Nat, Total = t, Total' = t + 1, InLog(t + 1, r)',
         \A j \in 1 .. t, x \in Replies : InLog(j, x) => InLog(j, x)'
  PROVE  Kept
<1>1. /\ ending = "none" /\ inbox' = Append(inbox, r)
      /\ UNCHANGED <<isCancelled, loopVars, pending, queue, ending>>
  BY DEF Send
<1>2. /\ inbox \in Seq(Replies) /\ Len(inbox) \in Nat /\ Total \in Nat
      /\ inbox' \in Seq(Replies) /\ Len(inbox') = Len(inbox) + 1
      /\ \A i \in 1 .. Len(inbox) : inbox'[i] = inbox[i]
      /\ inbox'[Len(inbox) + 1] = r
      /\ queue \in Seq(Completions) /\ Len(queue) \in Nat
  BY <1>1, Lengths, Appended DEF StreamInv
<1>3. \A c \in Nat : Taken(c) => Taken(c)'
  BY <1>1, <1>2 DEF Taken
<1>4. NoRead => NoRead'
  BY <1>1 DEF NoRead, NoReadQueued, NoReadIn
<1>5. ASSUME NEW c \in Nat, Reading(c) PROVE Reading(c)'
  <2>1. CASE ReadPending(c)
    BY <1>1, <1>3, <2>1 DEF ReadPending, NoReadQueued, NoReadIn, Reading
  <2>2. ASSUME NEW j \in 1 .. Len(queue), ReadAt(c, j) PROVE Reading(c)'
    <3>. queue[j] \in Completions
      BY <1>2, ElementOfSeq
    <3>1. queue[j].val \in Replies
      BY DEF Completions
    <3>2. queue[j].ok = TRUE => c < Total' /\ InLog(c + 1, queue[j].val)' /\ Taken(c + 1)'
      BY <1>1, <1>2, <1>3, <2>2, <3>1 DEF ReadAt
    <3>3. ReadAt(c, j)'
      BY <1>1, <2>2, <3>2 DEF ReadAt
    <3> QED
      BY <1>1, <3>3 DEF Reading
  <2> QED
    BY <1>5, <2>1, <2>2 DEF Reading
<1>6. StreamInv'
  <2>1. WatchTypeOK'
    BY <1>1, <1>2 DEF StreamInv, WatchTypeOK, loopVars
  <2>2. LogInv'
    <3>1. ASSUME NEW i \in 1 .. Len(inbox')
          PROVE  InLog(Total - Len(inbox) + i, inbox[i])'
      <4>6. t - Len(inbox) + i \in Nat
        BY <1>2 DEF StreamInv, LogInv
      <4>1. PICK j \in Nat : j = t - Len(inbox) + i
        BY <4>6
      <4>5. j = Total' - Len(inbox') + i /\ j <= t + 1 /\ j >= 1
        BY <1>2, <4>1 DEF StreamInv, LogInv
      <4>2. PICK x \in Replies : x = inbox'[i]
        BY <1>2, ElementOfSeq
      <4>3. CASE i = Len(inbox) + 1
        <5>1. j = t + 1 /\ x = r
          BY <1>2, <4>1, <4>2, <4>3
        <5> QED
          BY <4>2, <4>5, <5>1 DEF InLog
      <4>4. CASE i \in 1 .. Len(inbox)
        <5>1. j \in 1 .. t /\ x = inbox[i] /\ InLog(Total - Len(inbox) + i, inbox[i])
          BY <1>2, <4>1, <4>2, <4>4, <4>5 DEF StreamInv, LogInv
        <5>2. InLog(j, x)
          BY <4>1, <5>1
        <5>3. InLog(j, x)'
          BY <5>1, <5>2
        <5> QED
          BY <4>2, <4>5, <5>3 DEF InLog
      <4> QED
        BY <1>2, <4>3, <4>4
    <3>2. server' # "none" /\ Len(inbox') <= Total'
      BY <1>2 DEF StreamInv, LogInv
    <3> QED
      BY <3>1, <3>2 DEF LogInv
  <2>3. ConstructInv'
    BY <1>1 DEF StreamInv, ConstructInv, loopVars
  <2> QED
    BY <2>1, <2>2, <2>3 DEF StreamInv
<1> QED
  BY <1>1, <1>4, <1>5, <1>6 DEF Kept

\* Every step of the network and of the server keeps the stream in order.
LEMMA StreamStep ==
  ASSUME StreamInv, Transport \/ Environment
  PROVE  Kept
<1> USE DEF StreamInv
<1>1. CASE CompleteCreate
  <2>1. PICK ok \in BOOLEAN : /\ Complete("CREATE", ok, Reply("none"))
                              /\ ending' = IF ok THEN ending ELSE "ERROR"
                              /\ UNCHANGED <<inbox, server, sent>>
    BY <1>1 DEF CompleteCreate
  <2>2. /\ ending' \in {"none", "OK", "ERROR"} /\ (ending # "none" => ending' # "none")
        /\ ok = FALSE => ending' # "none"
    BY <2>1 DEF WatchTypeOK
  <2> QED
    BY <2>1, <2>2, CompleteOther DEF Tags
<1>2. CASE CompleteRead
  BY <1>2, CompleteReadTakes, CompleteReadFails DEF CompleteRead
<1>3. CASE CompleteFinish
  <2>1. /\ Complete("FINISH", TRUE, Reply("none"))
        /\ UNCHANGED <<ending, inbox, server, sent>>
    BY <1>3 DEF CompleteFinish
  <2> QED
    BY <2>1, CompleteOther DEF Tags, WatchTypeOK
<1>4. ASSUME NEW tag \in {"WRITE", "WRITE_CANCEL", "WRITES_DONE"}, CompleteSend(tag)
      PROVE  Kept
  <2> DEFINE ok == ending = "none"
  <2>1. Complete(tag, ok, Reply("none")) /\ UNCHANGED <<ending, inbox, server, sent>>
    BY <1>4 DEF CompleteSend
  <2>2. ok \in BOOLEAN /\ (ok = FALSE => ending' # "none") /\ tag \in Tags \ {"READ"}
    BY <2>1 DEF Tags
  <2>3. ending' \in {"none", "OK", "ERROR"} /\ (ending # "none" => ending' # "none")
    BY <2>1 DEF WatchTypeOK
  <2> HIDE DEF ok
  <2> QED
    BY <2>1, <2>2, <2>3, CompleteOther
<1>5. CASE ServerCreates
  <2>1. Total' = Total + 1 /\ sent' \in 0 .. MaxEvents /\ server' = "active"
    BY <1>5 DEF ServerCreates, Total, LogInv, WatchTypeOK
  <2>2. Total = 0 /\ sent = 0 /\ sent' = 0
    BY <1>5 DEF ServerCreates, Total, LogInv
  <2>3. Reply("created") \in Replies /\ Reply("created").kind = "created"
    BY PlainReplies DEF Kinds
  <2>4. PICK r \in Replies : r = Reply("created")
    BY <2>3
  <2>5. Send(r) /\ loop \notin {"create", "write"}
    BY <1>5, <2>4 DEF ServerCreates, Requested
  <2>6. InLog(0 + 1, r)'
    BY <2>2, <2>3, <2>4 DEF InLog
  <2> QED
    BY <2>1, <2>2, <2>5, <2>6, SendKeeps
<1>6. CASE ServerEvents
  <2>1. /\ Total' = Total + 1 /\ sent' = sent + 1 /\ server' = "active"
        /\ sent' \in 1 .. MaxEvents /\ Total = sent + 1 /\ sent \in Nat
    BY <1>6, MaxEventsIsNat DEF ServerEvents, Total, WatchTypeOK
  <2>2. EventsN(sent + 1) \in Replies
    BY <2>1, MaxEventsIsNat DEF EventsN, Replies, Kinds
  <2>3. PICK t \in Nat, r \in Replies : t = Total /\ r = EventsN(sent + 1)
    BY <2>1, <2>2
  <2>4. InLog(t + 1, r)'
    BY <2>1, <2>3 DEF InLog, EventsN
  <2>5. \A j \in 1 .. t, x \in Replies : InLog(j, x) => InLog(j, x)'
    BY <2>1, <2>3 DEF InLog
  <2>6. Send(r) /\ loop \notin {"create", "write"}
    BY <1>6, <2>3 DEF ServerEvents, ConstructInv
  <2>7. server' \in {"active", "cancelled"} /\ sent' \in 0 .. MaxEvents
    BY <2>1
  <2> QED
    BY <2>1, <2>3, <2>4, <2>5, <2>6, <2>7, SendKeeps
<1>7. CASE ServerCancels
  <2>1. /\ Total' = Total + 1 /\ sent' = sent /\ server' = "cancelled"
        /\ sent \in 0 .. MaxEvents /\ Total = sent + 1 /\ sent \in Nat
    BY <1>7 DEF ServerCancels, Total, WatchTypeOK
  <2>2. PICK k \in {"canceled", "compacted"} : Send(Reply(k))
    BY <1>7 DEF ServerCancels
  <2>3. Reply(k) \in Replies /\ Reply(k).kind = k
    BY PlainReplies DEF Kinds
  <2>4. PICK t \in Nat, r \in Replies : t = Total /\ r = Reply(k)
    BY <2>1, <2>3
  <2>5. InLog(t + 1, r)'
    BY <2>1, <2>3, <2>4 DEF InLog
  <2>6. \A j \in 1 .. t, x \in Replies : InLog(j, x) => InLog(j, x)'
    BY <2>1, <2>4 DEF InLog
  <2>7. Send(r) /\ loop \notin {"create", "write"}
    BY <1>7, <2>2, <2>4 DEF ServerCancels, ConstructInv
  <2>8. server' \in {"active", "cancelled"} /\ sent' \in 0 .. MaxEvents
    BY <2>1
  <2> QED
    BY <2>1, <2>4, <2>5, <2>6, <2>7, <2>8, SendKeeps
<1>8. CASE ConnectionEnds
  <2>1. /\ ending = "none" /\ ending' \in {"OK", "ERROR"}
        /\ UNCHANGED <<isCancelled, loopVars, pending, queue, inbox, server, sent>>
    BY <1>8 DEF ConnectionEnds
  <2>2. Total' = Total /\ \A c, r : (InLog(c, r)' <=> InLog(c, r)) /\ (Taken(c) => Taken(c)')
    BY <2>1 DEF Total, InLog, Taken
  <2>3. ASSUME NEW c \in Nat, Reading(c) PROVE Reading(c)'
    BY <2>1, <2>2, <2>3 DEF Reading, ReadPending, ReadAt, NoReadQueued, NoReadIn
  <2>4. WatchTypeOK' /\ LogInv'
    BY <2>1, <2>2 DEF WatchTypeOK, LogInv, loopVars
  <2>5. ConstructInv'
    BY <2>1 DEF ConstructInv, Only, loopVars
  <2> QED
    BY <2>1, <2>3, <2>4, <2>5 DEF Kept, NoRead, NoReadQueued, NoReadIn
<1> QED
  BY <1>1, <1>2, <1>3, <1>4, <1>5, <1>6, <1>7, <1>8 DEF Transport, Environment

----------------------------------------------------------------------------
(* The loop takes a completion. *)

\* The completion of an operation other than a read: the read in flight, if
\* there is one, stays in flight.
LEMMA TakeOther ==
  ASSUME WatchTypeOK, Take, Head(queue).tag # "READ",
         "READ" \in pending' <=> "READ" \in pending,
         UNCHANGED <<ending, inbox, server, sent>>
  PROVE  /\ NoRead => NoRead'
         /\ \A c \in Nat : Reading(c) => Reading(c)'
<1>1. /\ Len(queue) \in Nat /\ Head(queue) = queue[1] /\ Len(queue) >= 1
      /\ Len(queue') = Len(queue) - 1
      /\ \A i \in 1 .. Len(queue) - 1 : queue'[i] = queue[i + 1]
  BY Lengths, HeadAndTail DEF Take
<1>2. NoReadQueued => NoReadQueued'
  BY <1>1 DEF NoReadQueued, NoReadIn
<1>3. \A c, r : (InLog(c, r)' <=> InLog(c, r)) /\ (Taken(c)' <=> Taken(c)) /\ Total' = Total
  BY DEF InLog, Taken, Total
<1>4. ASSUME NEW c \in Nat, Reading(c) PROVE Reading(c)'
  <2>1. CASE ReadPending(c)
    BY <1>2, <1>3, <2>1 DEF ReadPending, Reading
  <2>2. ASSUME NEW j \in 1 .. Len(queue), ReadAt(c, j) PROVE Reading(c)'
    <3>1. j - 1 \in 1 .. Len(queue')
      BY <1>1, <2>2 DEF ReadAt
    <3>2. PICK k \in 1 .. Len(queue') : k = j - 1
      BY <3>1
    <3>3. queue'[k] = queue[j] /\ \A i \in 1 .. Len(queue') : i # k => queue'[i].tag # "READ"
      BY <1>1, <2>2, <3>2 DEF ReadAt
    <3>4. ReadAt(c, k)'
      BY <1>3, <2>2, <3>3 DEF ReadAt
    <3> QED
      BY <3>2, <3>4 DEF Reading
  <2> QED
    BY <1>4, <2>1, <2>2 DEF Reading
<1> QED
  BY <1>2, <1>4 DEF NoRead

\* The completion of the read in flight: it brought the next reply, and no
\* other read is in flight.
LEMMA TakeRead ==
  ASSUME WatchTypeOK, queue # <<>>, Got("READ")
  PROVE  /\ ~NoRead
         /\ \A c \in Nat : Reading(c) =>
              /\ c < Total /\ InLog(c + 1, Head(queue).val) /\ Taken(c + 1)
              /\ "READ" \notin pending /\ NoReadIn(Tail(queue))
<1>1. /\ queue \in Seq(Completions) /\ Len(queue) \in Nat
      /\ Head(queue) = queue[1] /\ Len(queue) >= 1
      /\ Len(Tail(queue)) = Len(queue) - 1
      /\ \A i \in 1 .. Len(queue) - 1 : Tail(queue)[i] = queue[i + 1]
  BY Lengths, HeadAndTail
<1>. queue[1] \in Completions
  BY <1>1, ElementOfSeq
<1>2. queue[1].tag = "READ" /\ queue[1].ok = TRUE
  BY <1>1 DEF Got, Completions
<1>3. ASSUME NEW c \in Nat, Reading(c) PROVE ReadAt(c, 1)
  BY <1>1, <1>2, <1>3 DEF Reading, ReadPending, NoReadQueued, NoReadIn, ReadAt
<1>4. ASSUME NEW c \in Nat, ReadAt(c, 1) PROVE NoReadIn(Tail(queue))
  BY <1>1, <1>4 DEF ReadAt, NoReadIn
<1>5. ~NoRead
  BY <1>1, <1>2 DEF NoRead, NoReadQueued, NoReadIn
<1>6. ASSUME NEW c \in Nat, ReadAt(c, 1)
      PROVE  /\ c < Total /\ InLog(c + 1, Head(queue).val) /\ Taken(c + 1)
             /\ "READ" \notin pending
  BY <1>1, <1>2, <1>6 DEF ReadAt
<1> QED
  BY <1>3, <1>4, <1>5, <1>6

----------------------------------------------------------------------------
(* Steps of AsyncWatch that both overloads take. *)

\* The constructor: what is in flight is the request just made; without an
\* answer the stream has ended.
LEMMA ConstructStep ==
  ASSUME StreamInv, Create \/ Write
  PROVE  /\ StreamInv' /\ loop' \in {"write", "start"}
         /\ delivered = <<>> /\ delivered' = <<>>
         /\ loop' = "start" => IF status' = "OK" THEN Reading(0)'
                                                 ELSE NoRead' /\ ending' # "none"
<1>1. PICK tag \in {"CREATE", "WRITE"} :
        /\ Only(tag) /\ server = "none" /\ status = "OK" /\ delivered = <<>>
        /\ tag = "CREATE" => Construct("create", "CREATE", "write", "WRITE")
        /\ tag = "WRITE" => Construct("write", "WRITE", "start", "READ")
  BY DEF StreamInv, ConstructInv, Create, Write, Construct
<1>2. /\ Take /\ UNCHANGED <<finalRound, delivered, ending, inbox, server, sent>>
      /\ IF Got(tag)
         THEN /\ pending' = pending \cup {IF tag = "CREATE" THEN "WRITE" ELSE "READ"}
              /\ loop' = (IF tag = "CREATE" THEN "write" ELSE "start")
              /\ UNCHANGED <<status, isCancelled>>
         ELSE /\ status' = "ERROR" /\ isCancelled' = TRUE
              /\ loop' = "start" /\ pending' = pending
  BY <1>1 DEF Construct, Post
<1>3. /\ queue \in Seq(Completions) /\ Len(queue) \in Nat
      /\ Head(queue) = queue[1] /\ Len(queue) >= 1
      /\ queue' \in Seq(Completions) /\ Len(queue') = Len(queue) - 1
      /\ queue # <<>> /\ inbox \in Seq(Replies) /\ Len(inbox) \in Nat /\ sent \in Nat
  BY <1>2, Lengths, HeadAndTail DEF Take, StreamInv
<1>4. /\ pending = {} /\ Len(queue) = 1 /\ queue[1].tag = tag
      /\ queue[1].ok = FALSE => ending # "none"
  BY <1>1, <1>3 DEF Only
<1>5. Len(queue') = 0 /\ queue' = <<>>
  BY <1>3, <1>4, EmptySeq
<1>. queue[1] \in Completions
  BY <1>3, ElementOfSeq
<1>6. queue[1].ok \in BOOLEAN
  BY DEF Completions
<1>7. NoReadQueued'
  BY <1>5 DEF NoReadQueued, NoReadIn
<1>8. WatchTypeOK'
  BY <1>2, <1>3, <1>4 DEF StreamInv, WatchTypeOK, Tags
<1>9. LogInv'
  BY <1>2 DEF StreamInv, LogInv, InLog, Total
<1>10. ConstructInv'
  BY <1>1, <1>2, <1>4, <1>5 DEF ConstructInv, Only
<1>11. ASSUME loop' = "start", status' = "OK" PROVE Reading(0)'
  <2>1. pending' = {"READ"}
    BY <1>1, <1>2, <1>4, <1>11
  <2>2. Total' = 0 /\ Len(inbox') = 0
    BY <1>1, <1>2, <1>3 DEF StreamInv, LogInv, Total
  <2> QED
    BY <1>7, <2>1, <2>2 DEF Reading, ReadPending, Taken
<1>12. ASSUME loop' = "start", status' # "OK" PROVE NoRead' /\ ending' # "none"
  <2>1. ~Got(tag) /\ pending' = {}
    BY <1>1, <1>2, <1>4, <1>12
  <2> QED
    BY <1>2, <1>3, <1>4, <1>6, <1>7, <2>1 DEF Got, NoRead
<1> QED
  BY <1>1, <1>2, <1>8, <1>9, <1>10, <1>11, <1>12 DEF StreamInv

\* The steps of the loop that both overloads share.
LEMMA LoopStepKeeps ==
  ASSUME StreamInv, LoopStep
  PROVE  /\ StreamInv' /\ loop = "next" /\ UNCHANGED <<status, delivered>>
         /\ loop' # "end" => /\ loop' = "next" /\ UNCHANGED ending
                             /\ NoRead => NoRead'
                             /\ \A c \in Nat : Reading(c) => Reading(c)'
         /\ loop' \in {"next", "end"}
<1> USE DEF StreamInv
<1>1. ASSUME Take
      PROVE  /\ queue' \in Seq(Completions) /\ queue \in Seq(Completions)
             /\ Head(queue) \in Completions /\ Head(queue).ok \in BOOLEAN
  <2>1. queue' \in Seq(Completions) /\ queue \in Seq(Completions) /\ Head(queue) \in Completions
    BY <1>1, Lengths, HeadAndTail DEF Take
  <2> QED
    BY <2>1 DEF Completions
<1>2. ASSUME UNCHANGED <<inbox, server, sent>> PROVE LogInv'
  BY <1>2 DEF LogInv, InLog, Total
<1>3. CASE NotOk \/ Finish
  BY <1>1, <1>2, <1>3 DEF NotOk, Finish, LoopTakes, WatchTypeOK, ConstructInv
<1>4. CASE FinalTimeout
  <2>1. inbox' = <<>> /\ Len(inbox') = 0 /\ inbox' \in Seq(Replies) /\ Total' = Total
    BY <1>4, EmptySeq DEF FinalTimeout, TryCancel, Total
  <2>2. LogInv'
    BY <1>4, <2>1, Lengths DEF LogInv, FinalTimeout
  <2>3. ending' \in {"none", "OK", "ERROR"}
    BY <1>4 DEF FinalTimeout, TryCancel, WatchTypeOK
  <2> QED
    BY <1>4, <2>1, <2>2, <2>3 DEF FinalTimeout, WatchTypeOK, ConstructInv
<1>5. CASE WriteCancelDone \/ WritesDone
  <2>1. /\ loop = "next" /\ Take /\ Head(queue).tag # "READ"
        /\ \E tag \in Tags \ {"READ"} : pending' = pending \cup {tag}
        /\ UNCHANGED <<isCancelled, status, loop, delivered, ending, inbox, server, sent>>
        /\ finalRound' \in BOOLEAN
    BY <1>5 DEF WriteCancelDone, WritesDone, LoopTakes, Got, Post, loopVars, Tags,
                WatchTypeOK
  <2>2. "READ" \in pending' <=> "READ" \in pending
    BY <2>1
  <2>3. (NoRead => NoRead') /\ \A c \in Nat : Reading(c) => Reading(c)'
    BY <2>1, <2>2, TakeOther
  <2>4. WatchTypeOK' /\ LogInv' /\ ConstructInv'
    BY <1>1, <1>2, <2>1 DEF WatchTypeOK, ConstructInv
  <2> QED
    BY <2>1, <2>3, <2>4
<1> QED
  BY <1>3, <1>4, <1>5 DEF LoopStep

\* The reply that ends the watch: no read is in flight, and the stream has ended.
LEMMA ReadCanceledKeeps ==
  ASSUME StreamInv, ReadCanceled, delivered' \in Seq(Replies),
         NoRead \/ \E c \in Nat : Reading(c)
  PROVE  /\ StreamInv' /\ loop = "next" /\ loop' = "next" /\ UNCHANGED status
         /\ NoRead' /\ ending' # "none"
<1> USE DEF StreamInv
<1>1. /\ loop = "next" /\ Take /\ Got("READ")
      /\ UNCHANGED <<isCancelled, status, loop, finalRound, pending, server, sent>>
      /\ inbox' = <<>> /\ ending' \in {"OK", "ERROR"}
  BY DEF ReadCanceled, LoopTakes, TryCancel, WatchTypeOK
<1>2. "READ" \notin pending /\ NoReadQueued'
  BY <1>1, TakeRead DEF Take, NoReadQueued
<1>3. queue' \in Seq(Completions)
  BY <1>1, Lengths, HeadAndTail DEF Take
<1>4. inbox' \in Seq(Replies) /\ Len(inbox') = 0 /\ Total' = Total
  BY <1>1, EmptySeq DEF Total
<1>5. WatchTypeOK' /\ LogInv' /\ ConstructInv'
  BY <1>1, <1>3, <1>4, Lengths DEF WatchTypeOK, LogInv, ConstructInv
<1> QED
  BY <1>1, <1>2, <1>5 DEF NoRead

\* A reply that leaves the watch alive, and the next read is started.
LEMMA ReadNext ==
  ASSUME StreamInv, LoopTakes(Got("READ") /\ Head(queue).val.kind \in {"created", "events"}),
         Post("READ"), delivered' \in Seq(Replies),
         UNCHANGED <<isCancelled, status, loop, finalRound, ending, inbox, server, sent>>,
         NEW c \in Nat, Reading(c)
  PROVE  /\ StreamInv' /\ Reading(c + 1)' /\ c + 1 \in 0 .. MaxEvents + 2
         /\ IF c = 0 THEN Head(queue).val.kind = "created"
                     ELSE Head(queue).val = EventsN(c)
<1> USE DEF StreamInv
<1>1. loop = "next" /\ Take /\ Got("READ") /\ Head(queue).val.kind \in {"created", "events"}
  BY DEF LoopTakes
<1>2. /\ c < Total /\ InLog(c + 1, Head(queue).val) /\ Taken(c + 1)
      /\ "READ" \notin pending /\ NoReadQueued'
  BY <1>1, TakeRead DEF Take, NoReadQueued
<1>3. /\ Total \in Nat /\ Total <= MaxEvents + 2 /\ sent \in Nat
      /\ queue' \in Seq(Completions)
  BY <1>1, Lengths, HeadAndTail DEF Take
<1>4. PICK d \in Nat : d = c + 1
  OBVIOUS
<1>5. Reading(d)'
  BY <1>2, <1>4 DEF Reading, ReadPending, Taken, Total, Post
<1>6. Total <= sent + 2
  BY <1>3 DEF Total
<1>7. IF c = 0 THEN Head(queue).val.kind = "created" ELSE Head(queue).val = EventsN(c)
  BY <1>1, <1>2, <1>3, <1>6 DEF InLog
<1>8. WatchTypeOK' /\ LogInv' /\ ConstructInv'
  BY <1>1, <1>3 DEF WatchTypeOK, LogInv, ConstructInv, InLog, Total, Post, Tags
<1> QED
  BY <1>2, <1>3, <1>4, <1>5, <1>7, <1>8, MaxEventsIsNat

----------------------------------------------------------------------------
(* The invariant of Watcher. *)

\* A step of AsyncWatch that leaves the loop where it is, or a step of the
\* environment, gives nothing to the callback and keeps the read in flight.
LEMMA LoopUndisturbed ==
  ASSUME LoopInv, DeliveredInv, UNCHANGED <<status, loop, delivered>>,
         ending # "none" => ending' # "none", NoRead => NoRead',
         \A c \in Nat : Reading(c) => Reading(c)'
  PROVE  LoopInv' /\ DeliveredInv'
<1>1. DeliveredInv'
  BY DEF DeliveredInv
<1>2. \A c \in Nat : Given(c) => Given(c)'
  BY DEF Given
<1>3. (loop = "start" /\ status = "OK") => Reading(0)' /\ delivered' = <<>>
  BY DEF LoopInv
<1>4. (loop = "start" /\ status # "OK") => NoRead' /\ ending' # "none" /\ delivered' = <<>>
  BY DEF LoopInv
<1>5. ASSUME loop = "next"
      PROVE  \/ NoRead' /\ ending' # "none"
             \/ \E c \in 0 .. MaxEvents + 2 : Reading(c)' /\ Given(c)'
  <2>1. CASE NoRead /\ ending # "none"
    BY <2>1
  <2>2. ASSUME NEW c \in 0 .. MaxEvents + 2, Reading(c) /\ Given(c)
        PROVE  Reading(c)' /\ Given(c)'
    BY <1>2, <2>2
  <2> QED
    BY <1>5, <2>1, <2>2 DEF LoopInv
<1> QED
  BY <1>1, <1>3, <1>4, <1>5 DEF LoopInv

\* The task does not go back: not to the constructor, and not once it has ended.
LEMMA TaskGoesOn ==
  ASSUME TaskStep
  PROVE  /\ UNCHANGED <<pc, cancelled>>
         /\ loop = "done" => loop' = "done"
         /\ Constructed => Constructed'
  BY DEF TaskStep, userVars, Create, Write, Construct, Start, LoopStep, NotOk,
         WriteCancelDone, WritesDone, Finish, FinalTimeout, LoopTakes,
         CallbackCanceled, ReadCanceled, CallbackEvents, End, loopVars, Constructed

\* What a user thread does to its own state: it leaves the join only when the
\* task has ended, and the first to come to Wait() joins.
LEMMA UserKeeps ==
  ASSUME StoppedOnceJoined, CallersInv, TypeOK, NEW u \in Users, UserCalls(u) \/ UserStep(u)
  PROVE  TypeOK' /\ StoppedOnceJoined' /\ CallersInv'
<1>1. pc \in [Users -> {"idle", "cancel", "write", "wait", "join"}]
  BY DEF TypeOK
<1>2. UNCHANGED <<status, loop, finalRound, delivered, queue, ending, inbox, server, sent>>
  BY DEF UserCalls, UserStep, CallCancel, CallWait, SetWaitCallback, ExchangeCancelled,
         WriteCancel, ExchangeJoin, Join, watchVars, loopVars, streamVars
<1>3. isCancelled' \in BOOLEAN /\ pending' \in SUBSET Tags
  BY DEF UserCalls, UserStep, CallCancel, CallWait, SetWaitCallback, ExchangeCancelled,
         Post,
         WriteCancel, ExchangeJoin, Join, watchVars, streamVars, TypeOK, WatchTypeOK, Tags
<1>4. WatchTypeOK'
  BY <1>2, <1>3 DEF TypeOK, WatchTypeOK
<1>5. /\ pc' \in [Users -> {"idle", "cancel", "write", "wait", "join"}]
      /\ cancelled' \in BOOLEAN /\ waitCallback' \in {"unset", "set", "called"}
  BY <1>1 DEF UserCalls, UserStep, CallCancel, CallWait, SetWaitCallback, ExchangeCancelled,
              WriteCancel, ExchangeJoin, Join, Goto, TypeOK
<1>6. \A v \in Users : pc'[v] # "idle" => pc[v] # "idle" \/ Constructed
  BY <1>1 DEF UserCalls, UserStep, CallCancel, CallWait, SetWaitCallback, ExchangeCancelled,
              WriteCancel, ExchangeJoin, Join, Goto
<1>7. CallersInv'
  BY <1>2, <1>6 DEF CallersInv, Constructed
<1>8. StoppedOnceJoined'
  <2>1. loop' = loop
    BY <1>2
  <2>2. CASE Join(u)
    BY <2>1, <2>2 DEF Join, StoppedOnceJoined
  <2>3. CASE ExchangeJoin(u)
    <3>1. CASE cancelled
      BY <1>1, <2>1, <2>3, <3>1 DEF ExchangeJoin, Goto, StoppedOnceJoined
    <3>2. CASE ~cancelled
      <4>1. pc'[u] = "join"
        BY <1>1, <2>3, <3>2 DEF ExchangeJoin, Goto
      <4> QED
        BY <4>1 DEF StoppedOnceJoined
    <3> QED
      BY <3>1, <3>2
  <2>4. CASE ~Join(u) /\ ~ExchangeJoin(u)
    <3>1. cancelled' = cancelled /\ \A v \in Users : pc[v] = "join" => pc'[v] = "join"
      BY <1>1, <2>4 DEF UserCalls, UserStep, CallCancel, CallWait, SetWaitCallback,
                        ExchangeCancelled, WriteCancel, Goto
    <3> QED
      BY <2>1, <3>1 DEF StoppedOnceJoined
  <2> QED
    BY <2>2, <2>3, <2>4
<1> QED
  BY <1>4, <1>5, <1>7, <1>8 DEF TypeOK

\* Initially the stream is being opened.
LEMMA InitInv ==
  Init => WatcherInv
<1> SUFFICES ASSUME Init PROVE WatcherInv
  OBVIOUS
<1> USE DEF Init, WatchInit
<1>1. Len(inbox) = 0 /\ Len(delivered) = 0
  BY EmptySeq
<1>2. TypeOK
  <2>1. queue \in Seq(Completions) /\ inbox \in Seq(Replies) /\ delivered \in Seq(Replies)
    BY EmptySeq
  <2>2. sent \in 0 .. MaxEvents
    BY MaxEventsIsNat
  <2> QED
    BY <2>1, <2>2 DEF TypeOK, WatchTypeOK, Tags
<1>3. StreamInv
  BY <1>1, <1>2 DEF TypeOK, StreamInv, LogInv, ConstructInv, Only, Total
<1> QED
  BY <1>1, <1>2, <1>3 DEF WatcherInv, LoopInv, DeliveredInv, StoppedOnceJoined, CallersInv

\* What one step keeps, apart from the user threads' own state.
LEMMA TaskKeeps ==
  ASSUME WatcherInv, TaskStep
  PROVE  TypeOK' /\ StreamInv' /\ LoopInv' /\ DeliveredInv'
<1> USE DEF WatcherInv
<1>1. delivered \in Seq(Replies) /\ Len(delivered) \in Nat
  BY Lengths DEF StreamInv
<1>2. ASSUME UNCHANGED userVars, WatchTypeOK' PROVE TypeOK'
  BY <1>2 DEF TypeOK, userVars
<1>3. ASSUME NEW r \in Replies, Deliver(r)
      PROVE  /\ delivered' \in Seq(Replies) /\ Len(delivered') = Len(delivered) + 1
             /\ \A i \in 1 .. Len(delivered) : delivered'[i] = delivered[i]
             /\ delivered'[Len(delivered) + 1] = r
  BY <1>1, <1>3, Appended DEF Deliver
<1>4. ASSUME NEW r \in Replies, Deliver(r), r.kind # "events" PROVE DeliveredInv'
  BY <1>1, <1>3, <1>4 DEF DeliveredInv
<1>5. ASSUME UNCHANGED delivered PROVE DeliveredInv'
  BY <1>5 DEF DeliveredInv
<1>6. CASE (Create \/ Write) /\ UNCHANGED userVars
  <2>1. /\ StreamInv' /\ loop' \in {"write", "start"} /\ delivered = <<>> /\ delivered' = <<>>
        /\ loop' = "start" => IF status' = "OK" THEN Reading(0)'
                                                ELSE NoRead' /\ ending' # "none"
    BY <1>6, ConstructStep
  <2>2. WatchTypeOK' /\ LoopInv' /\ DeliveredInv'
    BY <1>5, <2>1 DEF StreamInv, LoopInv
  <2> QED
    BY <1>2, <1>6, <2>1, <2>2
<1>7. CASE Start /\ UNCHANGED userVars
  <2>1. /\ loop = "start" /\ loop' = "next" /\ delivered = <<>>
        /\ UNCHANGED <<isCancelled, status, finalRound, pending, queue, ending, inbox,
                       server, sent>>
        /\ IF status = "OK" THEN delivered' = delivered ELSE Deliver(Reply("failed"))
    BY <1>7 DEF Start, streamVars, LoopInv
  <2>2. Reply("failed") \in Replies /\ Reply("failed").kind = "failed"
    BY PlainReplies DEF Kinds
  <2>3. DeliveredInv' /\ delivered' \in Seq(Replies)
    BY <1>1, <1>3, <1>4, <1>5, <2>1, <2>2
  <2>4. StreamInv'
    BY <2>1, <2>3 DEF StreamInv, WatchTypeOK, LogInv, ConstructInv, InLog, Total
  <2>5. CASE status = "OK"
    <3>1. Reading(0)'
      BY <2>1, <2>5 DEF LoopInv, Reading, ReadPending, ReadAt, Taken, InLog, Total,
                        NoReadQueued, NoReadIn
    <3>2. Given(0)'
      BY <2>1, <2>5, EmptySeq DEF Given
    <3> QED
      BY <1>2, <1>7, <2>1, <2>3, <2>4, <3>1, <3>2, MaxEventsIsNat DEF LoopInv, StreamInv
  <2>6. CASE status # "OK"
    BY <1>2, <1>7, <2>1, <2>3, <2>4, <2>6 DEF LoopInv, StreamInv, NoRead, NoReadQueued,
       NoReadIn
  <2> QED
    BY <2>5, <2>6
<1>8. CASE LoopStep /\ UNCHANGED userVars
  <2>1. /\ StreamInv' /\ loop = "next" /\ UNCHANGED <<status, delivered>>
        /\ loop' # "end" => /\ loop' = "next" /\ UNCHANGED ending
                            /\ NoRead => NoRead'
                            /\ \A c \in Nat : Reading(c) => Reading(c)'
    BY <1>8, LoopStepKeeps
  <2>2. CASE loop' = "end"
    BY <1>2, <1>5, <1>8, <2>1, <2>2 DEF LoopInv, StreamInv
  <2>3. CASE loop' # "end"
    BY <1>2, <1>8, <2>1, <2>3, LoopUndisturbed DEF StreamInv
  <2> QED
    BY <2>2, <2>3
<1>9. ASSUME Take PROVE Head(queue).val \in Replies
  <2>1. Head(queue) \in Completions
    BY <1>9, Lengths, HeadAndTail DEF Take, StreamInv
  <2> QED
    BY <2>1 DEF Completions
<1>10. CASE CallbackCanceled /\ UNCHANGED userVars
  <2>1. /\ ReadCanceled /\ loop = "next" /\ Take
        /\ Head(queue).val.kind \in {"canceled", "compacted"}
        /\ IF Head(queue).val.kind = "compacted" THEN Deliver(Head(queue).val)
                                                 ELSE UNCHANGED delivered
    BY <1>10 DEF CallbackCanceled, ReadCanceled, LoopTakes
  <2>2. Head(queue).val \in Replies
    BY <1>9, <2>1
  <2>3. DeliveredInv' /\ delivered' \in Seq(Replies)
    BY <1>1, <1>3, <1>4, <1>5, <2>1, <2>2
  <2>4. NoRead \/ \E c \in Nat : Reading(c)
    BY <2>1 DEF LoopInv
  <2>5. StreamInv' /\ loop' = "next" /\ NoRead' /\ ending' # "none"
    BY <2>1, <2>3, <2>4, ReadCanceledKeeps
  <2> QED
    BY <1>2, <1>10, <2>3, <2>5 DEF LoopInv, StreamInv
<1>11. CASE CallbackEvents /\ UNCHANGED userVars
  <2>1. /\ LoopTakes(Got("READ") /\ Head(queue).val.kind \in {"created", "events"})
        /\ loop = "next" /\ Take /\ Got("READ")
        /\ Head(queue).val.kind \in {"created", "events"}
        /\ IF Head(queue).val.kind = "events" THEN Deliver(Head(queue).val)
                                              ELSE UNCHANGED delivered
        /\ Post("READ")
        /\ UNCHANGED <<isCancelled, status, loop, finalRound, ending, inbox, server, sent>>
    BY <1>11 DEF CallbackEvents, LoopTakes
  <2>2. Head(queue).val \in Replies
    BY <1>9, <2>1
  <2>3. delivered' \in Seq(Replies)
    BY <1>1, <1>3, <2>1, <2>2
  <2>4. ~NoRead
    BY <2>1, TakeRead DEF StreamInv, Take
  <2>5. PICK c \in 0 .. MaxEvents + 2 : Reading(c) /\ Given(c)
    BY <2>1, <2>4 DEF LoopInv
  <2>6. /\ StreamInv' /\ Reading(c + 1)' /\ c + 1 \in 0 .. MaxEvents + 2
        /\ IF c = 0 THEN Head(queue).val.kind = "created" ELSE Head(queue).val = EventsN(c)
    BY <2>1, <2>3, <2>5, ReadNext
  <2>7. Given(c + 1)'
    <3>1. CASE c = 0
      BY <2>1, <2>5, <2>6, <3>1 DEF Given
    <3>2. CASE c # 0
      <4>1. Deliver(EventsN(c)) /\ EventsN(c) \in Replies
        BY <2>1, <2>2, <2>6, <3>2 DEF EventsN
      <4>2. Len(delivered') = c /\ \A i \in 1 .. Len(delivered') : delivered'[i] = EventsN(i)
        BY <1>1, <1>3, <2>5, <3>2, <4>1 DEF Given
      <4> QED
        BY <3>2, <4>2 DEF Given
    <3> QED
      BY <3>1, <3>2
  <2>8. DeliveredInv'
    <3>1. \A i \in 1 .. Len(delivered') : delivered'[i] = EventsN(i)
      BY <2>7 DEF Given
    <3>2. \A i : EventsN(i).n = i
      BY DEF EventsN
    <3> QED
      BY <3>1, <3>2 DEF DeliveredInv
  <2> QED
    BY <1>2, <1>11, <2>1, <2>6, <2>7, <2>8 DEF LoopInv, StreamInv
<1>12. CASE End
  <2>1. /\ loop' = "done" /\ waitCallback' \in {"unset", "set", "called"}
        /\ UNCHANGED <<isCancelled, status, finalRound, delivered, pending, queue, ending,
                       inbox, server, sent, pc, cancelled>>
    BY <1>12 DEF End, streamVars, TypeOK
  <2>2. TypeOK' /\ WatchTypeOK'
    BY <2>1 DEF TypeOK, WatchTypeOK
  <2> QED
    BY <1>5, <2>1, <2>2 DEF StreamInv, LogInv, ConstructInv, InLog, Total, LoopInv
<1> QED
  BY <1>6, <1>7, <1>8, <1>10, <1>11, <1>12 DEF TaskStep

\* The invariant is inductive.
LEMMA WatcherInvInductive ==
  WatcherInv /\ [Next]_vars => WatcherInv'
<1> SUFFICES ASSUME WatcherInv, [Next]_vars PROVE WatcherInv'
  OBVIOUS
<1> USE DEF WatcherInv
<1>1. CASE TaskStep
  <2>1. StoppedOnceJoined' /\ CallersInv'
    BY <1>1, TaskGoesOn DEF StoppedOnceJoined, CallersInv
  <2> QED
    BY <1>1, <2>1, TaskKeeps
<1>2. ASSUME NEW u \in Users, UserCalls(u) \/ UserStep(u) PROVE WatcherInv'
  <2>1. TypeOK' /\ StoppedOnceJoined' /\ CallersInv'
    BY <1>2, UserKeeps
  <2>2. CASE WriteCancel(u)
    <3>1. /\ loop \notin {"create", "write"}
          /\ pending' = pending \cup {"WRITE_CANCEL"}
          /\ UNCHANGED <<status, loop, delivered, queue, ending, inbox, server, sent>>
      BY <2>2 DEF WriteCancel, Goto, Post, CallersInv, Constructed, loopVars
    <3>2. StreamInv'
      BY <2>1, <3>1 DEF TypeOK, StreamInv, LogInv, ConstructInv, InLog, Total
    <3>3. (NoRead => NoRead') /\ \A c \in Nat : Reading(c) => Reading(c)'
      BY <3>1 DEF NoRead, NoReadQueued, NoReadIn, Reading, ReadPending, ReadAt, Taken,
                  InLog, Total
    <3>4. LoopInv' /\ DeliveredInv'
      BY <3>1, <3>3, LoopUndisturbed
    <3> QED
      BY <2>1, <3>2, <3>4
  <2>3. CASE ~WriteCancel(u)
    <3>1. UNCHANGED <<status, loop, delivered, pending, queue, ending, inbox, server, sent>>
      BY <1>2, <2>3 DEF UserCalls, UserStep, CallCancel, CallWait, SetWaitCallback,
                        ExchangeCancelled, ExchangeJoin, Join, watchVars, loopVars, streamVars
    <3>2. StreamInv'
      BY <2>1, <3>1 DEF TypeOK, StreamInv, LogInv, ConstructInv, Only, InLog, Total
    <3>3. (NoRead => NoRead') /\ \A c \in Nat : Reading(c) => Reading(c)'
      BY <3>1 DEF NoRead, NoReadQueued, NoReadIn, Reading, ReadPending, ReadAt, Taken,
                  InLog, Total
    <3>4. LoopInv' /\ DeliveredInv'
      BY <3>1, <3>3, LoopUndisturbed
    <3> QED
      BY <2>1, <3>2, <3>4
  <2> QED
    BY <2>2, <2>3
<1>3. CASE (Transport \/ Environment) /\ UNCHANGED userVars
  <2>1. Kept
    BY <1>3, StreamStep
  <2>2. LoopInv' /\ DeliveredInv'
    BY <2>1, LoopUndisturbed DEF Kept, loopVars
  <2>3. TypeOK' /\ StoppedOnceJoined' /\ CallersInv'
    BY <1>3, <2>1 DEF Kept, StreamInv, TypeOK, StoppedOnceJoined, CallersInv, Constructed,
                      userVars, loopVars
  <2> QED
    BY <2>1, <2>2, <2>3 DEF Kept
<1>4. CASE UNCHANGED vars
  <2>1. UNCHANGED <<isCancelled, status, loop, finalRound, delivered, pending, queue, ending,
                    inbox, server, sent, pc, cancelled, waitCallback>>
    BY <1>4 DEF vars, userVars, watchVars, loopVars, streamVars
  <2>2. TypeOK' /\ StreamInv' /\ StoppedOnceJoined' /\ CallersInv'
    BY <2>1 DEF TypeOK, WatchTypeOK, StreamInv, LogInv, ConstructInv, Only, InLog, Total,
                StoppedOnceJoined, CallersInv, Constructed
  <2>3. (NoRead => NoRead') /\ \A c \in Nat : Reading(c) => Reading(c)'
    BY <2>1 DEF NoRead, NoReadQueued, NoReadIn, Reading, ReadPending, ReadAt, Taken, InLog,
                Total
  <2>4. LoopInv' /\ DeliveredInv'
    BY <2>1, <2>3, LoopUndisturbed
  <2> QED
    BY <2>2, <2>4
<1> QED
  BY <1>1, <1>2, <1>3, <1>4 DEF Next

\* On a live stream, events n are among those given to the callback if n < c,
\* in the completion of the read if n = c, and in the inbox otherwise.
LEMMA InvImpliesEventsInOrder ==
  WatcherInv => EventsInOrder
<1> SUFFICES ASSUME WatcherInv PROVE EventsInOrder
  OBVIOUS
<1> USE DEF WatcherInv
<1>1. SUFFICES ASSUME ending = "none", loop = "next", NEW n \in 1 .. sent
               PROVE  EventsN(n) \in Members(delivered) \cup Members(inbox)
                                       \cup {event.val : event \in Members(queue)}
  BY DEF EventsInOrder, DeliveredInv
<1>2. /\ Len(queue) \in Nat /\ Len(inbox) \in Nat /\ Len(delivered) \in Nat
      /\ sent \in Nat /\ Total \in Nat /\ Total >= sent + 1
  BY Lengths DEF StreamInv, LogInv, Total
<1>3. PICK c \in 0 .. MaxEvents + 2 : Reading(c) /\ Given(c)
  BY <1>1 DEF LoopInv
<1>4. CASE n < c
  <2>1. n \in 1 .. Len(delivered) /\ delivered[n] = EventsN(n)
    BY <1>2, <1>3, <1>4 DEF Given
  <2> QED
    BY <2>1 DEF Members
<1>5. ASSUME NEW d \in Nat, Total - Len(inbox) = d, d <= n
      PROVE  EventsN(n) \in Members(inbox)
  <2>1. PICK i \in 1 .. Len(inbox) : i = n + 1 - d
    BY <1>2, <1>5
  <2>2. Total - Len(inbox) + i = n + 1
    BY <1>2, <1>5, <2>1
  <2>3. InLog(n + 1, inbox[i])
    BY <2>2 DEF StreamInv, LogInv
  <2>4. inbox[i] = EventsN(n)
    BY <1>2, <2>3 DEF InLog
  <2> QED
    BY <2>4 DEF Members
<1>6. CASE n >= c /\ ReadPending(c)
  <2>1. Total - Len(inbox) = c
    BY <1>1, <1>6 DEF ReadPending, Taken
  <2> QED
    BY <1>5, <1>6, <2>1
<1>7. ASSUME n >= c, NEW j \in 1 .. Len(queue), ReadAt(c, j)
      PROVE  EventsN(n) \in Members(inbox) \cup {event.val : event \in Members(queue)}
  <2>1. queue[j] \in Completions
    BY Lengths, ElementOfSeq DEF StreamInv
  <2>2. queue[j].ok = TRUE
    BY <1>1, <1>7, <2>1 DEF ReadAt, Completions
  <2>3. c < Total /\ InLog(c + 1, queue[j].val) /\ Total - Len(inbox) = c + 1
    BY <1>1, <1>7, <2>2 DEF ReadAt, Taken
  <2>4. CASE n = c
    <3>1. queue[j].val = EventsN(n)
      BY <1>2, <2>3, <2>4 DEF InLog
    <3> QED
      BY <3>1 DEF Members
  <2>5. CASE n >= c + 1
    BY <1>5, <2>3, <2>5
  <2> QED
    BY <1>7, <2>4, <2>5
<1> QED
  BY <1>2, <1>3, <1>4, <1>6, <1>7 DEF Reading

\* Every reachable state of Watcher satisfies the invariant.
THEOREM WatcherInvariance == Spec => []WatcherInv
  BY InitInv, WatcherInvInductive, PTL DEF Spec

\* Watcher keeps its type.
THEOREM TypeCorrect == Spec => []TypeOK
  BY WatcherInvariance, PTL DEF WatcherInv

\* The callback of a Watcher is given every reply with events once, in the order
\* sent; while the stream lives none is lost, also after Cancel().
THEOREM EventsInOrderHolds == Spec => []EventsInOrder
  BY WatcherInvariance, InvImpliesEventsInOrder, PTL

\* When Cancel() or Wait() was called and no thread is left in the join, the
\* task has ended, whatever the number of user threads.
THEOREM StoppedOnceJoinedHolds == Spec => []StoppedOnceJoined
  BY WatcherInvariance, PTL DEF WatcherInv

----------------------------------------------------------------------------
(* The one-shot watch. *)

\* The loop reads the creation and the first events, and no reply after that.
OneLoopInv ==
  /\ (loop = "start" /\ status = "OK") => Reading(0)
  /\ loop = "next" => NoRead \/ Reading(0) \/ Reading(1)

FirstOnly(r) == r.kind = "events" => r.n = 1

OneInv ==
  OneShotTypeOK /\ StreamInv /\ OneLoopInv /\ FirstOnly(reply) /\ FirstOnly(result)

\* What the loop reads after c replies, c being 0 or 1.
LEMMA OneRead ==
  ASSUME OneInv, loop = "next", queue # <<>>, Got("READ")
  PROVE  /\ Head(queue).val \in Replies
         /\ "READ" \notin pending /\ NoReadIn(Tail(queue))
         /\ Head(queue).val.kind \in {"created", "events"} =>
              \/ Reading(0) /\ Head(queue).val.kind = "created"
              \/ Reading(1) /\ Head(queue).val = EventsN(1)
<1> USE DEF OneInv, StreamInv
<1>1. /\ sent \in Nat /\ Total \in Nat /\ Total <= sent + 2
      /\ Head(queue) \in Completions
  BY Lengths, HeadAndTail DEF Total
<1>2. Head(queue).val \in Replies
  BY <1>1 DEF Completions
<1>3. PICK c \in {0, 1} : Reading(c)
  BY TakeRead DEF OneLoopInv
<1>4. /\ c < Total /\ InLog(c + 1, Head(queue).val)
      /\ "READ" \notin pending /\ NoReadIn(Tail(queue))
  BY <1>3, TakeRead
<1>5. CASE c = 0
  BY <1>2, <1>3, <1>4, <1>5 DEF InLog
<1>6. CASE c = 1
  <2>1. InLog(2, Head(queue).val)
    BY <1>4, <1>6
  <2>2. ASSUME Head(queue).val.kind \in {"created", "events"}
        PROVE  Head(queue).val = EventsN(1)
    BY <1>1, <1>4, <1>6, <2>1, <2>2 DEF InLog
  <2> QED
    BY <1>2, <1>3, <1>4, <1>6, <2>2
<1> QED
  BY <1>5, <1>6

\* A reply worth returning: the watch is being cancelled and reads no more.
LEMMA OneEffective ==
  ASSUME OneInv, ReadEffective
  PROVE  StreamInv' /\ loop' = "next" /\ NoRead' /\ FirstOnly(reply') /\ reply' \in Replies
<1> DEFINE finish == [tag |-> "FINISH", ok |-> TRUE, val |-> Reply("none")]
           write == [tag |-> "WRITE_CANCEL", ok |-> ending = "none", val |-> Reply("none")]
<1>1. /\ loop = "next" /\ queue # <<>> /\ Got("READ") /\ reply' = Head(queue).val
      /\ Head(queue).val.kind \in {"created", "events"}
      /\ isCancelled' = TRUE
      /\ \/ queue' = Append(Tail(queue), finish) /\ pending' = pending \cup {"WRITE_CANCEL"}
         \/ queue' = Tail(queue) \o <<write, finish>> /\ pending' = pending
      /\ UNCHANGED <<status, loop, finalRound, delivered, ending, inbox, server, sent>>
  BY DEF ReadEffective, Got, Effective, Post, Reply, loopVars
<1>2. Reply("none") \in Replies
  BY PlainReplies DEF Kinds
<1>3. /\ finish \in Completions /\ finish.tag = "FINISH"
      /\ write \in Completions /\ write.tag = "WRITE_CANCEL"
  BY <1>2 DEF Completions, Tags
<1> HIDE DEF finish, write
<1>4. /\ Head(queue).val \in Replies /\ "READ" \notin pending /\ NoReadIn(Tail(queue))
      /\ Head(queue).val.kind = "created" \/ Head(queue).val = EventsN(1)
  BY <1>1, OneRead
<1>5. Tail(queue) \in Seq(Completions) /\ Len(Tail(queue)) \in Nat
  BY <1>1, Lengths, HeadAndTail DEF OneInv, StreamInv
<1>6. queue' \in Seq(Completions) /\ NoReadQueued'
  <2>1. CASE queue' = Append(Tail(queue), finish)
    <3>1. /\ queue' \in Seq(Completions) /\ Len(queue') = Len(Tail(queue)) + 1
          /\ \A i \in 1 .. Len(Tail(queue)) : queue'[i] = Tail(queue)[i]
          /\ queue'[Len(Tail(queue)) + 1] = finish
      BY <1>3, <1>5, <2>1, Appended
    <3> QED
      BY <1>3, <1>4, <1>5, <3>1 DEF NoReadQueued, NoReadIn
  <2>2. CASE queue' = Tail(queue) \o <<write, finish>>
    <3>1. /\ <<write, finish>> \in Seq(Completions) /\ Len(<<write, finish>>) = 2
          /\ <<write, finish>>[1] = write /\ <<write, finish>>[2] = finish
      BY <1>3
    <3>2. /\ queue' \in Seq(Completions) /\ Len(queue') = Len(Tail(queue)) + 2
          /\ \A i \in 1 .. Len(queue') :
               queue'[i] = IF i <= Len(Tail(queue)) THEN Tail(queue)[i]
                           ELSE <<write, finish>>[i - Len(Tail(queue))]
      BY <1>5, <2>2, <3>1, ConcatProperties
    <3>3. ASSUME NEW i \in 1 .. Len(queue') PROVE queue'[i].tag # "READ"
      <4>1. CASE i <= Len(Tail(queue))
        BY <1>4, <1>5, <3>2, <4>1 DEF NoReadIn
      <4>2. CASE i = Len(Tail(queue)) + 1 \/ i = Len(Tail(queue)) + 2
        BY <1>3, <1>5, <3>1, <3>2, <4>2
      <4> QED
        BY <1>5, <3>2, <4>1, <4>2
    <3> QED
      BY <3>2, <3>3 DEF NoReadQueued, NoReadIn
  <2> QED
    BY <1>1, <2>1, <2>2
<1>7. WatchTypeOK' /\ LogInv' /\ ConstructInv'
  BY <1>1, <1>6 DEF OneInv, StreamInv, WatchTypeOK, LogInv, ConstructInv, InLog, Total, Tags
<1>8. NoRead'
  BY <1>1, <1>4, <1>6 DEF NoRead
<1> QED
  BY <1>1, <1>4, <1>7, <1>8 DEF StreamInv, FirstOnly, EventsN

\* Initially no reply was read.
LEMMA OneInitInv ==
  OneShotInit => OneInv
<1> SUFFICES ASSUME OneShotInit PROVE OneInv
  OBVIOUS
<1> USE DEF OneShotInit, WatchInit
<1>1. Len(inbox) = 0
  BY EmptySeq
<1>2. queue \in Seq(Completions) /\ inbox \in Seq(Replies) /\ delivered \in Seq(Replies)
  BY EmptySeq
<1>3. sent \in 0 .. MaxEvents
  BY MaxEventsIsNat
<1>4. WatchTypeOK
  BY <1>2, <1>3 DEF WatchTypeOK, Tags
<1>5. LogInv /\ ConstructInv
  BY <1>1 DEF LogInv, ConstructInv, Only, Total
<1>6. Reply("none") \in Replies /\ Reply("none").kind = "none"
  BY PlainReplies DEF Kinds
<1>7. reply = Reply("none") /\ result = Reply("none") /\ future \in BOOLEAN
  BY DEF Reply
<1>8. OneShotTypeOK
  BY <1>4, <1>6, <1>7 DEF OneShotTypeOK, WatchTypeOK, Tags, Completions, Replies, Kinds
<1> QED
  BY <1>4, <1>5, <1>6, <1>7, <1>8 DEF OneInv, StreamInv, OneLoopInv, FirstOnly

\* The invariant of the one-shot watch is inductive.
LEMMA OneInvInductive ==
  OneInv /\ [OneShotNext]_oneShotVars => OneInv'
<1> SUFFICES ASSUME OneInv, [OneShotNext]_oneShotVars PROVE OneInv'
  OBVIOUS
<1>1. WatchTypeOK /\ StreamInv /\ OneLoopInv /\ FirstOnly(reply) /\ FirstOnly(result)
      /\ future \in BOOLEAN /\ reply \in Replies /\ result \in Replies
  BY DEF OneInv, StreamInv, OneShotTypeOK, Replies, Kinds
<1>2. ASSUME StreamInv', OneLoopInv', FirstOnly(reply'), FirstOnly(result'),
             future' \in BOOLEAN, reply' \in Replies, result' \in Replies
      PROVE  OneInv'
  BY <1>2 DEF OneInv, StreamInv, FirstOnly, OneShotTypeOK, WatchTypeOK, Tags, Completions, Replies, Kinds
<1>3. CASE UNCHANGED oneShotVars
  <2>1. UNCHANGED <<isCancelled, status, loop, finalRound, delivered, pending, queue, ending,
                    inbox, server, sent, future, reply, result>>
    BY <1>3 DEF oneShotVars, watchVars, loopVars, streamVars
  <2>2. StreamInv'
    BY <1>1, <2>1 DEF WatchTypeOK, StreamInv, LogInv, ConstructInv, Only, InLog, Total
  <2>3. OneLoopInv'
    BY <1>1, <2>1 DEF OneLoopInv, NoRead, NoReadQueued, NoReadIn, Reading, ReadPending,
                      ReadAt, Taken, InLog, Total
  <2> QED
    BY <1>1, <1>2, <2>1, <2>2, <2>3
<1>4. CASE OneShotNext
  <2>. future' = future
    BY <1>4 DEF OneShotNext
  <2>1. CASE (Transport \/ Environment) /\ UNCHANGED <<reply, result>>
    <3>1. Kept
      BY <1>1, <2>1, StreamStep
    <3>2. OneLoopInv'
      BY <1>1, <3>1 DEF Kept, OneLoopInv, loopVars
    <3> QED
      BY <1>1, <1>2, <2>1, <3>1, <3>2 DEF Kept
  <2>2. CASE (Create \/ Write) /\ UNCHANGED <<reply, result>>
    <3>1. /\ StreamInv' /\ loop' \in {"write", "start"}
          /\ loop' = "start" /\ status' = "OK" => Reading(0)'
      BY <1>1, <2>2, ConstructStep
    <3>2. OneLoopInv'
      BY <3>1 DEF OneLoopInv
    <3> QED
      BY <1>1, <1>2, <2>2, <3>1, <3>2
  <2>3. CASE OneShotStart /\ UNCHANGED <<reply, result>>
    <3>1. /\ loop = "start" /\ loop' = (IF status = "OK" THEN "next" ELSE "end")
          /\ UNCHANGED <<isCancelled, status, finalRound, delivered, pending, queue, ending,
                         inbox, server, sent>>
      BY <2>3 DEF OneShotStart, streamVars
    <3>2. StreamInv'
      BY <1>1, <3>1 DEF WatchTypeOK, StreamInv, LogInv, ConstructInv, InLog, Total
    <3>3. OneLoopInv'
      BY <1>1, <3>1 DEF OneLoopInv, NoReadQueued, NoReadIn, Reading, ReadPending,
                        ReadAt, Taken, InLog, Total
    <3> QED
      BY <1>1, <1>2, <2>3, <3>2, <3>3
  <2>4. CASE LoopStep /\ UNCHANGED <<reply, result>>
    <3>1. /\ StreamInv' /\ loop = "next" /\ loop' \in {"next", "end"}
          /\ loop' # "end" => /\ NoRead => NoRead'
                              /\ \A c \in Nat : Reading(c) => Reading(c)'
      BY <1>1, <2>4, LoopStepKeeps
    <3>2. OneLoopInv'
      BY <1>1, <3>1 DEF OneLoopInv
    <3> QED
      BY <1>1, <1>2, <2>4, <3>1, <3>2
  <2>5. CASE WatchCanceled /\ UNCHANGED result
    <3>1. /\ ReadCanceled /\ reply' = Head(queue).val /\ delivered' = delivered
          /\ loop = "next" /\ Take /\ Got("READ")
          /\ Head(queue).val.kind \in {"canceled", "compacted"}
      BY <2>5 DEF WatchCanceled, ReadCanceled, LoopTakes
    <3>2. Head(queue).val \in Replies
      BY <3>1, OneRead DEF Take
    <3>3. NoRead \/ \E c \in Nat : Reading(c)
      BY <1>1, <3>1 DEF OneLoopInv
    <3>4. StreamInv' /\ loop' = "next" /\ NoRead'
      BY <1>1, <3>1, <3>3, ReadCanceledKeeps DEF WatchTypeOK
    <3>5. OneLoopInv'
      BY <3>4 DEF OneLoopInv
    <3>6. FirstOnly(reply')
      BY <3>1 DEF FirstOnly
    <3> QED
      BY <1>1, <1>2, <2>5, <3>1, <3>2, <3>4, <3>5, <3>6
  <2>6. CASE ReadEffective /\ UNCHANGED result
    <3>1. StreamInv' /\ loop' = "next" /\ NoRead' /\ FirstOnly(reply') /\ reply' \in Replies
      BY <2>6, OneEffective
    <3> QED
      BY <1>1, <1>2, <2>6, <3>1 DEF OneLoopInv
  <2>7. CASE ReadOther /\ UNCHANGED result
    <3>1. /\ LoopTakes(Got("READ") /\ Head(queue).val.kind \in {"created", "events"})
          /\ Head(queue).val.kind # "events"
          /\ Post("READ") /\ reply' = Head(queue).val
          /\ UNCHANGED <<isCancelled, status, loop, finalRound, delivered, ending, inbox,
                         server, sent>>
      BY <2>7 DEF ReadOther, LoopTakes, Take, Got, Post, Other, Effective, loopVars
    <3>2. loop = "next" /\ queue # <<>> /\ Got("READ")
      BY <3>1 DEF LoopTakes, Take
    <3>3. Head(queue).val \in Replies /\ Reading(0)
      BY <3>1, <3>2, OneRead DEF LoopTakes, EventsN
    <3>4. StreamInv' /\ Reading(0 + 1)'
      BY <1>1, <3>1, <3>3, ReadNext DEF WatchTypeOK
    <3>5. OneLoopInv'
      BY <3>1, <3>2, <3>4 DEF OneLoopInv
    <3>6. FirstOnly(reply')
      BY <3>1 DEF FirstOnly
    <3> QED
      BY <1>1, <1>2, <2>7, <3>1, <3>3, <3>4, <3>5, <3>6
  <2>8. CASE Return
    <3>1. /\ loop' = "done" /\ result' = (IF status = "OK" THEN reply ELSE Reply("failed"))
          /\ UNCHANGED <<isCancelled, status, finalRound, delivered, pending, queue, ending,
                         inbox, server, sent, reply>>
      BY <2>8 DEF Return, streamVars, Reply
    <3>2. Reply("failed") \in Replies /\ Reply("failed").kind = "failed"
      BY PlainReplies DEF Kinds
    <3>3. StreamInv' /\ OneLoopInv'
      BY <1>1, <3>1 DEF WatchTypeOK, StreamInv, LogInv, ConstructInv, InLog, Total,
                        OneLoopInv
    <3>4. FirstOnly(result') /\ result' \in Replies
      BY <1>1, <3>1, <3>2 DEF FirstOnly
    <3> QED
      BY <1>1, <1>2, <3>1, <3>3, <3>4
  <2> QED
    BY <1>4, <2>1, <2>2, <2>3, <2>4, <2>5, <2>6, <2>7, <2>8 DEF OneShotNext, ClientStep
<1> QED
  BY <1>3, <1>4

\* Every reachable state of the one-shot watch satisfies its invariant.
THEOREM OneInvariance == OneShotSpec => []OneInv
  BY OneInitInv, OneInvInductive, PTL DEF OneShotSpec

\* The one-shot watch keeps its type.
THEOREM OneTypeCorrect == OneShotSpec => []OneShotTypeOK
  BY OneInvariance, PTL DEF OneInv

\* The events that SyncClient::watch() returns are the first of the watch,
\* whatever the order of the completions of its own cancellation.
THEOREM FirstChangeHolds == OneShotSpec => []FirstChange
<1>1. OneInv => FirstChange
  BY DEF OneInv, FirstOnly, FirstChange
<1> QED
  BY <1>1, OneInvariance, PTL

=============================================================================
