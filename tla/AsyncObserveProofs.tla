------------------------- MODULE AsyncObserveProofs -------------------------
(***************************************************************************)
(* Proofs about AsyncObserve, for any number of revisions: WaitOnce()      *)
(* returns the leaders in the order in which the server told them, however *)
(* it interleaves with the destructor of the observer; and an observer     *)
(* that is not destroyed while it is used never reads from a queue that    *)
(* was shut down.                                                          *)
(***************************************************************************)
EXTENDS AsyncObserve, Integers, SequenceTheorems, TLAPS

----------------------------------------------------------------------------
(* The inductive invariant. *)

\* What the server has sent and no read has taken are the newest leaders.
InboxIsSuffix ==
  /\ Len(inbox) <= Len(sent)
  /\ \A i \in 1 .. Len(inbox) : inbox[i] = sent[Len(sent) - Len(inbox) + i]

\* The next leader that a read can take is the one after the first n.
Taken(n) == (ending # "none" /\ inbox = <<>>) \/ Len(sent) - Len(inbox) = n

\* No read is in flight.
NoRead ==
  /\ "READ" \notin pending
  /\ \A i \in 1 .. Len(queue) : queue[i].tag # "READ"

\* A read is in flight and has not completed.
ReadPending ==
  /\ "READ" \in pending
  /\ \A i \in 1 .. Len(queue) : queue[i].tag # "READ"
  /\ Taken(Len(observed))

\* The only read in flight has completed and its event is number j in the queue.
ReadAt(j) ==
  /\ "READ" \notin pending
  /\ queue[j].tag = "READ"
  /\ \A i \in 1 .. Len(queue) : i # j => queue[i].tag # "READ"
  /\ queue[j].ok = TRUE => /\ Len(observed) < Len(sent)
                           /\ queue[j].val = sent[Len(observed) + 1]
                           /\ Taken(Len(observed) + 1)

ReadCompleted == \E j \in 1 .. Len(queue) : ReadAt(j)

\* A read that is started now will take the leader after those returned.  While
\* WaitOnce() waits, its read is in flight, unless the destructor has taken the
\* event from the queue; then no other read will be started.
Settled == NoRead /\ Taken(Len(observed))

WaiterInv ==
  /\ waiter \in {"create", "read"} => Settled
  /\ (waiter = "idle" /\ destroyer = "none" /\ status = "OK") => Settled
  /\ waiter = "next" => NoRead \/ ReadPending \/ ReadCompleted

\* An observer that is not destroyed while it is used: the destructor finds no
\* WaitOnce() running, and a stream that WaitOnce() has finished stays failed.
AloneInv ==
  overlap = FALSE =>
    /\ destroyer # "none" => waiter = "idle"
    /\ (destroyer = "none" /\ shutdown = TRUE) => waiter = "idle" /\ status = "ERROR"

IInv ==
  /\ TypeOK /\ InboxIsSuffix /\ ObservedInOrder /\ WaiterInv
  /\ AloneInv /\ NoReadAfterShutdown
----------------------------------------------------------------------------
(* Lemmas about sequences. *)

\* What Take returns and what it leaves.
LEMMA HeadAndTail ==
  ASSUME NEW S, NEW q \in Seq(S), q # <<>>
  PROVE  /\ Head(q) = q[1] /\ q[1] \in S
         /\ Len(q) \in Nat /\ Len(q) >= 1
         /\ Tail(q) \in Seq(S) /\ Len(Tail(q)) = Len(q) - 1
         /\ \A i \in 1 .. Len(q) - 1 : Tail(q)[i] = q[i + 1]
<1>1. /\ Len(q) \in Nat /\ Len(q) >= 1 /\ q[1] \in S
      /\ Head(q) = q[1]
  BY EmptySeq, LenProperties, ElementOfSeq
<1>2. /\ Tail(q) \in Seq(S) /\ Len(Tail(q)) = Len(q) - 1
      /\ \A i \in 1 .. Len(q) - 1 : Tail(q)[i] = q[i + 1]
  BY HeadTailProperties
<1> QED
  BY <1>1, <1>2

\* What Append adds.
LEMMA Appended ==
  ASSUME NEW S, NEW q \in Seq(S), NEW e \in S
  PROVE  /\ Append(q, e) \in Seq(S) /\ Append(q, e) # <<>>
         /\ Len(q) \in Nat /\ Len(Append(q, e)) = Len(q) + 1
         /\ \A i \in 1 .. Len(q) : Append(q, e)[i] = q[i]
         /\ Append(q, e)[Len(q) + 1] = e
  BY AppendProperties, LenProperties

----------------------------------------------------------------------------
(* The invariant is inductive. *)

\* Every step of WaitOnce(), of the destructor and of the network keeps the invariant.
LEMMA InvInductive == IInv /\ [Next]_vars => IInv'
<1> SUFFICES ASSUME IInv, [Next]_vars PROVE IInv'
  OBVIOUS
<1> USE DEF IInv
<1>1. ASSUME NEW ok \in BOOLEAN, Complete("CREATE", ok, 0),
             ending' = IF ok THEN ending ELSE "ERROR", UNCHANGED inbox
      PROVE  IInv'
  <2>10. /\ queue \in Seq(Completions) /\ Len(queue) \in Nat
         /\ inbox \in Seq(1 .. MaxRev) /\ Len(inbox) \in Nat
         /\ sent \in Seq(1 .. MaxRev) /\ Len(sent) \in Nat
         /\ observed \in Seq(1 .. MaxRev) /\ Len(observed) \in Nat
    BY LenProperties DEF IInv, TypeOK
  <2> DEFINE e == [tag |-> "CREATE", ok |-> ok, val |-> 0]
  <2>11. "CREATE" \in pending /\ pending' = pending \ {"CREATE"} /\ queue' = Append(queue, e)
    BY <1>1 DEF Complete
  <2>12. e \in Completions
    BY <1>1, <2>10, MaxRevIsNat, HeadAndTail DEF Completions, Tags
  <2>13. /\ queue' \in Seq(Completions) /\ Len(queue') = Len(queue) + 1
         /\ \A i \in 1 .. Len(queue) : queue'[i] = queue[i]
         /\ queue'[Len(queue')] = e
    BY <2>10, <2>11, <2>12, Appended
  <2>14. e.tag = "CREATE" /\ e.ok = ok /\ e.val = 0
    OBVIOUS
  <2> HIDE DEF e
  <2>1. TypeOK'
    BY <1>1, <2>13 DEF TypeOK, Complete, threads
  <2>2. InboxIsSuffix'
    BY <1>1 DEF InboxIsSuffix, Complete
  <2>3. ObservedInOrder'
    BY <1>1 DEF ObservedInOrder, Complete, threads
  <2>4. WaiterInv'
    BY <1>1, <2>10, <2>11, <2>13, <2>14, EmptySeq, SMTT(30)
       DEF WaiterInv, Settled, NoRead, Taken, ReadPending, ReadCompleted, ReadAt, TypeOK,
           Complete, stream, threads
  <2>5. AloneInv'
    BY <1>1 DEF AloneInv, Complete, threads
  <2>6. NoReadAfterShutdown'
    BY <1>1 DEF NoReadAfterShutdown, Complete, threads
  <2> QED
    BY <2>1, <2>2, <2>3, <2>4, <2>5, <2>6
<1>2. CASE /\ inbox # <<>> /\ Complete("READ", TRUE, Head(inbox))
           /\ inbox' = Tail(inbox) /\ UNCHANGED ending
  <2>10. /\ queue \in Seq(Completions) /\ Len(queue) \in Nat
         /\ inbox \in Seq(1 .. MaxRev) /\ Len(inbox) \in Nat
         /\ sent \in Seq(1 .. MaxRev) /\ Len(sent) \in Nat
         /\ observed \in Seq(1 .. MaxRev) /\ Len(observed) \in Nat
    BY LenProperties DEF IInv, TypeOK
  <2> DEFINE e == [tag |-> "READ", ok |-> TRUE, val |-> Head(inbox)]
  <2>11. "READ" \in pending /\ pending' = pending \ {"READ"} /\ queue' = Append(queue, e)
    BY <1>2 DEF Complete
  <2>12. e \in Completions
    BY <1>2, <2>10, MaxRevIsNat, HeadAndTail DEF Completions, Tags
  <2>13. /\ queue' \in Seq(Completions) /\ Len(queue') = Len(queue) + 1
         /\ \A i \in 1 .. Len(queue) : queue'[i] = queue[i]
         /\ queue'[Len(queue')] = e
    BY <2>10, <2>11, <2>12, Appended
  <2>14. e.tag = "READ" /\ e.ok = TRUE /\ e.val = Head(inbox)
    OBVIOUS
  <2> HIDE DEF e
  <2>1. TypeOK'
    BY <1>2, <2>13 DEF TypeOK, Complete, threads
  <2>2. InboxIsSuffix'
    BY <1>2 DEF InboxIsSuffix, Complete
  <2>3. ObservedInOrder'
    BY <1>2 DEF ObservedInOrder, Complete, threads
  <2>4. WaiterInv'
    <3>1. /\ inbox # <<>> /\ Len(inbox) >= 1 /\ Len(inbox') = Len(inbox) - 1
          /\ Head(inbox) = inbox[1] /\ ending' = ending
          /\ UNCHANGED <<waiter, destroyer, status, observed, sent>>
      BY <1>2, <2>10, HeadAndTail DEF Complete, threads
    <3>2. ~NoRead /\ ~ReadCompleted /\ ~Settled
      BY <2>11 DEF NoRead, ReadCompleted, ReadAt, Settled
    <3>3. CASE waiter = "next"
      <4>1. /\ \A i \in 1 .. Len(queue) : queue[i].tag # "READ"
            /\ Len(sent) - Len(inbox) = Len(observed)
        BY <3>1, <3>2, <3>3 DEF WaiterInv, ReadPending, Taken
      <4>2. inbox[1] = sent[Len(observed) + 1]
        BY <2>10, <3>1, <4>1 DEF InboxIsSuffix
      <4>3. /\ Len(observed) < Len(sent) /\ e.val = sent[Len(observed) + 1]
            /\ Len(sent) - Len(inbox') = Len(observed) + 1
        <5>1. e.val = sent[Len(observed) + 1]
          BY <2>14, <3>1, <4>2
        <5>2. Len(observed) < Len(sent) /\ Len(sent) - Len(inbox') = Len(observed) + 1
          <6> HIDE DEF IInv
          <6> QED
            BY <2>10, <3>1, <4>1
        <5> QED
          BY <5>1, <5>2
      <4>4. Len(queue') \in 1 .. Len(queue')
        BY <2>10, <2>13
      <4>5. ReadAt(Len(queue))'
        BY <2>11, <2>14, <3>1, <4>1, <4>3 DEF ReadAt, Taken
      <4> QED
        BY <3>1, <3>3, <4>4, <4>5 DEF WaiterInv, ReadCompleted
    <3>4. CASE waiter # "next"
      BY <3>1, <3>2, <3>4 DEF WaiterInv
    <3> QED
      BY <3>3, <3>4
  <2>5. AloneInv'
    BY <1>2 DEF AloneInv, Complete, threads
  <2>6. NoReadAfterShutdown'
    BY <1>2 DEF NoReadAfterShutdown, Complete, threads
  <2> QED
    BY <2>1, <2>2, <2>3, <2>4, <2>5, <2>6
<1>3. CASE /\ ending # "none" /\ inbox = <<>>
           /\ Complete("READ", FALSE, 0) /\ UNCHANGED <<inbox, ending>>
  <2>10. /\ queue \in Seq(Completions) /\ Len(queue) \in Nat
         /\ inbox \in Seq(1 .. MaxRev) /\ Len(inbox) \in Nat
         /\ sent \in Seq(1 .. MaxRev) /\ Len(sent) \in Nat
         /\ observed \in Seq(1 .. MaxRev) /\ Len(observed) \in Nat
    BY LenProperties DEF IInv, TypeOK
  <2> DEFINE e == [tag |-> "READ", ok |-> FALSE, val |-> 0]
  <2>11. "READ" \in pending /\ pending' = pending \ {"READ"} /\ queue' = Append(queue, e)
    BY <1>3 DEF Complete
  <2>12. e \in Completions
    BY <1>3, <2>10, MaxRevIsNat, HeadAndTail DEF Completions, Tags
  <2>13. /\ queue' \in Seq(Completions) /\ Len(queue') = Len(queue) + 1
         /\ \A i \in 1 .. Len(queue) : queue'[i] = queue[i]
         /\ queue'[Len(queue')] = e
    BY <2>10, <2>11, <2>12, Appended
  <2>14. e.tag = "READ" /\ e.ok = FALSE /\ e.val = 0
    OBVIOUS
  <2> HIDE DEF e
  <2>1. TypeOK'
    BY <1>3, <2>13 DEF TypeOK, Complete, threads
  <2>2. InboxIsSuffix'
    BY <1>3 DEF InboxIsSuffix
  <2>3. ObservedInOrder'
    BY <1>3 DEF ObservedInOrder, Complete, threads
  <2>4. WaiterInv'
    BY <1>3
       DEF WaiterInv, Settled, NoRead, ReadPending, ReadCompleted, ReadAt, Complete, threads
  <2>5. AloneInv'
    BY <1>3 DEF AloneInv, Complete, threads
  <2>6. NoReadAfterShutdown'
    BY <1>3 DEF NoReadAfterShutdown, Complete, threads
  <2> QED
    BY <2>1, <2>2, <2>3, <2>4, <2>5, <2>6
<1>4. CASE CompleteFinish
  <2>10. /\ queue \in Seq(Completions) /\ Len(queue) \in Nat
         /\ inbox \in Seq(1 .. MaxRev) /\ Len(inbox) \in Nat
         /\ sent \in Seq(1 .. MaxRev) /\ Len(sent) \in Nat
         /\ observed \in Seq(1 .. MaxRev) /\ Len(observed) \in Nat
    BY LenProperties DEF IInv, TypeOK
  <2> DEFINE e == [tag |-> "FINISH", ok |-> TRUE, val |-> 0]
  <2>11. "FINISH" \in pending /\ pending' = pending \ {"FINISH"} /\ queue' = Append(queue, e)
    BY <1>4 DEF CompleteFinish, Complete
  <2>12. e \in Completions
    BY <1>4, <2>10, MaxRevIsNat, HeadAndTail DEF Completions, Tags
  <2>13. /\ queue' \in Seq(Completions) /\ Len(queue') = Len(queue) + 1
         /\ \A i \in 1 .. Len(queue) : queue'[i] = queue[i]
         /\ queue'[Len(queue')] = e
    BY <2>10, <2>11, <2>12, Appended
  <2>14. e.tag = "FINISH" /\ e.ok = TRUE /\ e.val = 0
    OBVIOUS
  <2> HIDE DEF e
  <2>1. TypeOK'
    BY <1>4, <2>13 DEF TypeOK, CompleteFinish, Complete, threads
  <2>2. InboxIsSuffix'
    BY <1>4 DEF InboxIsSuffix, CompleteFinish
  <2>3. ObservedInOrder'
    BY <1>4 DEF ObservedInOrder, CompleteFinish, Complete, threads
  <2>4. WaiterInv'
    BY <1>4
       DEF WaiterInv, Settled, NoRead, Taken, ReadPending, ReadCompleted, ReadAt,
           CompleteFinish, Complete, threads
  <2>5. AloneInv'
    BY <1>4 DEF AloneInv, CompleteFinish, Complete, threads
  <2>6. NoReadAfterShutdown'
    BY <1>4 DEF NoReadAfterShutdown, CompleteFinish, Complete, threads
  <2> QED
    BY <2>1, <2>2, <2>3, <2>4, <2>5, <2>6
<1>5. ASSUME NEW n \in 1 .. MaxRev, SendLeader(n) PROVE IInv'
  <2>10. /\ queue \in Seq(Completions) /\ Len(queue) \in Nat
         /\ inbox \in Seq(1 .. MaxRev) /\ Len(inbox) \in Nat
         /\ sent \in Seq(1 .. MaxRev) /\ Len(sent) \in Nat
         /\ observed \in Seq(1 .. MaxRev) /\ Len(observed) \in Nat
    BY LenProperties DEF IInv, TypeOK
  <2>11. /\ sent' \in Seq(1 .. MaxRev) /\ Len(sent') = Len(sent) + 1
         /\ \A i \in 1 .. Len(sent) : sent'[i] = sent[i]
         /\ sent'[Len(sent')] = n
    BY <1>5, <2>10, Appended DEF SendLeader
  <2>12. /\ inbox' \in Seq(1 .. MaxRev) /\ Len(inbox') = Len(inbox) + 1
         /\ \A i \in 1 .. Len(inbox) : inbox'[i] = inbox[i]
         /\ inbox'[Len(inbox')] = n
    BY <1>5, <2>10, Appended DEF SendLeader
  <2>1. TypeOK'
    BY <1>5 DEF TypeOK, SendLeader, threads
  <2>2. InboxIsSuffix'
    <3>1. Len(inbox') <= Len(sent') /\ Len(sent') - Len(inbox') = Len(sent) - Len(inbox)
      BY <2>10, <2>11, <2>12 DEF InboxIsSuffix
    <3>2. ASSUME NEW i \in 1 .. Len(inbox')
          PROVE  inbox'[i] = sent'[Len(sent) - Len(inbox) + i]
      <4>1. CASE i = Len(inbox')
        BY <2>10, <2>11, <2>12, <3>1, <4>1
      <4>2. CASE i # Len(inbox')
        <5>1. i \in 1 .. Len(inbox) /\ Len(sent) - Len(inbox) + i \in 1 .. Len(sent)
          BY <2>10, <2>12, <4>2 DEF InboxIsSuffix
        <5> QED
          BY <2>11, <2>12, <5>1 DEF InboxIsSuffix
      <4> QED
        BY <4>1, <4>2
    <3> QED
      BY <3>1, <3>2 DEF InboxIsSuffix
  <2>3. ObservedInOrder'
    BY <1>5 DEF ObservedInOrder, SendLeader, threads
  <2>4. WaiterInv'
    <3>1. /\ ending = "none" /\ Len(sent') - Len(inbox') = Len(sent) - Len(inbox)
          /\ waiter # "create"
          /\ UNCHANGED <<waiter, destroyer, status, observed, pending, queue, ending>>
      BY <1>5, <2>10, <2>11, <2>12 DEF SendLeader, threads
    <3>2. ASSUME NEW m \in Nat, Taken(m) PROVE Taken(m)'
      BY <3>1, <3>2 DEF Taken
    <3>3. (NoRead => NoRead') /\ (Settled => Settled') /\ (ReadPending => ReadPending')
      BY <2>10, <3>1, <3>2 DEF NoRead, Settled, ReadPending
    <3>4. ASSUME NEW j \in 1 .. Len(queue), ReadAt(j) PROVE ReadAt(j)'
      <4>1. queue[j].ok = TRUE =>
              /\ Len(observed) < Len(sent')
              /\ queue[j].val = sent'[Len(observed) + 1]
              /\ Taken(Len(observed) + 1)'
        BY <2>10, <2>11, <3>1, <3>2, <3>4 DEF ReadAt
      <4> QED
        BY <3>1, <3>4, <4>1 DEF ReadAt
    <3>5. ReadCompleted => ReadCompleted'
      BY <3>1, <3>4 DEF ReadCompleted
    <3> QED
      BY <3>1, <3>3, <3>5 DEF WaiterInv
  <2>5. AloneInv'
    BY <1>5 DEF AloneInv, SendLeader, threads
  <2>6. NoReadAfterShutdown'
    BY <1>5 DEF NoReadAfterShutdown, SendLeader, threads
  <2> QED
    BY <2>1, <2>2, <2>3, <2>4, <2>5, <2>6
<1>6. CASE StreamEnds
  <2>10. /\ queue \in Seq(Completions) /\ Len(queue) \in Nat
         /\ inbox \in Seq(1 .. MaxRev) /\ Len(inbox) \in Nat
         /\ sent \in Seq(1 .. MaxRev) /\ Len(sent) \in Nat
         /\ observed \in Seq(1 .. MaxRev) /\ Len(observed) \in Nat
    BY LenProperties DEF IInv, TypeOK
  <2>1. TypeOK'
    BY <1>6, <2>10 DEF TypeOK, StreamEnds, stream, threads
  <2>2. InboxIsSuffix'
    BY <1>6 DEF InboxIsSuffix, StreamEnds
  <2>3. ObservedInOrder'
    BY <1>6 DEF ObservedInOrder, StreamEnds, threads
  <2>4. WaiterInv'
    BY <1>6
       DEF WaiterInv, Settled, NoRead, Taken, ReadPending, ReadCompleted, ReadAt,
           StreamEnds, threads
  <2>5. AloneInv'
    BY <1>6 DEF AloneInv, StreamEnds, threads
  <2>6. NoReadAfterShutdown'
    BY <1>6 DEF NoReadAfterShutdown, StreamEnds, threads
  <2> QED
    BY <2>1, <2>2, <2>3, <2>4, <2>5, <2>6
<1>7. CASE Create
  <2>10. /\ queue \in Seq(Completions) /\ Len(queue) \in Nat
         /\ inbox \in Seq(1 .. MaxRev) /\ Len(inbox) \in Nat
         /\ sent \in Seq(1 .. MaxRev) /\ Len(sent) \in Nat
         /\ observed \in Seq(1 .. MaxRev) /\ Len(observed) \in Nat
    BY LenProperties DEF IInv, TypeOK
  <2>11. /\ queue # <<>> /\ queue' = Tail(queue) /\ Head(queue) = queue[1]
         /\ queue[1] \in Completions /\ queue' \in Seq(Completions)
         /\ Len(queue) >= 1 /\ Len(queue') = Len(queue) - 1
         /\ \A i \in 1 .. Len(queue') : queue'[i] = queue[i + 1]
    <3>1. queue # <<>> /\ queue' = Tail(queue)
      BY <1>7 DEF Create, Take
    <3> QED
      BY <2>10, <3>1, HeadAndTail
  <2>1. TypeOK'
    BY <1>7, <2>11 DEF TypeOK, Create
  <2>2. InboxIsSuffix'
    BY <1>7 DEF InboxIsSuffix, Create
  <2>3. ObservedInOrder'
    BY <1>7 DEF ObservedInOrder, Create
  <2>4. WaiterInv'
    BY <1>7 DEF WaiterInv, Settled, NoRead, Taken, Create, Take
  <2>5. AloneInv'
    BY <1>7 DEF AloneInv, Create
  <2>6. NoReadAfterShutdown'
    BY <1>7 DEF NoReadAfterShutdown, Create
  <2> QED
    BY <2>1, <2>2, <2>3, <2>4, <2>5, <2>6
<1>8. CASE CallWaitOnce
  <2>10. /\ queue \in Seq(Completions) /\ Len(queue) \in Nat
         /\ inbox \in Seq(1 .. MaxRev) /\ Len(inbox) \in Nat
         /\ sent \in Seq(1 .. MaxRev) /\ Len(sent) \in Nat
         /\ observed \in Seq(1 .. MaxRev) /\ Len(observed) \in Nat
    BY LenProperties DEF IInv, TypeOK
  <2>1. TypeOK'
    BY <1>8, <2>10 DEF TypeOK, CallWaitOnce, stream, threads
  <2>2. InboxIsSuffix'
    BY <1>8 DEF InboxIsSuffix, CallWaitOnce, stream
  <2>3. ObservedInOrder'
    BY <1>8 DEF ObservedInOrder, CallWaitOnce, stream
  <2>4. WaiterInv'
    BY <1>8 DEF WaiterInv, Settled, NoRead, Taken, CallWaitOnce, stream
  <2>5. AloneInv'
    BY <1>8 DEF AloneInv, CallWaitOnce, stream
  <2>6. NoReadAfterShutdown'
    BY <1>8 DEF NoReadAfterShutdown, CallWaitOnce
  <2> QED
    BY <2>1, <2>2, <2>3, <2>4, <2>5, <2>6
<1>9. CASE Read
  <2>10. /\ queue \in Seq(Completions) /\ Len(queue) \in Nat
         /\ inbox \in Seq(1 .. MaxRev) /\ Len(inbox) \in Nat
         /\ sent \in Seq(1 .. MaxRev) /\ Len(sent) \in Nat
         /\ observed \in Seq(1 .. MaxRev) /\ Len(observed) \in Nat
    BY LenProperties DEF IInv, TypeOK
  <2>1. TypeOK'
    BY <1>9 DEF TypeOK, Tags, Read, Post
  <2>2. InboxIsSuffix'
    BY <1>9 DEF InboxIsSuffix, Read
  <2>3. ObservedInOrder'
    BY <1>9 DEF ObservedInOrder, Read
  <2>4. WaiterInv'
    BY <1>9 DEF WaiterInv, Settled, NoRead, Taken, ReadPending, Read
  <2>5. AloneInv'
    BY <1>9 DEF AloneInv, Read
  <2>6. NoReadAfterShutdown'
    BY <1>9 DEF NoReadAfterShutdown, AloneInv, Read
  <2> QED
    BY <2>1, <2>2, <2>3, <2>4, <2>5, <2>6
<1>10. CASE NextLeader
  <2>10. /\ queue \in Seq(Completions) /\ Len(queue) \in Nat
         /\ inbox \in Seq(1 .. MaxRev) /\ Len(inbox) \in Nat
         /\ sent \in Seq(1 .. MaxRev) /\ Len(sent) \in Nat
         /\ observed \in Seq(1 .. MaxRev) /\ Len(observed) \in Nat
    BY LenProperties DEF IInv, TypeOK
  <2>11. /\ queue # <<>> /\ queue' = Tail(queue) /\ Head(queue) = queue[1]
         /\ queue[1] \in Completions /\ queue' \in Seq(Completions)
         /\ Len(queue) >= 1 /\ Len(queue') = Len(queue) - 1
         /\ \A i \in 1 .. Len(queue') : queue'[i] = queue[i + 1]
    <3>1. queue # <<>> /\ queue' = Tail(queue)
      BY <1>10 DEF NextLeader, Take
    <3> QED
      BY <2>10, <3>1, HeadAndTail
  <2>12. /\ queue[1].tag = "READ" /\ queue[1].ok = TRUE /\ waiter = "next"
         /\ UNCHANGED <<sent, inbox, ending, pending>>
    BY <1>10, <2>11 DEF NextLeader, Got, Completions
  <2>13. ReadAt(1) /\ 1 \in 1 .. Len(queue)
    BY <2>11, <2>12 DEF WaiterInv, NoRead, ReadPending, ReadCompleted, ReadAt
  <2>14. queue[1].val \in 1 .. MaxRev
    <3>1. Len(observed) + 1 \in 1 .. Len(sent) /\ queue[1].val = sent[Len(observed) + 1]
      BY <2>10, <2>12, <2>13 DEF ReadAt
    <3> QED
      BY <2>10, <3>1, ElementOfSeq
  <2>15. ASSUME status = "OK"
         PROVE  /\ observed' \in Seq(1 .. MaxRev) /\ Len(observed') = Len(observed) + 1
                /\ \A i \in 1 .. Len(observed) : observed'[i] = observed[i]
                /\ observed'[Len(observed')] = queue[1].val
    <3>1. observed' = Append(observed, queue[1].val)
      BY <1>10, <2>11, <2>15 DEF NextLeader
    <3> QED
      BY <2>10, <2>14, <3>1, Appended
  <2>16. status # "OK" => observed' = observed
    BY <1>10 DEF NextLeader
  <2>1. TypeOK'
    BY <1>10, <2>11, <2>15 DEF TypeOK, NextLeader
  <2>2. InboxIsSuffix'
    BY <1>10 DEF InboxIsSuffix, NextLeader
  <2>3. ObservedInOrder'
    <3>1. CASE status = "OK"
      <4>1. /\ Len(observed') <= Len(sent)
            /\ observed'[Len(observed')] = sent[Len(observed')]
        BY <2>10, <2>12, <2>13, <2>15, <3>1 DEF ReadAt
      <4>2. ASSUME NEW i \in 1 .. Len(observed'), i # Len(observed')
            PROVE  observed'[i] = sent[i]
        BY <2>10, <2>15, <3>1, <4>2 DEF ObservedInOrder
      <4> QED
        BY <2>12, <4>1, <4>2 DEF ObservedInOrder
    <3>2. CASE status # "OK"
      BY <2>12, <2>16, <3>2 DEF ObservedInOrder
    <3> QED
      BY <3>1, <3>2
  <2>4. WaiterInv'
    <3>1. NoRead'
      BY <2>10, <2>11, <2>12, <2>13 DEF NoRead, ReadAt
    <3>2. CASE status = "OK"
      <4>1. Taken(Len(observed))'
        BY <2>12, <2>13, <2>15, <3>2 DEF ReadAt, Taken
      <4> QED
        BY <3>1, <4>1 DEF WaiterInv, Settled
    <3>3. CASE status # "OK"
      BY <1>10, <3>3 DEF WaiterInv, NextLeader
    <3> QED
      BY <3>2, <3>3
  <2>5. AloneInv'
    BY <1>10 DEF AloneInv, NextLeader
  <2>6. NoReadAfterShutdown'
    BY <1>10 DEF NoReadAfterShutdown, NextLeader
  <2> QED
    BY <2>1, <2>2, <2>3, <2>4, <2>5, <2>6
<1>11. CASE NextFailed /\ queue # <<>>
  <2>10. /\ queue \in Seq(Completions) /\ Len(queue) \in Nat
         /\ inbox \in Seq(1 .. MaxRev) /\ Len(inbox) \in Nat
         /\ sent \in Seq(1 .. MaxRev) /\ Len(sent) \in Nat
         /\ observed \in Seq(1 .. MaxRev) /\ Len(observed) \in Nat
    BY LenProperties DEF IInv, TypeOK
  <2>11. /\ queue # <<>> /\ queue' = Tail(queue) /\ Head(queue) = queue[1]
         /\ queue[1] \in Completions /\ queue' \in Seq(Completions)
         /\ Len(queue) >= 1 /\ Len(queue') = Len(queue) - 1
         /\ \A i \in 1 .. Len(queue') : queue'[i] = queue[i + 1]
    <3>1. queue # <<>> /\ queue' = Tail(queue)
      BY <1>11 DEF NextFailed, Take
    <3> QED
      BY <2>10, <3>1, HeadAndTail
  <2>1. TypeOK'
    <3>1. status' \in {"OK", "ERROR"} /\ waiter' = "cancel"
      BY <1>11 DEF TypeOK, NextFailed, StatusAfter
    <3>2. UNCHANGED <<isCancelled, overlap, destroyer, holder, observed, pending, shutdown,
                      ending, inbox, sent>>
      BY <1>11 DEF NextFailed
    <3> QED
      BY <2>11, <3>1, <3>2 DEF TypeOK
  <2>2. InboxIsSuffix'
    BY <1>11 DEF InboxIsSuffix, NextFailed
  <2>3. ObservedInOrder'
    BY <1>11 DEF ObservedInOrder, NextFailed
  <2>4. WaiterInv'
    BY <1>11 DEF WaiterInv, NextFailed
  <2>5. AloneInv'
    BY <1>11 DEF AloneInv, NextFailed
  <2>6. NoReadAfterShutdown'
    BY <1>11 DEF NoReadAfterShutdown, NextFailed
  <2> QED
    BY <2>1, <2>2, <2>3, <2>4, <2>5, <2>6
<1>12. CASE NextFailed /\ queue = <<>>
  <2>10. /\ queue \in Seq(Completions) /\ Len(queue) \in Nat
         /\ inbox \in Seq(1 .. MaxRev) /\ Len(inbox) \in Nat
         /\ sent \in Seq(1 .. MaxRev) /\ Len(sent) \in Nat
         /\ observed \in Seq(1 .. MaxRev) /\ Len(observed) \in Nat
    BY LenProperties DEF IInv, TypeOK
  <2>1. TypeOK'
    BY <1>12 DEF TypeOK, NextFailed, Take
  <2>2. InboxIsSuffix'
    BY <1>12 DEF InboxIsSuffix, NextFailed
  <2>3. ObservedInOrder'
    BY <1>12 DEF ObservedInOrder, NextFailed
  <2>4. WaiterInv'
    BY <1>12 DEF WaiterInv, NextFailed
  <2>5. AloneInv'
    BY <1>12 DEF AloneInv, NextFailed
  <2>6. NoReadAfterShutdown'
    BY <1>12 DEF NoReadAfterShutdown, NextFailed
  <2> QED
    BY <2>1, <2>2, <2>3, <2>4, <2>5, <2>6
<1>13. CASE Destroy
  <2>10. /\ queue \in Seq(Completions) /\ Len(queue) \in Nat
         /\ inbox \in Seq(1 .. MaxRev) /\ Len(inbox) \in Nat
         /\ sent \in Seq(1 .. MaxRev) /\ Len(sent) \in Nat
         /\ observed \in Seq(1 .. MaxRev) /\ Len(observed) \in Nat
    BY LenProperties DEF IInv, TypeOK
  <2>1. TypeOK'
    BY <1>13, <2>10 DEF TypeOK, Destroy, stream, threads
  <2>2. InboxIsSuffix'
    BY <1>13 DEF InboxIsSuffix, Destroy, stream
  <2>3. ObservedInOrder'
    BY <1>13 DEF ObservedInOrder, Destroy, stream
  <2>4. WaiterInv'
    BY <1>13
       DEF WaiterInv, Settled, NoRead, Taken, ReadPending, ReadCompleted, ReadAt, Destroy,
           stream
  <2>5. AloneInv'
    BY <1>13 DEF AloneInv, Destroy
  <2>6. NoReadAfterShutdown'
    BY <1>13 DEF NoReadAfterShutdown, Destroy
  <2> QED
    BY <2>1, <2>2, <2>3, <2>4, <2>5, <2>6
<1>14. ASSUME NEW who \in {"waiter", "destroyer"}, CancelAgain(who) PROVE IInv'
  <2>10. /\ queue \in Seq(Completions) /\ Len(queue) \in Nat
         /\ inbox \in Seq(1 .. MaxRev) /\ Len(inbox) \in Nat
         /\ sent \in Seq(1 .. MaxRev) /\ Len(sent) \in Nat
         /\ observed \in Seq(1 .. MaxRev) /\ Len(observed) \in Nat
    BY LenProperties DEF IInv, TypeOK
  <2>1. TypeOK'
    BY <1>14 DEF TypeOK, CancelAgain, Return, stream
  <2>2. InboxIsSuffix'
    BY <1>14 DEF InboxIsSuffix, CancelAgain, stream
  <2>3. ObservedInOrder'
    BY <1>14 DEF ObservedInOrder, CancelAgain, stream
  <2>4. WaiterInv'
    BY <1>14
       DEF WaiterInv, Settled, NoRead, Taken, ReadPending, ReadCompleted, ReadAt,
           CancelAgain, Return, stream
  <2>5. AloneInv'
    BY <1>14 DEF AloneInv, CancelAgain, At, Return
  <2>6. NoReadAfterShutdown'
    BY <1>14 DEF NoReadAfterShutdown, CancelAgain, Return
  <2> QED
    BY <2>1, <2>2, <2>3, <2>4, <2>5, <2>6
<1>15. ASSUME NEW who \in {"waiter", "destroyer"}, CancelFirst(who) PROVE IInv'
  <2>10. /\ queue \in Seq(Completions) /\ Len(queue) \in Nat
         /\ inbox \in Seq(1 .. MaxRev) /\ Len(inbox) \in Nat
         /\ sent \in Seq(1 .. MaxRev) /\ Len(sent) \in Nat
         /\ observed \in Seq(1 .. MaxRev) /\ Len(observed) \in Nat
    BY LenProperties DEF IInv, TypeOK
  <2>1. TypeOK'
    BY <1>15 DEF TypeOK, Tags, CancelFirst, Post
  <2>2. InboxIsSuffix'
    BY <1>15 DEF InboxIsSuffix, CancelFirst
  <2>3. ObservedInOrder'
    BY <1>15 DEF ObservedInOrder, CancelFirst
  <2>4. WaiterInv'
    BY <1>15
       DEF WaiterInv, Settled, NoRead, Taken, ReadPending, ReadCompleted, ReadAt,
           CancelFirst, Post
  <2>5. AloneInv'
    BY <1>15 DEF AloneInv, CancelFirst, At
  <2>6. NoReadAfterShutdown'
    BY <1>15 DEF NoReadAfterShutdown, CancelFirst
  <2> QED
    BY <2>1, <2>2, <2>3, <2>4, <2>5, <2>6
<1>16. ASSUME NEW who \in {"waiter", "destroyer"}, FinishObserve(who), queue # <<>>
       PROVE  IInv'
  <2>10. /\ queue \in Seq(Completions) /\ Len(queue) \in Nat
         /\ inbox \in Seq(1 .. MaxRev) /\ Len(inbox) \in Nat
         /\ sent \in Seq(1 .. MaxRev) /\ Len(sent) \in Nat
         /\ observed \in Seq(1 .. MaxRev) /\ Len(observed) \in Nat
    BY LenProperties DEF IInv, TypeOK
  <2>11. /\ queue # <<>> /\ queue' = Tail(queue) /\ Head(queue) = queue[1]
         /\ queue[1] \in Completions /\ queue' \in Seq(Completions)
         /\ Len(queue) >= 1 /\ Len(queue') = Len(queue) - 1
         /\ \A i \in 1 .. Len(queue') : queue'[i] = queue[i + 1]
    <3>1. queue # <<>> /\ queue' = Tail(queue)
      BY <1>16 DEF FinishObserve, Take
    <3> QED
      BY <2>10, <3>1, HeadAndTail
  <2>12. /\ Len(inbox') = 0 /\ inbox' = <<>> /\ inbox' \in Seq(1 .. MaxRev)
         /\ ending' # "none" /\ ending' \in {"none", "OK", "ERROR"}
         /\ UNCHANGED <<sent, observed, pending, overlap, isCancelled>>
    BY <1>16, EmptySeq DEF TypeOK, FinishObserve, TryCancel
  <2>1. TypeOK'
    BY <1>16, <2>11, <2>12 DEF TypeOK, FinishObserve, Return, StatusAfter
  <2>2. InboxIsSuffix'
    BY <2>10, <2>12 DEF InboxIsSuffix
  <2>3. ObservedInOrder'
    BY <2>12 DEF ObservedInOrder
  <2>4. WaiterInv'
    <3>1. NoRead => NoRead'
      BY <2>10, <2>11, <2>12 DEF NoRead
    <3>2. Settled => Settled'
      BY <2>12, <3>1 DEF Settled, Taken
    <3>3. ReadPending => ReadPending'
      BY <2>10, <2>11, <2>12 DEF ReadPending, Taken
    <3>4. ASSUME NEW j \in 1 .. Len(queue), ReadAt(j) PROVE NoRead' \/ ReadCompleted'
      <4>1. CASE j = 1
        BY <2>11, <2>12, <3>4, <4>1 DEF NoRead, ReadAt
      <4>2. CASE j # 1
        <5>1. j - 1 \in 1 .. Len(queue') /\ queue'[j - 1] = queue[j]
          BY <2>10, <2>11, <4>2
        <5>2. \A i \in 1 .. Len(queue') : i # j - 1 => queue'[i].tag # "READ"
          <6> SUFFICES ASSUME NEW i \in 1 .. Len(queue'), i # j - 1
                       PROVE  queue'[i].tag # "READ"
            OBVIOUS
          <6>1. queue'[i] = queue[i + 1] /\ i + 1 \in 1 .. Len(queue) /\ i + 1 # j
            BY <2>10, <2>11
          <6> QED
            BY <3>4, <6>1 DEF ReadAt
        <5>3. ReadAt(j - 1)'
          BY <2>12, <3>4, <5>1, <5>2 DEF ReadAt, Taken
        <5> QED
          BY <5>1, <5>3 DEF ReadCompleted
      <4> QED
        BY <4>1, <4>2
    <3>5. CASE who = "waiter"
      BY <1>16, <3>5 DEF WaiterInv, FinishObserve, At, Return
    <3>6. CASE who = "destroyer"
      <4>1. waiter' = waiter /\ destroyer' = "release"
        BY <1>16, <3>6 DEF FinishObserve, At, Return
      <4> QED
        BY <3>1, <3>2, <3>3, <3>4, <4>1 DEF WaiterInv, ReadCompleted
    <3> QED
      BY <3>5, <3>6
  <2>5. AloneInv'
    BY <1>16 DEF AloneInv, FinishObserve, At, Return
  <2>6. NoReadAfterShutdown'
    BY <1>16, <2>12 DEF NoReadAfterShutdown, FinishObserve, At, Return
  <2> QED
    BY <2>1, <2>2, <2>3, <2>4, <2>5, <2>6
<1>17. ASSUME NEW who \in {"waiter", "destroyer"}, FinishObserve(who), queue = <<>>
       PROVE  IInv'
  <2>10. /\ queue \in Seq(Completions) /\ Len(queue) \in Nat
         /\ inbox \in Seq(1 .. MaxRev) /\ Len(inbox) \in Nat
         /\ sent \in Seq(1 .. MaxRev) /\ Len(sent) \in Nat
         /\ observed \in Seq(1 .. MaxRev) /\ Len(observed) \in Nat
    BY LenProperties DEF IInv, TypeOK
  <2>1. TypeOK'
    BY <1>17 DEF TypeOK, FinishObserve, Take, Return, TryCancel
  <2>2. InboxIsSuffix'
    BY <1>17 DEF InboxIsSuffix, FinishObserve, TryCancel
  <2>3. ObservedInOrder'
    BY <1>17 DEF ObservedInOrder, FinishObserve
  <2>4. WaiterInv'
    BY <1>17
       DEF WaiterInv, Settled, NoRead, Taken, ReadPending, FinishObserve, Take, Return,
           TryCancel
  <2>5. AloneInv'
    BY <1>17 DEF AloneInv, FinishObserve, At, Return
  <2>6. NoReadAfterShutdown'
    BY <1>17 DEF NoReadAfterShutdown, FinishObserve, Return
  <2> QED
    BY <2>1, <2>2, <2>3, <2>4, <2>5, <2>6
<1>18. CASE Release
  <2>10. /\ queue \in Seq(Completions) /\ Len(queue) \in Nat
         /\ inbox \in Seq(1 .. MaxRev) /\ Len(inbox) \in Nat
         /\ sent \in Seq(1 .. MaxRev) /\ Len(sent) \in Nat
         /\ observed \in Seq(1 .. MaxRev) /\ Len(observed) \in Nat
    BY LenProperties DEF IInv, TypeOK
  <2>1. TypeOK'
    BY <1>18, <2>10 DEF TypeOK, Release, stream, threads
  <2>2. InboxIsSuffix'
    BY <1>18 DEF InboxIsSuffix, Release, stream
  <2>3. ObservedInOrder'
    BY <1>18 DEF ObservedInOrder, Release, stream
  <2>4. WaiterInv'
    BY <1>18
       DEF WaiterInv, Settled, NoRead, Taken, ReadPending, ReadCompleted, ReadAt, Release,
           stream
  <2>5. AloneInv'
    BY <1>18 DEF AloneInv, Release
  <2>6. NoReadAfterShutdown'
    BY <1>18 DEF NoReadAfterShutdown, Release
  <2> QED
    BY <2>1, <2>2, <2>3, <2>4, <2>5, <2>6
<1>19. CASE DestroyAction
  <2>10. /\ queue \in Seq(Completions) /\ Len(queue) \in Nat
         /\ inbox \in Seq(1 .. MaxRev) /\ Len(inbox) \in Nat
         /\ sent \in Seq(1 .. MaxRev) /\ Len(sent) \in Nat
         /\ observed \in Seq(1 .. MaxRev) /\ Len(observed) \in Nat
    BY LenProperties DEF IInv, TypeOK
  <2>1. TypeOK'
    BY <1>19 DEF TypeOK, DestroyAction, TryCancel
  <2>2. InboxIsSuffix'
    BY <1>19 DEF InboxIsSuffix, DestroyAction, TryCancel
  <2>3. ObservedInOrder'
    BY <1>19 DEF ObservedInOrder, DestroyAction
  <2>4. WaiterInv'
    BY <1>19 DEF WaiterInv, DestroyAction
  <2>5. AloneInv'
    BY <1>19 DEF AloneInv, DestroyAction
  <2>6. NoReadAfterShutdown'
    BY <1>19 DEF NoReadAfterShutdown, DestroyAction
  <2> QED
    BY <2>1, <2>2, <2>3, <2>4, <2>5, <2>6
<1>20. CASE UNCHANGED vars
  <2>10. /\ queue \in Seq(Completions) /\ Len(queue) \in Nat
         /\ inbox \in Seq(1 .. MaxRev) /\ Len(inbox) \in Nat
         /\ sent \in Seq(1 .. MaxRev) /\ Len(sent) \in Nat
         /\ observed \in Seq(1 .. MaxRev) /\ Len(observed) \in Nat
    BY LenProperties DEF IInv, TypeOK
  <2>1. TypeOK'
    BY <1>20, <2>10 DEF TypeOK, vars, stream, threads
  <2>2. InboxIsSuffix'
    BY <1>20 DEF InboxIsSuffix, vars, stream
  <2>3. ObservedInOrder'
    BY <1>20 DEF ObservedInOrder, vars, stream, threads
  <2>4. WaiterInv'
    BY <1>20
       DEF WaiterInv, Settled, NoRead, Taken, ReadPending, ReadCompleted, ReadAt, vars,
           stream, threads
  <2>5. AloneInv'
    BY <1>20 DEF AloneInv, vars, stream, threads
  <2>6. NoReadAfterShutdown'
    BY <1>20 DEF NoReadAfterShutdown, vars, threads
  <2> QED
    BY <2>1, <2>2, <2>3, <2>4, <2>5, <2>6
<1>21. CASE Transport
  BY <1>1, <1>2, <1>3, <1>4, <1>21 DEF Transport, CompleteCreate, CompleteRead
<1>22. ASSUME NEW who \in {"waiter", "destroyer"}, CancelObserve(who) PROVE IInv'
  BY <1>14, <1>15, <1>16, <1>17, <1>22 DEF CancelObserve
<1> QED
  BY <1>5, <1>6, <1>7, <1>8, <1>9, <1>10, <1>11, <1>12, <1>13, <1>18, <1>19, <1>20, <1>21,
     <1>22
     DEF Next, WaiterStep, DestroyerStep

\* The stream is being opened, and no leader was sent.
LEMMA InitInv == Init => IInv
<1> SUFFICES ASSUME Init PROVE IInv
  OBVIOUS
<1>1. /\ queue = <<>> /\ inbox = <<>> /\ sent = <<>> /\ observed = <<>>
      /\ Len(queue) = 0 /\ Len(inbox) = 0 /\ Len(sent) = 0 /\ Len(observed) = 0
  BY EmptySeq DEF Init
<1>2. TypeOK
  BY <1>1, EmptySeq DEF Init, TypeOK, Tags
<1>3. InboxIsSuffix /\ ObservedInOrder
  BY <1>1 DEF InboxIsSuffix, ObservedInOrder
<1>4. WaiterInv
  BY <1>1 DEF Init, WaiterInv, Settled, NoRead, Taken
<1>5. AloneInv /\ NoReadAfterShutdown
  BY DEF Init, AloneInv, NoReadAfterShutdown
<1> QED
  BY <1>2, <1>3, <1>4, <1>5 DEF IInv

\* Every reachable state of the observer satisfies the invariant.
THEOREM Invariance == Spec => []IInv
  BY InitInv, InvInductive, PTL DEF Spec

----------------------------------------------------------------------------
(* What follows from it. *)

\* Every variable keeps its type: what WaitOnce() returns is always a leader.
THEOREM TypeCorrect == Spec => []TypeOK
  BY Invariance, PTL DEF IInv

\* WaitOnce() returns the leaders that the server has told, in order, each once
\* and none left out, also while the destructor takes events from its queue.
THEOREM ObservedInOrderHolds == Spec => []ObservedInOrder
  BY Invariance, PTL DEF IInv

\* An observer that is not destroyed while it is used never starts a read on a
\* completion queue that was shut down, which would abort the program.
THEOREM NoReadAfterShutdownHolds == Spec => []NoReadAfterShutdown
  BY Invariance, PTL DEF IInv
=============================================================================
