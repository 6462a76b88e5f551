---------------------- MODULE TokenAuthenticatorProofs ----------------------
(***************************************************************************)
(* Proofs about TokenAuthenticator, for any set of threads, any lifetime   *)
(* of a token, any resolution of the clock and any network whose delays    *)
(* fit into the margin (DelayIsShort): no request presents an expired      *)
(* token, the client authenticates once per period, and a request is       *)
(* refused only for a reason.                                              *)
(***************************************************************************)
EXTENDS TokenAuthenticator, TLAPS

----------------------------------------------------------------------------
(* The inductive invariant. *)

\* Only the holder of mtx_ authenticates, and only in a client that has a token.
MutexInv ==
  \A t \in Threads :
    pc[t] \in {"auth", "answered", "writing"} => mutex = t /\ hasToken = TRUE

\* The first authentication is the constructor's; requests come after it.
StartInv ==
  /\ pc[Creator] = "construct" =>
       /\ sinceAuth = Lifetime /\ constructed = FALSE
       /\ \A t \in Threads : pc[t] \notin {"auth", "answered", "writing"}
  /\ \A t \in Threads : pc[t] \in {"renew", "copy", "send"} => constructed = TRUE

\* The age of a token is bounded by the time since updated_at, except while a
\* new one is on its way; of an answer, also by the time it has taken.
TokenAge ==
  /\ (mutex = NoThread /\ token.kind = "token") => token.age <= sinceUpdate
  /\ \A t \in Threads :
       (pc[t] \in {"answered", "writing"} /\ answer[t].kind = "token") =>
          answer[t].age <= sinceUpdate /\ answer[t].age <= wait[t]

\* A thread past the test of renew_if_expired() uses a token that has grown
\* older only by the time since: token_ until it has its copy, then the copy.
RequestAge ==
  \A t \in Threads :
    /\ (pc[t] = "copy" /\ hasToken = TRUE /\ token.kind = "token") =>
          token.age < Period + wait[t]
    /\ (pc[t] = "send" /\ hasToken = TRUE /\ mine[t].kind = "token") =>
          mine[t].age < Period + wait[t]

\* Why a request carries something else than a token.
Cause ==
  /\ (failedAuth = FALSE /\ constructed = TRUE /\ hasToken = TRUE) => token.kind = "token"
  /\ \A t \in Threads :
       (failedAuth = FALSE /\ pc[t] \in {"answered", "writing"}) => answer[t].kind = "token"
  /\ \A t \in Threads :
       (failedAuth = FALSE /\ pc[t] = "send" /\ hasToken = TRUE /\ raced[t] = FALSE) =>
          mine[t].kind = "token"
  /\ \A t, u \in Threads : (pc[t] = "copy" /\ pc[u] = "writing") => raced[t] = TRUE

IInv ==
  /\ TypeOK /\ MutexInv /\ StartInv /\ TokenAge /\ RequestAge /\ Cause
  /\ sinceUpdate <= sinceAuth
  /\ OneRenewalPerPeriod /\ TokenNotExpired /\ RefusalHasCause
----------------------------------------------------------------------------
(* Lemmas about time. *)

\* The lifetime of a token and the period of its renewal, in ticks.
LEMMA Times ==
  /\ Lifetime \in Nat /\ Period \in Nat /\ Delay \in Nat
  /\ Delay < Period /\ Period + Delay <= Lifetime
<1>1. RenewAfter \in Nat /\ RenewAfter + 1 \in Nat
  BY TimesAreNat DEF RenewAfter
<1>2. Lifetime \in Nat /\ Period \in Nat
  BY TimesAreNat, <1>1 DEF Lifetime, Period
<1> QED
  BY <1>2, TimesAreNat, DelayIsShort

\* The test of line 338, which rounds down to seconds, compares with Period.
LEMMA ExpiringAfterPeriod ==
  ASSUME NEW n \in Nat
  PROVE  Seconds(n) > RenewAfter <=> n >= Period
<1> DEFINE q == n \div TicksPerSecond
           T == TicksPerSecond
           R == RenewAfter + 1
<1>1. T \in Nat /\ T > 0 /\ R \in Nat /\ RenewAfter \in Nat
  BY TimesAreNat DEF RenewAfter
<1>2. q \in Nat /\ q * T <= n /\ n < (q + 1) * T
  BY <1>1
<1>3. q >= R => q * T >= R * T
  BY <1>1, <1>2
<1>4. q + 1 <= R => (q + 1) * T <= R * T
  BY <1>1, <1>2
<1>5. q * T \in Nat /\ (q + 1) * T \in Nat /\ R * T \in Nat
  BY <1>1, <1>2
<1>6. Seconds(n) = q /\ Period = R * T
  BY DEF Seconds, Period
<1> HIDE DEF q, T, R
<1>7. q >= R <=> n >= R * T
  BY <1>1, <1>2, <1>3, <1>4, <1>5
<1>8. R = RenewAfter + 1
  BY DEF R
<1> QED
  BY <1>1, <1>2, <1>6, <1>7, <1>8

\* Ages grow together, and stop growing at Lifetime.
LEMMA LaterProperties ==
  /\ 0 \in Ages /\ Lifetime \in Ages /\ Ages \subseteq Nat
  /\ \A n \in Ages : Later(n) \in Ages /\ n <= Later(n) /\ Later(n) <= n + 1
  /\ \A m, n \in Ages : m <= n => Later(m) <= Later(n)
  /\ Later(Lifetime) = Lifetime
  BY Times DEF Ages, Later

\* A tick makes a token older and leaves everything else as it is.
LEMMA OlderProperties ==
  /\ \A tok \in Tokens \cup {Torn} : Older(tok).kind = tok.kind
  /\ \A tok \in Tokens : Older(tok) \in Tokens
  /\ Older(Torn) = Torn
  /\ \A tok \in Tokens : tok.kind = "token" => Older(tok).age = Later(tok.age)
  BY LaterProperties DEF Older, Tokens, Torn, Issued

\* What a client can hold is told apart by its kind.
LEMMA Kinds ==
  /\ Empty \in Tokens /\ Message \in Tokens /\ Issued(0) \in Tokens
  /\ Torn.kind = "torn" /\ Empty.kind = "empty" /\ Message.kind = "message"
  /\ Issued(0).kind = "token" /\ Issued(0).age = 0
  /\ \A tok \in Tokens : tok.kind # "torn" /\ tok.age \in Ages
  BY LaterProperties DEF Tokens, Torn, Empty, Message, Issued

----------------------------------------------------------------------------
(* The invariant is inductive. *)

\* Every step of a thread, of etcd and of the clock keeps the invariant.
LEMMA InvInductive == IInv /\ [Next]_vars => IInv'
<1> SUFFICES ASSUME IInv, [Next]_vars PROVE IInv'
  OBVIOUS
<1> USE CreatorIsThread DEF IInv
<1>1. CASE Tick
  <2>11. /\ token' = Older(token) /\ sinceUpdate' = Later(sinceUpdate)
         /\ UNCHANGED <<hasToken, mutex, constructed, pc, failedAuth, raced>>
         /\ \A t \in Threads : answer'[t] = Older(answer[t]) /\ mine'[t] = Older(mine[t])
    BY <1>1 DEF Tick
  <2>12. \A t \in Threads :
           pc[t] \in {"answered", "writing", "copy", "send"} => wait'[t] = wait[t] + 1
    BY <1>1 DEF Tick, Hurried
  <2>13. /\ token \in Tokens /\ sinceUpdate \in Ages
         /\ \A t \in Threads : /\ answer[t] \in Tokens /\ mine[t] \in Tokens \cup {Torn}
                               /\ wait[t] \in Nat
    BY Times DEF TypeOK
  <2>1. TypeOK'
    BY <1>1, Times, LaterProperties, OlderProperties DEF TypeOK, Tick
  <2>2. MutexInv'
    BY <1>1 DEF MutexInv, Tick
  <2>3. StartInv'
    BY <1>1, LaterProperties DEF StartInv, Tick
  <2>4. TokenAge'
    <3>1. (mutex' = NoThread /\ token'.kind = "token") => token'.age <= sinceUpdate'
      BY <2>11, <2>13, LaterProperties, OlderProperties, Kinds DEF TokenAge
    <3>2. ASSUME NEW t \in Threads, pc[t] \in {"answered", "writing"},
                 answer'[t].kind = "token"
          PROVE  answer'[t].age <= sinceUpdate' /\ answer'[t].age <= wait'[t]
      <4>1. answer[t] \in Tokens /\ answer[t].kind = "token" /\ answer[t].age \in Ages
        BY <2>11, <2>13, <3>2, OlderProperties, Kinds
      <4>2. answer[t].age <= sinceUpdate /\ answer[t].age <= wait[t]
        BY <3>2, <4>1 DEF TokenAge
      <4>3. answer'[t].age = Later(answer[t].age)
        BY <2>11, <4>1, OlderProperties
      <4>4. answer'[t].age <= answer[t].age + 1 /\ answer'[t].age \in Nat
        BY <4>1, <4>3, LaterProperties
      <4>5. answer'[t].age <= wait'[t]
        <5>1. wait'[t] = wait[t] + 1 /\ wait[t] \in Nat
          BY <2>12, <2>13, <3>2
        <5>2. answer[t].age \in Nat
          BY <4>1, LaterProperties
        <5> QED
          BY <4>2, <4>4, <5>1, <5>2
      <4>6. answer'[t].age <= sinceUpdate'
        BY <2>11, <2>13, <4>1, <4>2, <4>3, LaterProperties
      <4> QED
        BY <4>5, <4>6
    <3> QED
      BY <2>11, <3>1, <3>2 DEF TokenAge
  <2>5. RequestAge'
    <3>1. ASSUME NEW tok \in Tokens, tok.kind = "token", NEW w \in Nat,
                 tok.age < Period + w
          PROVE  Older(tok).age < Period + (w + 1)
      <4>1. tok.age \in Nat /\ Older(tok).age \in Nat /\ Older(tok).age <= tok.age + 1
        BY <3>1, LaterProperties, OlderProperties, Kinds
      <4> QED
        BY <3>1, <4>1, Times
    <3> SUFFICES ASSUME NEW t \in Threads
                 PROVE  /\ (pc[t] = "copy" /\ hasToken = TRUE /\ token'.kind = "token") =>
                             token'.age < Period + wait'[t]
                        /\ (pc[t] = "send" /\ hasToken = TRUE /\ mine'[t].kind = "token") =>
                             mine'[t].age < Period + wait'[t]
      BY <2>11 DEF RequestAge
    <3>2. (pc[t] = "copy" /\ hasToken = TRUE /\ token'.kind = "token") =>
             token'.age < Period + wait'[t]
      BY <2>11, <2>12, <2>13, <3>1, OlderProperties DEF RequestAge
    <3>3. (pc[t] = "send" /\ hasToken = TRUE /\ mine'[t].kind = "token") =>
             mine'[t].age < Period + wait'[t]
      <4>1. mine'[t].kind = "token" => mine[t] \in Tokens /\ mine[t].kind = "token"
        BY <2>11, <2>13, OlderProperties, Kinds
      <4> QED
        BY <2>11, <2>12, <2>13, <3>1, <4>1 DEF RequestAge
    <3> QED
      BY <3>2, <3>3
  <2>6. Cause'
    <3>1. token'.kind = token.kind
      BY <2>11, <2>13, OlderProperties
    <3>2. \A t \in Threads : answer'[t].kind = answer[t].kind /\ mine'[t].kind = mine[t].kind
      BY <2>11, <2>13, OlderProperties
    <3> QED
      BY <2>11, <3>1, <3>2 DEF Cause
  <2>7. sinceUpdate' <= sinceAuth'
    BY <1>1, LaterProperties DEF TypeOK, Tick
  <2>8. OneRenewalPerPeriod'
    BY <1>1 DEF OneRenewalPerPeriod, Tick
  <2>9. TokenNotExpired'
    BY <1>1 DEF TokenNotExpired, Tick
  <2>10. RefusalHasCause'
    BY <1>1 DEF RefusalHasCause, Tick
  <2> QED
    BY <2>1, <2>2, <2>3, <2>4, <2>5, <2>6, <2>7, <2>8, <2>9, <2>10
<1>2. CASE hasToken /\ BeginAuth(Creator, "construct")
  <2>1. TypeOK'
    BY <1>2, Kinds DEF TypeOK, BeginAuth, Goto, Stamp
  <2>2. MutexInv'
    BY <1>2 DEF MutexInv, BeginAuth, Goto
  <2>3. StartInv'
    BY <1>2 DEF StartInv, TypeOK, BeginAuth, Goto
  <2>4. TokenAge'
    BY <1>2 DEF TokenAge, MutexInv, BeginAuth, Goto
  <2>5. RequestAge'
    BY <1>2 DEF RequestAge, BeginAuth, Goto
  <2>6. Cause'
    BY <1>2 DEF Cause, BeginAuth, Goto
  <2>7. sinceUpdate' <= sinceAuth'
    BY <1>2 DEF BeginAuth, Stamp
  <2>8. OneRenewalPerPeriod'
    BY <1>2, Times DEF OneRenewalPerPeriod, StartInv, BeginAuth, Goto
  <2>9. TokenNotExpired'
    BY <1>2 DEF TokenNotExpired, BeginAuth
  <2>10. RefusalHasCause'
    BY <1>2 DEF RefusalHasCause, BeginAuth
  <2> QED
    BY <2>1, <2>2, <2>3, <2>4, <2>5, <2>6, <2>7, <2>8, <2>9, <2>10
<1>3. CASE ~hasToken /\ Construct
  <2>1. TypeOK'
    BY <1>3 DEF TypeOK, Construct, Goto, history
  <2>2. MutexInv'
    BY <1>3 DEF MutexInv, TypeOK, Construct, Goto
  <2>3. StartInv'
    BY <1>3 DEF StartInv, TypeOK, Construct, Goto
  <2>4. TokenAge'
    BY <1>3 DEF TokenAge, TypeOK, Construct, Goto
  <2>5. RequestAge'
    BY <1>3 DEF RequestAge, Construct
  <2>6. Cause'
    BY <1>3 DEF Cause, StartInv, TypeOK, Construct, Goto
  <2>7. sinceUpdate' <= sinceAuth'
    BY <1>3 DEF Construct, history
  <2>8. OneRenewalPerPeriod'
    BY <1>3 DEF OneRenewalPerPeriod, Construct, history
  <2>9. TokenNotExpired'
    BY <1>3 DEF TokenNotExpired, Construct
  <2>10. RefusalHasCause'
    BY <1>3 DEF RefusalHasCause, Construct, history
  <2> QED
    BY <2>1, <2>2, <2>3, <2>4, <2>5, <2>6, <2>7, <2>8, <2>9, <2>10
<1>4. ASSUME NEW t \in Threads, Call(t) PROVE IInv'
  <2>1. TypeOK'
    BY <1>4 DEF TypeOK, Call, Goto, client
  <2>2. MutexInv'
    BY <1>4 DEF MutexInv, Call, Goto, client
  <2>3. StartInv'
    BY <1>4 DEF StartInv, Call, Goto, client
  <2>4. TokenAge'
    BY <1>4 DEF TokenAge, Call, Goto, client
  <2>5. RequestAge'
    BY <1>4 DEF RequestAge, Call, Goto, client
  <2>6. Cause'
    BY <1>4 DEF Cause, Call, Goto, client
  <2>7. sinceUpdate' <= sinceAuth'
    BY <1>4 DEF Call, client
  <2>8. OneRenewalPerPeriod'
    BY <1>4 DEF OneRenewalPerPeriod, Call
  <2>9. TokenNotExpired'
    BY <1>4 DEF TokenNotExpired, Call
  <2>10. RefusalHasCause'
    BY <1>4 DEF RefusalHasCause, TypeOK, Call
  <2> QED
    BY <2>1, <2>2, <2>3, <2>4, <2>5, <2>6, <2>7, <2>8, <2>9, <2>10
<1>5. ASSUME NEW t \in Threads, Renew(t) PROVE IInv'
  <2>1. TypeOK'
    BY <1>5, LaterProperties DEF TypeOK, Renew, BeginAuth, Goto, Stamp
  <2>2. MutexInv'
    BY <1>5 DEF MutexInv, Renew, BeginAuth, Goto
  <2>3. StartInv'
    BY <1>5 DEF StartInv, Renew, BeginAuth, Goto
  <2>4. TokenAge'
    BY <1>5 DEF TokenAge, MutexInv, Renew, BeginAuth, Goto
  <2>5. RequestAge'
    BY <1>5 DEF RequestAge, Renew, BeginAuth, Goto
  <2>6. Cause'
    BY <1>5 DEF Cause, Renew, BeginAuth, Goto
  <2>7. sinceUpdate' <= sinceAuth'
    BY <1>5 DEF Renew, BeginAuth, Stamp
  <2>8. OneRenewalPerPeriod'
    BY <1>5, Times, LaterProperties, ExpiringAfterPeriod
       DEF OneRenewalPerPeriod, TypeOK, Renew, Expiring, BeginAuth
  <2>9. TokenNotExpired'
    BY <1>5 DEF TokenNotExpired, Renew, BeginAuth
  <2>10. RefusalHasCause'
    BY <1>5 DEF RefusalHasCause, Renew, BeginAuth
  <2> QED
    BY <2>1, <2>2, <2>3, <2>4, <2>5, <2>6, <2>7, <2>8, <2>9, <2>10
<1>6. ASSUME NEW t \in Threads, NoRenewal(t) PROVE IInv'
  <2>1. TypeOK'
    BY <1>6, Times DEF TypeOK, NoRenewal, Goto, client, history
  <2>2. MutexInv'
    BY <1>6 DEF MutexInv, NoRenewal, Goto
  <2>3. StartInv'
    BY <1>6 DEF StartInv, NoRenewal, Goto, client
  <2>4. TokenAge'
    BY <1>6 DEF TokenAge, NoRenewal, Goto, client
  <2>5. RequestAge'
    <3> SUFFICES ASSUME NEW u \in Threads
                 PROVE  /\ (pc'[u] = "copy" /\ hasToken = TRUE /\ token.kind = "token") =>
                             token.age < Period + wait'[u]
                        /\ (pc'[u] = "send" /\ hasToken = TRUE /\ mine[u].kind = "token") =>
                             mine[u].age < Period + wait'[u]
      BY <1>6 DEF RequestAge, NoRenewal, client
    <3>1. CASE u # t
      BY <1>6, <3>1 DEF TypeOK, RequestAge, NoRenewal, Goto
    <3>2. CASE u = t
      <4>1. pc'[u] = "copy" /\ wait'[u] = 0
        BY <1>6, <3>2 DEF TypeOK, NoRenewal, Goto
      <4>2. (hasToken = TRUE /\ token.kind = "token") =>
              token.age <= sinceUpdate /\ ~(sinceUpdate >= Period)
        <5>1. sinceUpdate \in Nat
          BY LaterProperties DEF TypeOK
        <5> QED
          BY <1>6, <5>1, ExpiringAfterPeriod, Kinds DEF NoRenewal, Expiring, TokenAge
      <4>3. token.age \in Nat /\ sinceUpdate \in Nat
        BY LaterProperties, Kinds DEF TypeOK
      <4> QED
        BY <4>1, <4>2, <4>3, Times
    <3> QED
      BY <3>1, <3>2
  <2>6. Cause'
    BY <1>6 DEF Cause, MutexInv, NoRenewal, Goto, client, history
  <2>7. sinceUpdate' <= sinceAuth'
    BY <1>6 DEF NoRenewal, client, history
  <2>8. OneRenewalPerPeriod'
    BY <1>6 DEF OneRenewalPerPeriod, NoRenewal, history
  <2>9. TokenNotExpired'
    BY <1>6 DEF TokenNotExpired, NoRenewal
  <2>10. RefusalHasCause'
    BY <1>6 DEF RefusalHasCause, NoRenewal, history
  <2> QED
    BY <2>1, <2>2, <2>3, <2>4, <2>5, <2>6, <2>7, <2>8, <2>9, <2>10
<1>7. ASSUME NEW t \in Threads, NEW a \in {Issued(0), Message, Empty}, Answer(t, a) PROVE IInv'
  <2>1. TypeOK'
    BY <1>7, Times, Kinds DEF TypeOK, Answer, Goto, client
  <2>2. MutexInv'
    BY <1>7 DEF MutexInv, Answer, Goto, client
  <2>3. StartInv'
    BY <1>7 DEF StartInv, Answer, Goto, client
  <2>4. TokenAge'
    BY <1>7, LaterProperties, Kinds DEF TokenAge, TypeOK, Answer, Goto, client
  <2>5. RequestAge'
    BY <1>7 DEF RequestAge, Answer, Goto, client
  <2>6. Cause'
    BY <1>7 DEF Cause, TypeOK, Answer, Goto, client
  <2>7. sinceUpdate' <= sinceAuth'
    BY <1>7 DEF Answer, client
  <2>8. OneRenewalPerPeriod'
    BY <1>7 DEF OneRenewalPerPeriod, Answer
  <2>9. TokenNotExpired'
    BY <1>7 DEF TokenNotExpired, Answer
  <2>10. RefusalHasCause'
    BY <1>7 DEF RefusalHasCause, Answer
  <2> QED
    BY <2>1, <2>2, <2>3, <2>4, <2>5, <2>6, <2>7, <2>8, <2>9, <2>10
<1>8. ASSUME NEW t \in Threads, BeginWrite(t) PROVE IInv'
  <2>1. TypeOK'
    BY <1>8 DEF TypeOK, BeginWrite, Goto, client
  <2>2. MutexInv'
    BY <1>8 DEF MutexInv, BeginWrite, Goto, client
  <2>3. StartInv'
    BY <1>8 DEF StartInv, BeginWrite, Goto, client
  <2>4. TokenAge'
    BY <1>8 DEF TokenAge, BeginWrite, Goto, client
  <2>5. RequestAge'
    BY <1>8 DEF RequestAge, BeginWrite, Goto, client
  <2>6. Cause'
    BY <1>8 DEF Cause, TypeOK, BeginWrite, Goto, client
  <2>7. sinceUpdate' <= sinceAuth'
    BY <1>8 DEF BeginWrite, client
  <2>8. OneRenewalPerPeriod'
    BY <1>8 DEF OneRenewalPerPeriod, BeginWrite
  <2>9. TokenNotExpired'
    BY <1>8 DEF TokenNotExpired, BeginWrite
  <2>10. RefusalHasCause'
    BY <1>8 DEF RefusalHasCause, BeginWrite
  <2> QED
    BY <2>1, <2>2, <2>3, <2>4, <2>5, <2>6, <2>7, <2>8, <2>9, <2>10
<1>9. ASSUME NEW t \in Threads, EndWrite(t) PROVE IInv'
  <2>1. TypeOK'
    BY <1>9, Times, Kinds DEF TypeOK, EndWrite, Goto, history
  <2>2. MutexInv'
    BY <1>9 DEF MutexInv, TypeOK, EndWrite, Goto
  <2>3. StartInv'
    BY <1>9 DEF StartInv, EndWrite, Goto
  <2>4. TokenAge'
    BY <1>9 DEF TokenAge, TypeOK, EndWrite, Goto
  <2>5. RequestAge'
    <3>1. /\ pc[t] = "writing" /\ token' = answer[t] /\ wait[t] \in 0 .. Delay
          /\ UNCHANGED <<hasToken, mine>>
      BY <1>9 DEF TypeOK, EndWrite, Goto
    <3>2. token'.kind = "token" => token'.age < Period /\ token'.age \in Nat
      <4>1. answer[t].age \in Nat
        BY LaterProperties, Kinds DEF TypeOK
      <4> QED
        BY <3>1, <4>1, Times DEF TokenAge
    <3> SUFFICES ASSUME NEW u \in Threads
                 PROVE  /\ (pc'[u] = "copy" /\ hasToken = TRUE /\ token'.kind = "token") =>
                             token'.age < Period + wait'[u]
                        /\ (pc'[u] = "send" /\ hasToken = TRUE /\ mine[u].kind = "token") =>
                             mine[u].age < Period + wait'[u]
      BY <3>1 DEF RequestAge
    <3>3. wait'[u] \in Nat /\ (pc'[u] = "send" => pc[u] = "send" /\ wait'[u] = wait[u])
      BY <1>9, Times DEF TypeOK, EndWrite, Goto
    <3> QED
      BY <3>2, <3>3, Times DEF RequestAge
  <2>6. Cause'
    BY <1>9 DEF Cause, MutexInv, TypeOK, EndWrite, Goto, history
  <2>7. sinceUpdate' <= sinceAuth'
    BY <1>9 DEF EndWrite, history
  <2>8. OneRenewalPerPeriod'
    BY <1>9 DEF OneRenewalPerPeriod, EndWrite, history
  <2>9. TokenNotExpired'
    BY <1>9 DEF TokenNotExpired, EndWrite
  <2>10. RefusalHasCause'
    BY <1>9 DEF RefusalHasCause, EndWrite, history
  <2> QED
    BY <2>1, <2>2, <2>3, <2>4, <2>5, <2>6, <2>7, <2>8, <2>9, <2>10
<1>10. ASSUME NEW t \in Threads, Copy(t) PROVE IInv'
  <2>1. TypeOK'
    BY <1>10 DEF TypeOK, Copy, Goto, client, history
  <2>2. MutexInv'
    BY <1>10 DEF MutexInv, Copy, Goto, client
  <2>3. StartInv'
    BY <1>10 DEF StartInv, Copy, Goto, client
  <2>4. TokenAge'
    BY <1>10 DEF TokenAge, Copy, Goto, client
  <2>5. RequestAge'
    BY <1>10, Times, LaterProperties, Kinds
       DEF RequestAge, TokenAge, TypeOK, Copy, Goto, client
  <2>6. Cause'
    BY <1>10 DEF Cause, StartInv, TypeOK, Copy, Goto, client, history
  <2>7. sinceUpdate' <= sinceAuth'
    BY <1>10 DEF Copy, client, history
  <2>8. OneRenewalPerPeriod'
    BY <1>10 DEF OneRenewalPerPeriod, Copy, history
  <2>9. TokenNotExpired'
    BY <1>10 DEF TokenNotExpired, Copy
  <2>10. RefusalHasCause'
    BY <1>10 DEF RefusalHasCause, Copy, history
  <2> QED
    BY <2>1, <2>2, <2>3, <2>4, <2>5, <2>6, <2>7, <2>8, <2>9, <2>10
<1>11. ASSUME NEW t \in Threads, Send(t) PROVE IInv'
  <2>1. TypeOK'
    BY <1>11, Times, Kinds DEF TypeOK, Send, Judge, Goto, client, history
  <2>2. MutexInv'
    BY <1>11 DEF MutexInv, Send, Goto, client
  <2>3. StartInv'
    BY <1>11 DEF StartInv, Send, Goto, client
  <2>4. TokenAge'
    BY <1>11 DEF TokenAge, Send, Goto, client
  <2>5. RequestAge'
    BY <1>11 DEF RequestAge, TypeOK, Send, Goto, client
  <2>6. Cause'
    BY <1>11 DEF Cause, TypeOK, Send, Goto, client, history
  <2>7. sinceUpdate' <= sinceAuth'
    BY <1>11 DEF Send, client, history
  <2>8. OneRenewalPerPeriod'
    BY <1>11 DEF OneRenewalPerPeriod, Send, history
  <2>9. TokenNotExpired'
    <3>1. ASSUME hasToken = TRUE, mine[t].kind = "token"
          PROVE  mine[t].age < Lifetime
      <4>1. pc[t] = "send" /\ wait[t] \in 0 .. Delay /\ mine[t].age \in Nat
        BY <1>11, <3>1, LaterProperties, Kinds DEF TypeOK, Send, Goto
      <4>2. mine[t].age < Period + wait[t]
        BY <3>1, <4>1 DEF RequestAge
      <4> QED
        BY <4>1, <4>2, Times
    <3>2. Judge(mine[t]) # "expired"
      BY <3>1 DEF TypeOK, Judge
    <3> QED
      BY <1>11, <3>2 DEF TypeOK, TokenNotExpired, Send
  <2>10. RefusalHasCause'
    BY <1>11 DEF RefusalHasCause, Cause, Send, Judge, Goto, history
  <2> QED
    BY <2>1, <2>2, <2>3, <2>4, <2>5, <2>6, <2>7, <2>8, <2>9, <2>10
<1>12. CASE UNCHANGED vars
  <2>1. TypeOK'
    BY <1>12 DEF TypeOK, vars, client, history
  <2>2. MutexInv'
    BY <1>12 DEF MutexInv, vars, client
  <2>3. StartInv'
    BY <1>12 DEF StartInv, vars, client, history
  <2>4. TokenAge'
    BY <1>12 DEF TokenAge, vars, client
  <2>5. RequestAge'
    BY <1>12 DEF RequestAge, vars, client
  <2>6. Cause'
    BY <1>12 DEF Cause, vars, client, history
  <2>7. sinceUpdate' <= sinceAuth'
    BY <1>12 DEF vars, client, history
  <2>8. OneRenewalPerPeriod'
    BY <1>12 DEF OneRenewalPerPeriod, vars, history
  <2>9. TokenNotExpired'
    BY <1>12 DEF TokenNotExpired, vars
  <2>10. RefusalHasCause'
    BY <1>12 DEF RefusalHasCause, vars, history
  <2> QED
    BY <2>1, <2>2, <2>3, <2>4, <2>5, <2>6, <2>7, <2>8, <2>9, <2>10
<1> QED
  BY <1>1, <1>2, <1>3, <1>4, <1>5, <1>6, <1>7, <1>8, <1>9, <1>10, <1>11, <1>12
     DEF Next, Construct, ThreadStep, Grant, Refuse

\* The client is about to authenticate for the first time, or needs no token.
LEMMA InitInv == Init => IInv
<1> SUFFICES ASSUME Init PROVE IInv
  OBVIOUS
<1>1. TypeOK
  <2>1. /\ token \in Tokens /\ sinceUpdate \in Ages /\ sinceAuth \in Ages /\ gap \in Ages
        /\ 0 \in 0 .. Delay
    BY Times, LaterProperties, Kinds DEF Init
  <2> QED
    BY <2>1, Kinds DEF Init, TypeOK
<1>2. MutexInv /\ StartInv
  BY CreatorIsThread DEF Init, MutexInv, StartInv
<1>3. TokenAge /\ RequestAge /\ Cause
  BY Kinds DEF Init, TokenAge, RequestAge, Cause
<1>4. sinceUpdate <= sinceAuth /\ OneRenewalPerPeriod
  BY Times DEF Init, OneRenewalPerPeriod
<1>5. TokenNotExpired /\ RefusalHasCause
  BY DEF Init, TokenNotExpired, RefusalHasCause
<1> QED
  BY <1>1, <1>2, <1>3, <1>4, <1>5 DEF IInv

\* Every reachable state of the authenticator satisfies the invariant.
THEOREM Invariance == Spec => []IInv
  BY InitInv, InvInductive, PTL DEF Spec

----------------------------------------------------------------------------
(* What follows from it. *)

\* Every variable keeps its type.
THEOREM TypeCorrect == Spec => []TypeOK
  BY Invariance, PTL DEF IInv

\* For every ttl, clock and number of threads, and every network whose delays
\* fit into the margin of lines 338-340, no request presents an expired token.
THEOREM TokenNotExpiredHolds == Spec => []TokenNotExpired
  BY Invariance, PTL DEF IInv

\* However many threads find the token expiring, one of them authenticates and
\* none does so again before a period is over.
THEOREM OneRenewalPerPeriodHolds == Spec => []OneRenewalPerPeriod
  BY Invariance, PTL DEF IInv

\* A request is refused only after an authentication that failed, or when token_
\* was written between the thread's renew_if_expired() and its copy.
THEOREM RefusalHasCauseHolds == Spec => []RefusalHasCause
  BY Invariance, PTL DEF IInv
=============================================================================
