------------------------- MODULE TokenAuthenticator -------------------------
(***************************************************************************)
(* Class SyncClient::TokenAuthenticator (src/SyncClient.cpp): every        *)
(* request asks renew_if_expired() for the token of the client, which      *)
(* authenticates again when the token is about to expire.  Threads share   *)
(* token_, updated_at and mtx_; what they get is a reference to token_,    *)
(* copied into the parameters of the request once the mutex is released.   *)
(*                                                                         *)
(* Time is counted in ticks.  External: etcd, which issues tokens, and     *)
(* lets them expire, and the network, which delivers a message within      *)
(* Delay ticks.  An authentication may wait at etcd as long as it likes.   *)
(***************************************************************************)
EXTENDS Naturals

CONSTANTS
  Threads,         \* threads that use the client
  Creator,         \* the one that constructs it
  NoThread,        \* the holder of a free mutex
  TTL,             \* ttl_, the same as --auth-token-ttl of etcd, in seconds
  TicksPerSecond,
  Delay            \* bound: ticks that a message takes

\* max(1, ttl_ - 3), in seconds.
RenewAfter == IF TTL - 3 > 1 THEN TTL - 3 ELSE 1

Lifetime == TTL * TicksPerSecond
Period   == (RenewAfter + 1) * TicksPerSecond

ASSUME CreatorIsThread == Creator \in Threads /\ NoThread \notin Threads
ASSUME TimesAreNat == TTL \in Nat /\ TicksPerSecond \in Nat \ {0} /\ Delay \in Nat

\* Messages are fast enough for the margin that the code leaves, which is two
\* seconds from a ttl_ of 4 on, one second for a ttl_ of 3, and none below.
ASSUME DelayIsShort == Delay < Period /\ Period + Delay <= Lifetime

VARIABLES
  hasToken,     \* has_token_: the client was given a user and a password
  token,        \* token_
  sinceUpdate,  \* ticks since updated_at
  mutex,        \* the holder of mtx_
  pc,           \* where each thread is
  constructed,  \* the constructor has returned
  answer,       \* what etcd has answered to the thread's authentication
  mine,         \* the copy of the token in the thread's request
  wait,         \* ticks that the thread's message, or the thread, has taken
  outcome,      \* what etcd made of the thread's last request
  sinceAuth,    \* history: ticks since the last authentication began
  gap,          \* history: ticks between the last two authentications
  failedAuth,   \* history: some authentication has failed
  raced         \* history: token_ was written between a thread's renewal and copy

client == <<token, sinceUpdate, mutex, hasToken, constructed>>
history == <<sinceAuth, gap, failedAuth, raced>>
vars == <<client, pc, answer, mine, wait, outcome, history>>

\* What token_ may hold: nothing, a token and the ticks since etcd issued it, the
\* message of a failed authentication.  A copy may be a mix of two of them.
Ages == 0 .. Lifetime
Empty == [kind |-> "empty", age |-> 0]
Message == [kind |-> "message", age |-> 0]
Torn == [kind |-> "torn", age |-> 0]
Issued(age) == [kind |-> "token", age |-> age]
Tokens == [kind : {"empty", "token", "message"}, age : Ages]

TypeOK ==
  /\ hasToken \in BOOLEAN /\ constructed \in BOOLEAN /\ failedAuth \in BOOLEAN
  /\ token \in Tokens
  /\ sinceUpdate \in Ages /\ sinceAuth \in Ages /\ gap \in Ages
  /\ mutex \in Threads \cup {NoThread}
  /\ pc \in [Threads -> {"construct", "idle", "renew", "auth", "answered",
                         "writing", "copy", "send"}]
  /\ answer \in [Threads -> Tokens]
  /\ mine \in [Threads -> Tokens \cup {Torn}]
  /\ wait \in [Threads -> 0 .. Delay]
  /\ outcome \in [Threads -> {"none", "accepted", "expired", "refused"}]
  /\ raced \in [Threads -> BOOLEAN]

Init ==
  /\ hasToken \in BOOLEAN /\ constructed = FALSE
  /\ token = Empty /\ sinceUpdate = 0 /\ mutex = NoThread
  /\ pc = [t \in Threads |-> IF t = Creator THEN "construct" ELSE "idle"]
  /\ answer = [t \in Threads |-> Empty]
  /\ mine = [t \in Threads |-> Empty]
  /\ wait = [t \in Threads |-> 0]
  /\ outcome = [t \in Threads |-> "none"]
  /\ sinceAuth = Lifetime /\ gap = Lifetime
  /\ failedAuth = FALSE /\ raced = [t \in Threads |-> FALSE]

Goto(t, from, to) == pc[t] = from /\ pc' = [pc EXCEPT ![t] = to]

----------------------------------------------------------------------------
(* Time. *)

Later(n) == IF n < Lifetime THEN n + 1 ELSE n
Older(tok) == IF tok.kind = "token" THEN Issued(Later(tok.age)) ELSE tok

\* Where a thread has to be done within Delay ticks.
Hurried(t) == pc[t] \in {"answered", "writing", "copy", "send"}

Tick ==
  /\ \A t \in Threads : Hurried(t) => wait[t] < Delay
  /\ token' = Older(token)
  /\ sinceUpdate' = Later(sinceUpdate)
  /\ answer' = [t \in Threads |-> Older(answer[t])]
  /\ mine' = [t \in Threads |-> Older(mine[t])]
  /\ wait' = [t \in Threads |-> IF Hurried(t) THEN wait[t] + 1 ELSE wait[t]]
  /\ sinceAuth' = Later(sinceAuth)
  /\ UNCHANGED <<hasToken, mutex, constructed, pc, outcome, gap, failedAuth, raced>>

\* std::chrono::duration_cast<std::chrono::seconds>
Seconds(ticks) == ticks \div TicksPerSecond

----------------------------------------------------------------------------
(* renew_if_expired() *)

\* Mutant: updated_at is not set.
StampForgotten == UNCHANGED sinceUpdate

\* updated_at is set before etcd is asked.
Stamp == sinceUpdate' = 0

\* The mutex is kept during the call of authenticate().
BeginAuth(t, from) ==
  /\ Goto(t, from, "auth")
  /\ mutex = NoThread /\ mutex' = t
  /\ Stamp
  /\ sinceAuth' = 0 /\ gap' = sinceAuth
  /\ UNCHANGED <<hasToken, token, constructed, answer, mine, wait, outcome,
                 failedAuth, raced>>

\* Mutant: the constructor does not force the first authentication.
ConstructLazily ==
  /\ Goto(Creator, "construct", "idle")
  /\ constructed' = TRUE
  /\ UNCHANGED <<hasToken, token, sinceUpdate, mutex, answer, mine, wait, outcome,
                 history>>

\* The constructor authenticates if it was given a user and a password.
Construct ==
  \/ hasToken /\ BeginAuth(Creator, "construct")
  \/ /\ ~hasToken
     /\ Goto(Creator, "construct", "idle")
     /\ constructed' = TRUE
     /\ UNCHANGED <<hasToken, token, sinceUpdate, mutex, answer, mine, wait, outcome,
                    history>>

\* A request begins.
Call(t) ==
  /\ constructed
  /\ Goto(t, "idle", "renew")
  /\ outcome' = [outcome EXCEPT ![t] = "none"]
  /\ raced' = [raced EXCEPT ![t] = FALSE]
  /\ UNCHANGED <<client, answer, mine, wait, sinceAuth, gap, failedAuth>>

\* Mutant: what is no token does not expire.
ExpiringIfToken == token.kind = "token" /\ Seconds(sinceUpdate) > RenewAfter

\* The condition of lines 335-340 for a token that is not forced.
Expiring == token # Empty /\ Seconds(sinceUpdate) > RenewAfter

Renew(t) == hasToken /\ Expiring /\ BeginAuth(t, "renew")

\* The token is good enough, or there is nothing to renew.
NoRenewal(t) ==
  /\ hasToken => mutex = NoThread /\ ~Expiring
  /\ Goto(t, "renew", "copy")
  /\ wait' = [wait EXCEPT ![t] = 0]
  /\ UNCHANGED <<client, answer, mine, outcome, history>>

\* etcd issues a token, or refuses; the message of an error may be empty.
Answer(t, a) ==
  /\ Goto(t, "auth", "answered")
  /\ answer' = [answer EXCEPT ![t] = a]
  /\ wait' = [wait EXCEPT ![t] = 0]
  /\ failedAuth' = (failedAuth \/ a.kind # "token")
  /\ UNCHANGED <<client, mine, outcome, sinceAuth, gap, raced>>

Grant(t) == Answer(t, Issued(0))
Refuse(t) == \E a \in {Message, Empty} : Answer(t, a)

\* authenticate() overwrites token_: not at once, for a thread without the mutex.
BeginWrite(t) ==
  /\ Goto(t, "answered", "writing")
  /\ raced' = [u \in Threads |-> raced[u] \/ pc[u] = "copy"]
  /\ UNCHANGED <<client, answer, mine, wait, outcome, sinceAuth, gap, failedAuth>>

\* Mutant: updated_at is set when the answer is there.
EndWriteStamped(t) ==
  /\ Goto(t, "writing", IF constructed THEN "copy" ELSE "idle")
  /\ token' = answer[t]
  /\ sinceUpdate' = 0
  /\ mutex' = NoThread
  /\ constructed' = TRUE
  /\ wait' = [wait EXCEPT ![t] = 0]
  /\ answer' = [answer EXCEPT ![t] = Empty]
  /\ UNCHANGED <<hasToken, mine, outcome, history>>

\* Token or message, token_ has it; a failure is not reported here.
EndWrite(t) ==
  /\ Goto(t, "writing", IF constructed THEN "copy" ELSE "idle")
  /\ token' = answer[t]
  /\ mutex' = NoThread
  /\ constructed' = TRUE
  /\ wait' = [wait EXCEPT ![t] = 0]
  /\ answer' = [answer EXCEPT ![t] = Empty]
  /\ UNCHANGED <<hasToken, sinceUpdate, mine, outcome, history>>

----------------------------------------------------------------------------
(* The request. *)

\* params.auth_token.assign(renew_if_expired()), after the mutex is released: a
\* write of token_ in progress makes the copy old, new, or a mix.
Copy(t) ==
  /\ Goto(t, "copy", "send")
  /\ \E tok \in {token} \cup UNION {{answer[u], Torn} : u \in {v \in Threads : pc[v] = "writing"}} :
       mine' = [mine EXCEPT ![t] = tok]
  /\ UNCHANGED <<client, answer, wait, outcome, history>>

\* etcd looks at the token; a client without one does not meet authentication.
Judge(tok) ==
  CASE ~hasToken -> "accepted"
    [] hasToken /\ tok.kind # "token" -> "refused"
    [] hasToken /\ tok.kind = "token" ->
         IF tok.age < Lifetime THEN "accepted" ELSE "expired"

Send(t) ==
  /\ Goto(t, "send", "idle")
  /\ outcome' = [outcome EXCEPT ![t] = Judge(mine[t])]
  /\ mine' = [mine EXCEPT ![t] = Empty]
  /\ wait' = [wait EXCEPT ![t] = 0]
  /\ UNCHANGED <<client, answer, history>>

----------------------------------------------------------------------------
ThreadStep(t) ==
  \/ Renew(t) \/ NoRenewal(t)
  \/ BeginWrite(t) \/ EndWrite(t)
  \/ Copy(t) \/ Send(t)

Next ==
  \/ Tick \/ Construct
  \/ \E t \in Threads : Call(t) \/ ThreadStep(t) \/ Grant(t) \/ Refuse(t)

Spec == Init /\ [][Next]_vars

\* Time passes, the threads run and go on making requests, and etcd does not
\* refuse authentication for ever.
FairSpec ==
  /\ Spec
  /\ WF_vars(Tick) /\ WF_vars(Construct)
  /\ \A t \in Threads : WF_vars(Call(t) \/ ThreadStep(t)) /\ SF_vars(Grant(t))

----------------------------------------------------------------------------
(* Properties. *)

\* No request presents an expired token to etcd: neither the time that an
\* authentication takes, nor the rounding to seconds, nor the copy after the
\* mutex is released uses up the margin of lines 338-340.
TokenNotExpired == \A t \in Threads : outcome[t] # "expired"

\* However many threads find the token expiring, the client authenticates once
\* per period, also when the authentication has failed (line 341).
OneRenewalPerPeriod == gap >= Period

\* A request is refused only after a failed authentication, or when another
\* thread wrote token_ after this one had its reference (line 353).
RefusalHasCause ==
  \A t \in Threads : outcome[t] = "refused" => failedAuth \/ raced[t]

\* A failed authentication is repeated: its message does not stay the token of
\* the client for ever.
FailureIsRetried == token = Message ~> token # Message
=============================================================================
