--------------------------- MODULE KeyValueClient ---------------------------
(***************************************************************************)
(* The key-value functions of SyncClient (src/SyncClient.cpp) and their    *)
(* actions (src/v3/AsyncGRPC.cpp), called by threads on one store: each    *)
(* function builds a request or a transaction, waits for the reply, a      *)
(* failure or the gRPC timeout, and parses the reply into a Response.      *)
(*                                                                         *)
(* External: etcd (Serve, ServeLate).  Leases and old revisions in requests*)
(* are left out.                                                           *)
(***************************************************************************)
EXTENDS Transaction

CONSTANTS
  Threads,      \* threads that use the client
  Values,       \* values stored
  Functions,    \* the functions that they call
  MaxRevision,  \* bound: no call starts once the store has this revision
  MaxLate       \* bound: requests on their way that nobody waits for

ASSUME ValuesAreNotEmpty == "" \notin Values
ASSUME BoundsAreNat == MaxRevision \in Nat /\ MaxLate \in Nat

VARIABLES
  store,      \* etcd: key -> KV
  revision,   \* etcd: revision of the store
  calls,      \* each thread's call: its arguments, how far it is, its response
  late,       \* requests given up by their callers that etcd may still serve
  wins        \* history: successful modify_if by key and old_index

vars == <<store, revision, calls, late, wins>>

Revisions == 0 .. MaxRevision

Simple       == {"get", "put", "add", "modify", "rm"}
Prefixed     == {"ls", "ls_limit", "keys", "rmdir"}
Ranged       == {"ls_range", "rmdir_range"}
Conditional  == {"modify_if", "rm_if"}
Transactions == {"and_create", "or_create", "and_swap", "or_swap", "and_delete", "or_delete",
                 "and_rmdir", "or_rmdir", "if_none", "nested"}

ASSUME FunctionsAreKnown ==
  Functions \subseteq Simple \cup Prefixed \cup Ranged \cup Conditional \cup Transactions

\* The limit of "ls_limit".
Limit == 1

\* A call: `old' is the value (PREV_VALUE) or the revision (PREV_INDEX) that
\* the key is compared with, `to' the key that a transaction changes, or the
\* range_end of ls() and rmdir().
Call(fn, key, value, old, to) ==
  [fn |-> fn, key |-> key, value |-> value, old |-> old, to |-> to]

UserDeletes == {"and_delete", "or_delete", "and_rmdir", "or_rmdir"}

\* A condition on a value or on a revision.
Olds == {[target |-> "value", operand |-> v] : v \in Values}
          \cup {[target |-> "mod", operand |-> r] : r \in Revisions}
NoOld == [target |-> "mod", operand |-> 0]

AllCalls ==
  {Call(fn, k, v, old, to) :
     fn \in Functions, k \in Keys \cup {<<>>}, v \in Values, old \in Olds,
     to \in Keys \cup {<<>>}}

\* Arguments that a function does not have are fixed; only a prefix is empty.
Calls ==
  {c \in AllCalls :
     /\ <<>> \in {c.key, c.to} => c.fn \in Prefixed
     /\ c.fn \in Simple \cup Prefixed \cup Ranged \cup {"if_none"} => c.old = NoOld
     /\ c.fn \notin (Transactions \ {"and_swap", "or_swap"}) \cup Ranged => c.to = c.key
     /\ c.fn \in {"get", "rm", "rm_if"} \cup UserDeletes \cup Prefixed \cup Ranged =>
          c.value = (CHOOSE v \in Values : TRUE)}

----------------------------------------------------------------------------
(* Requests. *)

\* Without a comparison, a transaction of one operation is that operation.
Single(request) == add_success(NewTransaction, request)

\* AsyncSetAction, for add(): the key must not exist.
SetTxn(c) ==
  LET read == RangeRequest(c.key, <<>>, FALSE)
      new  == add_compare(NewTransaction, c.key, "mod", "EQUAL", 0, <<>>)
  IN  add_failure(add_success(add_success(new, PutRequest(c.key, c.value, FALSE)), read), read)

\* AsyncUpdateAction, for modify(): the key must exist.
UpdateTxn(c) ==
  LET read == RangeRequest(c.key, <<>>, FALSE)
      old  == add_compare(NewTransaction, c.key, "version", "GREATER", 0, <<>>)
  IN  add_failure(add_success(add_success(old, PutRequest(c.key, c.value, TRUE)), read), read)

\* Mutant: modify_if() compares the creation revision.
CompareCreate(c) ==
  add_success(setup_compare_put(c.key, IF c.old.target = "mod" THEN "create" ELSE "value",
                                "EQUAL", c.old.operand, c.key, c.value),
              RangeRequest(c.key, <<>>, FALSE))

\* AsyncCompareAndSwapAction, for modify_if().
CompareAndSwapTxn(c) ==
  add_success(setup_compare_put(c.key, c.old.target, "EQUAL", c.old.operand, c.key, c.value),
              RangeRequest(c.key, <<>>, FALSE))

\* AsyncCompareAndDeleteAction, for rm_if().
CompareAndDeleteTxn(c) ==
  setup_compare_delete(c.key, c.old.target, "EQUAL", c.old.operand, c.key, FALSE)

\* A transaction set up by the user with a setup_compare function.
SetupTxn(c) ==
  LET result == IF c.fn \in {"and_create", "and_swap", "and_delete", "and_rmdir"}
                THEN "EQUAL" ELSE "NOT_EQUAL"
  IN  IF c.fn \in UserDeletes
      THEN setup_compare_delete(c.key, c.old.target, result, c.old.operand, c.to,
                                c.fn \in {"and_rmdir", "or_rmdir"})
      ELSE setup_compare_put(c.key, c.old.target, result, c.old.operand, c.to, c.value)

\* One that compares a range: the key is created if no key up to `to' exists.
IfNoneTxn(c) ==
  add_failure(
    add_success(add_compare(NewTransaction, c.key, "version", "EQUAL", 0, c.to),
                PutRequest(c.key, c.value, FALSE)),
    RangeRequest(c.key, c.to, FALSE))

\* One with another in it: the key `to' is created, unless it exists, if the
\* comparison of the first key holds.
NestedTxn(c) ==
  LET new   == add_compare(NewTransaction, c.to, "create", "EQUAL", 0, <<>>)
      inner == add_failure(add_success(new, PutRequest(c.to, c.value, FALSE)),
                           RangeRequest(c.to, <<>>, FALSE))
  IN  setup_compare(c.key, c.old.target, "EQUAL", c.old.operand, TxnRequest(inner))

\* What is given to txn().
UserTxn(c) ==
  CASE c.fn = "if_none" -> IfNoneTxn(c)
    [] c.fn = "nested"  -> NestedTxn(c)
    [] OTHER            -> SetupTxn(c)

Request(c) ==
  CASE c.fn = "get"       -> Single(RangeRequest(c.key, <<>>, FALSE))
    [] c.fn = "ls"        -> Single(RangeRequest(c.key, <<>>, TRUE))
    [] c.fn = "ls_limit"  -> Single([RangeRequest(c.key, <<>>, TRUE) EXCEPT !.limit = Limit])
    [] c.fn = "keys"      -> Single([RangeRequest(c.key, <<>>, TRUE) EXCEPT !.keys_only = TRUE])
    [] c.fn = "ls_range"  -> Single(RangeRequest(c.key, c.to, FALSE))
    [] c.fn = "put"       -> Single(PutRequest(c.key, c.value, TRUE))
    [] c.fn = "rm"        -> Single(DeleteRequest(c.key, <<>>, FALSE, TRUE))
    [] c.fn = "rmdir"     -> Single(DeleteRequest(c.key, <<>>, TRUE, TRUE))
    [] c.fn = "rmdir_range" -> Single(DeleteRequest(c.key, c.to, FALSE, TRUE))
    [] c.fn = "add"       -> SetTxn(c)
    [] c.fn = "modify"    -> UpdateTxn(c)
    [] c.fn = "modify_if" -> CompareAndSwapTxn(c)
    [] c.fn = "rm_if"     -> CompareAndDeleteTxn(c)
    [] OTHER              -> UserTxn(c)

----------------------------------------------------------------------------
(* Responses: an error code, value(), prev_value() and values(). *)

V3Response(error, value, prev_value, values, prev_values) ==
  [error |-> error, value |-> value, prev_value |-> prev_value,
   values |-> values, prev_values |-> prev_values]

Error(error) == V3Response(error, NoKV, NoKV, <<>>, <<>>)

FirstOf(kvs) == IF kvs = <<>> THEN NoKV ELSE kvs[1]

\* AsyncRangeResponse::ParseResponse
ParseRange(resp, prefix) ==
  IF resp.kvs = <<>> /\ ~prefix THEN Error("KEY_NOT_FOUND")
  ELSE IF prefix THEN V3Response("OK", NoKV, NoKV, resp.kvs, <<>>)
  ELSE V3Response("OK", resp.kvs[1], NoKV, <<>>, <<>>)

\* AsyncPutResponse::ParseResponse
ParsePut(resp) == V3Response("OK", NoKV, resp.prev_kv, <<>>, <<resp.prev_kv>>)

\* AsyncDeleteResponse::ParseResponse
ParseDelete(resp) ==
  IF resp.prev_kvs = <<>> THEN Error("KEY_NOT_FOUND")
  ELSE V3Response("OK", resp.prev_kvs[1], resp.prev_kvs[1], resp.prev_kvs, resp.prev_kvs)

ParseOne(resp, prefix) ==
  CASE resp.type = "range"  -> ParseRange(resp, prefix)
    [] resp.type = "put"    -> ParsePut(resp)
    [] resp.type = "delete" -> ParseDelete(resp)
    [] resp.type = "txn"    -> Error("OK")

\* AsyncTxnResponse::ParseResponse: the values of all operations but nested
\* transactions; an operation that found no key is no error.
ParseTxn(reply) ==
  LET parts  == [i \in DOMAIN reply.responses |-> ParseOne(reply.responses[i], TRUE)]
      values == FlattenSeq([i \in DOMAIN parts |-> parts[i].values])
      prevs  == FlattenSeq([i \in DOMAIN parts |-> parts[i].prev_values])
  IN  V3Response("OK", FirstOf(values), FirstOf(prevs), values, prevs)

\* The ParseResponse of AsyncSetAction, AsyncCompareAndSwapAction,
\* AsyncCompareAndDeleteAction and AsyncTxnAction: what a failed comparison
\* means.  The values read by the failure branch are kept.
ParseCompared(reply, error) ==
  IF reply.succeeded THEN ParseTxn(reply) ELSE [ParseTxn(reply) EXCEPT !.error = error]

\* Mutant: the result of the comparison is not looked at.
ParseUnchecked(reply) == ParseTxn(reply)

\* AsyncUpdateAction::ParseResponse
ParseUpdate(reply) ==
  IF reply.succeeded THEN ParseTxn(reply) ELSE Error("KEY_NOT_FOUND")

Parse(c, reply) ==
  CASE c.fn \in {"ls", "ls_limit", "keys", "ls_range"} -> ParseRange(reply.responses[1], TRUE)
    [] c.fn \in {"get", "put", "rm", "rmdir", "rmdir_range"} ->
         ParseOne(reply.responses[1], FALSE)
    [] c.fn = "add"    -> ParseCompared(reply, "KEY_ALREADY_EXISTS")
    [] c.fn = "modify" -> ParseUpdate(reply)
    [] OTHER           -> ParseCompared(reply, "COMPARE_FAILED")

\* Mutant: the previous value is not copied.
PrevValueForgotten(v3) ==
  [error |-> v3.error, value |-> IF v3.values # <<>> THEN v3.values[1] ELSE v3.value,
   prev |-> NoKV, values |-> v3.values]

\* Response::Response(V3Response)
MakeResponse(v3) ==
  [error |-> v3.error, value |-> IF v3.values # <<>> THEN v3.values[1] ELSE v3.value,
   prev |-> v3.prev_value, values |-> v3.values]

----------------------------------------------------------------------------
(* Calls. *)

NoResponse == MakeResponse(Error("none"))
Idle == [at |-> "idle"]

TypeOK ==
  /\ DOMAIN store = Keys
  /\ \A k \in Keys : store[k] = NoKV \/ (store[k].key = k /\ Exists(store[k]))
  /\ revision \in Nat
  /\ DOMAIN calls = Threads
  /\ \A t \in Threads : calls[t].at \in {"idle", "sent", "served", "done"}
  /\ late \subseteq Calls /\ Cardinality(late) <= MaxLate
  /\ wins \in [Keys \X Revisions -> Nat]

Init ==
  /\ store = [k \in Keys |-> NoKV]
  /\ revision = 0
  /\ calls = [t \in Threads |-> Idle]
  /\ late = {}
  /\ wins = [w \in Keys \X Revisions |-> 0]

\* A thread calls a function, which sends the request.
Begin(t, c) ==
  /\ calls[t].at \in {"idle", "done"}
  /\ revision < MaxRevision
  /\ c.old.target = "mod" => c.old.operand <= revision
  /\ calls' = [calls EXCEPT ![t] = [at |-> "sent", call |-> c]]
  /\ UNCHANGED <<store, revision, late, wins>>

\* etcd executes the request.  `before' and `after' are history.
Serve(t) ==
  /\ calls[t].at = "sent"
  /\ LET reply == Execute(store, revision, Request(calls[t].call))
     IN  /\ store' = reply.store
         /\ revision' = reply.revision
         /\ calls' = [calls EXCEPT ![t] =
              [at |-> "served", call |-> @.call, reply |-> reply,
               before |-> store, after |-> reply.store]]
  /\ UNCHANGED <<late, wins>>

\* waitForResponse() got the reply, and ParseResponse() reads it.
Finish(t) ==
  /\ calls[t].at = "served"
  /\ LET c    == calls[t].call
         resp == MakeResponse(Parse(c, calls[t].reply))
         won  == c.fn = "modify_if" /\ c.old.target = "mod" /\ resp.error = "OK"
     IN  /\ calls' = [calls EXCEPT ![t] =
              [at |-> "done", call |-> c, response |-> resp,
               before |-> @.before, after |-> @.after]]
         /\ wins' = IF won THEN [wins EXCEPT ![<<c.key, c.old.operand>>] = @ + 1] ELSE wins
  /\ UNCHANGED <<store, revision, late>>

\* The timeout passes or the connection fails: the status is the response,
\* and the action's destructor cancels the call.  A request not served yet may
\* be served all the same.
GiveUp(t) ==
  /\ calls[t].at \in {"sent", "served"}
  /\ calls' = [calls EXCEPT ![t] = Idle]
  /\ \/ UNCHANGED late
     \/ /\ calls[t].at = "sent" /\ Cardinality(late) < MaxLate
        /\ late' = late \cup {calls[t].call}
  /\ UNCHANGED <<store, revision, wins>>

ServeLate ==
  \E c \in late :
    /\ LET reply == Execute(store, revision, Request(c))
       IN  store' = reply.store /\ revision' = reply.revision
    /\ late' = late \ {c}
    /\ UNCHANGED <<calls, wins>>

Next ==
  \/ \E t \in Threads :
       \/ \E c \in Calls : Begin(t, c)
       \/ Serve(t) \/ Finish(t) \/ GiveUp(t)
  \/ ServeLate

Spec == Init /\ [][Next]_vars

----------------------------------------------------------------------------
(* Properties.  The reference is what the comments in SyncClient.hpp and    *)
(* Transaction.hpp say of each function, except for an old_index of 0 (see  *)
(* Matches), where it is what the code does.                                *)

Done(t) == calls[t].at = "done"
Ok(t) == Done(t) /\ calls[t].response.error = "OK"

\* The key has the expected value or modification index.  A key that does not exist
\* has the index 0: with an old_index of 0 modify_if creates it and rm_if succeeds, in
\* the code (AsyncGRPC.cpp, line 412), though lines 388 and 419 of SyncClient.hpp say
\* that both fail when the key does not exist.
Matches(kv, old) ==
  IF old.target = "value" THEN Exists(kv) /\ kv.value = old.operand ELSE kv.mod = old.operand

\* The keys of a range.  To etcd, NUL as its end is no upper limit.
KeysFrom(key, to) == {k \in Keys : ~Less(k, key) /\ (to = NUL \/ Less(k, to))}

\* The keys that the function reads or changes.
Selected(c) ==
  CASE c.fn \in Prefixed -> {k \in Keys : IsPrefix(c.key, k)}
    [] c.fn \in {"and_rmdir", "or_rmdir"} -> {k \in Keys : IsPrefix(c.to, k)}
    [] c.fn \in Ranged -> KeysFrom(c.key, c.to)
    [] c.fn = "if_none" -> {c.key}
    [] OTHER -> {c.to}

\* Those that a transaction compares.
Compared(c) == IF c.fn = "if_none" THEN KeysFrom(c.key, c.to) ELSE {c.key}

\* When the function is to succeed: as documented, except for modify_if and rm_if
\* with an old_index of 0 on a key that does not exist (see Matches).  Comparing the
\* value of a key that does not exist fails, for inequality too.
Condition(c, before) ==
  /\ c.fn = "add" => ~Exists(before[c.key])
  /\ c.fn = "if_none" => \A k \in Compared(c) : ~Exists(before[k])
  /\ c.fn \in {"get", "modify", "rm", "rmdir", "rmdir_range"} =>
       \E k \in Selected(c) : Exists(before[k])
  /\ c.fn \in {"modify_if", "rm_if", "and_create", "and_swap", "and_delete", "and_rmdir",
               "nested"} =>
       Matches(before[c.key], c.old)
  /\ c.fn \in {"or_create", "or_swap", "or_delete", "or_rmdir"} =>
       /\ ~Matches(before[c.key], c.old)
       /\ c.old.target = "value" => Exists(before[c.key])

Puts    == {"put", "add", "modify", "modify_if", "and_create", "or_create", "and_swap", "or_swap",
            "if_none"}
Deletes == {"rm", "rmdir", "rmdir_range", "rm_if"} \cup UserDeletes

\* The value of a key once the function has succeeded, "" if there is none.
Intended(c, before, k) ==
  IF k \notin Selected(c) THEN before[k].value
  ELSE IF c.fn \in Puts \/ (c.fn = "nested" /\ ~Exists(before[k])) THEN c.value
  ELSE IF c.fn \in Deletes THEN ""
  ELSE before[k].value

Truthful(c, before, after, resp) ==
  IF resp.error = "OK"
  THEN Condition(c, before) /\ \A k \in Keys : after[k].value = Intended(c, before, k)
  ELSE ~Condition(c, before) /\ after = before

\* A function that reports success has met its condition and done exactly what
\* it is documented to do (with an old_index of 0, what the code does: see
\* Matches), and one that reports failure found its condition
\* unmet and changed nothing, whatever other threads do meanwhile.
ResponseIsTrue ==
  \A t \in Threads : Done(t) =>
    Truthful(calls[t].call, calls[t].before, calls[t].after, calls[t].response)

Found(c, before) == {before[k] : k \in {j \in Selected(c) : Exists(before[j])}}

\* The first pairs found, as many as "ls_limit" returns.
FirstFound(c, before) ==
  {kv \in Found(c, before) :
     Cardinality({o \in Found(c, before) : Less(o.key, kv.key)}) < Limit}

Reported(c, before, after, resp) ==
  /\ c.fn \in {"get", "add", "modify", "modify_if"} => resp.value = after[c.key]
  /\ c.fn \in {"put", "modify", "rm"} => resp.prev = before[c.key]
  /\ c.fn \in {"rm_if", "and_delete", "or_delete"} => resp.prev = before[c.to]
  /\ c.fn \in {"ls", "rmdir", "and_rmdir", "or_rmdir"} \cup Ranged =>
       ToSet(resp.values) = Found(c, before)
  /\ c.fn = "keys" =>
       ToSet(resp.values) = {[kv EXCEPT !.value = ""] : kv \in Found(c, before)}
  /\ c.fn = "ls_limit" => ToSet(resp.values) = FirstFound(c, before)

\* value() and prev_value() of a success are the pair written, read or deleted
\* and the pair it replaced, as of the moment the store was changed and not of
\* a later one.  (put and txn return no value, modify_if and txn no previous
\* one.)
ValuesReported ==
  \A t \in Threads : Ok(t) =>
    Reported(calls[t].call, calls[t].before, calls[t].after, calls[t].response)

ShowsCompared(c, before, resp) ==
  LET found == {k \in Compared(c) : Exists(before[k])}
  IN  Len(resp.values) = Cardinality(found) /\ ToSet(resp.values) = {before[k] : k \in found}

\* Transaction.hpp line 97: if the comparison of a transaction fails, values()
\* contains the key compared, if there is one.  The same for a range.
FailureShowsPrevious ==
  \A t \in Threads :
    (Done(t) /\ ~Ok(t) /\ calls[t].call.fn \in Transactions) =>
      ShowsCompared(calls[t].call, calls[t].before, calls[t].response)

\* Optimistic locking works: of all the modify_if() that expect the same
\* modification index of a key, at most one is told that it succeeded.
OneWinner == \A k \in Keys, r \in Revisions \ {0} : wins[<<k, r>>] <= 1
=============================================================================
