---------------------------- MODULE Transaction ----------------------------
(***************************************************************************)
(* Class Transaction (src/v3/Transaction.cpp): an etcd transaction is a    *)
(* list of comparisons and two lists of operations, of which etcd executes *)
(* the first if all comparisons hold and the second otherwise.             *)
(*                                                                         *)
(* External: Holds and Execute, which say what etcd does with one.         *)
(***************************************************************************)
EXTENDS KeyRange, SequencesExt

CONSTANT Keys   \* the keys of the store

ASSUME KeysAreStrings == Keys \subseteq String \ {<<>>}

\* A key-value pair; a key that is not in the store has the default one.
KV(k, value, create, mod, version) ==
  [key |-> k, value |-> value, create |-> create, mod |-> mod, version |-> version]
NoKV == KV(<<>>, "", 0, 0, 0)
Exists(kv) == kv.version > 0

----------------------------------------------------------------------------
(* Building a transaction. *)

NewTransaction == [compare |-> <<>>, success |-> <<>>, failure |-> <<>>]

\* add_compare_version, _create, _mod and _value, by the name of the field.
add_compare(txn, key, target, result, operand, range_end) ==
  [txn EXCEPT !.compare =
     Append(@, [range |-> [key |-> key, range_end |-> range_end],
                target |-> target, result |-> result, operand |-> operand])]

\* Requests, on their own or as operations of a transaction.
RangeRequest(key, range_end, recursive) ==
  [type |-> "range", range |-> make_request_with_ranges(key, range_end, recursive),
   limit |-> 0, keys_only |-> FALSE]
PutRequest(key, value, prev_kv) ==
  [type |-> "put", key |-> key, value |-> value, prev_kv |-> prev_kv]
DeleteRequest(key, range_end, recursive, prev_kv) ==
  [type |-> "delete", range |-> make_request_with_ranges(key, range_end, recursive),
   prev_kv |-> prev_kv]

\* A transaction as an operation of another, for add_success_txn.
TxnRequest(txn) == [type |-> "txn", txn |-> txn]

add_success(txn, request) == [txn EXCEPT !.success = Append(@, request)]
add_failure(txn, request) == [txn EXCEPT !.failure = Append(@, request)]

\* Mutant: nothing is read when the comparison fails.
setup_compare_only(key, target, result, operand, request) ==
  add_success(add_compare(NewTransaction, key, target, result, operand, <<>>), request)

\* The twelve setup_compare_{and,or}_{create,swap,delete}: `and' compares for
\* equality, `or' for inequality, with the previous value or revision; the key
\* is read when the comparison fails.
setup_compare(key, target, result, operand, request) ==
  add_failure(
    add_success(add_compare(NewTransaction, key, target, result, operand, <<>>), request),
    RangeRequest(key, <<>>, FALSE))

setup_compare_put(key, target, result, operand, to, value) ==
  setup_compare(key, target, result, operand, PutRequest(to, value, FALSE))

setup_compare_delete(key, target, result, operand, delete_key, recursive) ==
  setup_compare(key, target, result, operand, DeleteRequest(delete_key, <<>>, recursive, TRUE))

----------------------------------------------------------------------------
(* etcd *)

\* The keys of S in order.
Sorted(S) ==
  CHOOSE order \in [1 .. Cardinality(S) -> S] :
    \A i, j \in DOMAIN order : i < j => Less(order[i], order[j])

\* The pairs in a range, in the order of their keys.
InStore(store, range) ==
  LET order == Sorted({k \in Keys : InRange(range, k) /\ Exists(store[k])})
  IN  [i \in DOMAIN order |-> store[order[i]]]

\* A comparison is about every key in its range.  If there is none, a value
\* compares to nothing, and revisions and versions are 0.
Holds(store, c) ==
  LET found == ToSet(InStore(store, c.range))
  IN  /\ c.target = "value" => found # {}
      /\ \A kv \in (IF found = {} THEN {NoKV} ELSE found) :
           /\ c.result = "EQUAL"     => kv[c.target] = c.operand
           /\ c.result = "NOT_EQUAL" => kv[c.target] # c.operand
           /\ c.result = "GREATER"   => kv[c.target] > c.operand

\* What a range request returns of the pairs found.
Returned(kvs, request) ==
  LET few == IF request.limit = 0 THEN kvs
             ELSE SubSeq(kvs, 1, IF Len(kvs) < request.limit THEN Len(kvs) ELSE request.limit)
  IN  IF request.keys_only THEN [i \in DOMAIN few |-> [few[i] EXCEPT !.value = ""]] ELSE few

\* One operation: the store after it and its response.
ExecuteOne(store, revision, request) ==
  CASE request.type = "range" ->
         [store |-> store,
          response |-> [type |-> "range",
                        kvs |-> Returned(InStore(store, request.range), request)]]
    [] request.type = "put" ->
         LET old == store[request.key]
             new == KV(request.key, request.value,
                       IF Exists(old) THEN old.create ELSE revision + 1,
                       revision + 1, old.version + 1)
         IN  [store |-> [store EXCEPT ![request.key] = new],
              response |-> [type |-> "put",
                            prev_kv |-> IF request.prev_kv THEN old ELSE NoKV]]
    [] request.type = "delete" ->
         [store |-> [k \in Keys |-> IF InRange(request.range, k) THEN NoKV ELSE store[k]],
          response |-> [type |-> "delete",
                        prev_kvs |-> IF request.prev_kv THEN InStore(store, request.range)
                                                        ELSE <<>>]]

\* The store after the operations, executed in turn, and their responses.
ExecuteAll(execute(_, _), store, requests) ==
  LET after[i \in 0 .. Len(requests)] ==
        IF i = 0 THEN [store |-> store, responses |-> <<>>]
        ELSE LET before == after[i - 1]
                 one    == execute(before.store, requests[i])
             IN  [store |-> one.store, responses |-> Append(before.responses, one.response)]
  IN  after[Len(requests)]

Succeeds(store, txn) == \A i \in DOMAIN txn.compare : Holds(store, txn.compare[i])
Branch(store, txn) == IF Succeeds(store, txn) THEN txn.success ELSE txn.failure

\* An operation of a transaction on the store `original', which is also the one
\* on which the comparisons of a nested transaction are made.  (Bound: those have
\* no further ones.)
ExecuteOp(original, store, revision, request) ==
  IF request.type = "txn"
  THEN LET inner == ExecuteAll(LAMBDA st, r : ExecuteOne(st, revision, r),
                               store, Branch(original, request.txn))
       IN  [store |-> inner.store, response |-> [type |-> "txn"]]
  ELSE ExecuteOne(store, revision, request)

\* A transaction is atomic: all its operations get the same new revision.
Execute(store, revision, txn) ==
  LET final == ExecuteAll(LAMBDA st, r : ExecuteOp(store, st, revision, r),
                          store, Branch(store, txn))
  IN  [store     |-> final.store,
       revision  |-> IF final.store = store THEN revision ELSE revision + 1,
       succeeded |-> Succeeds(store, txn),
       responses |-> final.responses]
=============================================================================
