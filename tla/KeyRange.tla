------------------------------ MODULE KeyRange ------------------------------
(***************************************************************************)
(* Key ranges: how ls(), keys(), rmdir() and watches of a prefix are turned*)
(* into the half-open range of keys that etcd understands                  *)
(* (src/v3/Action.cpp, etcd/v3/Action.hpp).  A string is a sequence of     *)
(* bytes; keys at etcd are not empty.                                      *)
(***************************************************************************)
EXTENDS Naturals, Sequences

CONSTANT MaxByte   \* 0xff

ASSUME MaxByteIsPositive == MaxByte \in Nat \ {0}

Byte   == 0 .. MaxByte
String == Seq(Byte)
NUL    == <<0>>

\* Mutant: the last byte is incremented, and overflows.
LastPlusOne(s) == [s EXCEPT ![Len(s)] = (@ + 1) % (MaxByte + 1)]

\* The smallest string above every string that starts with s: the last byte
\* below 0xff is incremented and what follows it is cut off.  If there is
\* none, the string that stands for "no upper limit".
string_plus_one(s) ==
  LET small == {i \in DOMAIN s : s[i] < MaxByte}
      last  == CHOOSE i \in small : \A j \in small : j <= i
  IN  IF small = {} THEN NUL
      ELSE [i \in 1 .. last |-> IF i = last THEN s[i] + 1 ELSE s[i]]

\* The range of a request: one key, the keys with a prefix (an empty prefix
\* means every key), or up to the range_end given.
make_request_with_ranges(key, range_end, recursive) ==
  [key       |-> IF recursive /\ key = <<>> THEN NUL ELSE key,
   range_end |-> IF range_end # <<>> THEN range_end
                 ELSE IF ~recursive THEN <<>>
                 ELSE IF key = <<>> THEN NUL
                 ELSE string_plus_one(key)]

----------------------------------------------------------------------------
(* etcd *)

\* s is lexicographically smaller than t.
Less(s, t) ==
  \E i \in 1 .. Len(t) :
    /\ i <= Len(s) + 1
    /\ \A j \in 1 .. (i - 1) : s[j] = t[j]
    /\ i <= Len(s) => s[i] < t[i]

\* etcd selects key k for the request: the key itself without a range_end, or
\* the keys from `key' on, below range_end unless that is NUL.
InRange(req, k) ==
  IF req.range_end = <<>> THEN k = req.key
  ELSE ~Less(k, req.key) /\ (req.range_end = NUL \/ Less(k, req.range_end))
=============================================================================
