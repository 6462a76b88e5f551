------------------------ MODULE KeyValueClientProofs ------------------------
(***************************************************************************)
(* Proofs about the key-value functions, for any keys, values, threads and *)
(* mixture of functions.  What a function tells its caller is what etcd    *)
(* did at one moment, and of the modify_if() calls that expect the same    *)
(* revision of a key at most one succeeds.                                 *)
(*                                                                         *)
(* EveryCallPromised is the heart: the request that a function builds,     *)
(* executed on any store that etcd can hold, and the reply as it is parsed *)
(* make a true response.  The invariant carries that from the moment when  *)
(* etcd executes the request to the one when the thread reads the reply.   *)
(***************************************************************************)
EXTENDS KeyValueClient, FiniteSetTheorems, SequenceTheorems, TLAPS

----------------------------------------------------------------------------
(* Numbers. *)

\* A set of natural numbers has a least one: what induction over lengths and
\* sizes is replaced by.
LEMMA LeastNumber ==
  ASSUME NEW S \in SUBSET Nat, S # {}
  PROVE  \E m \in S : \A k \in S : m <= k
<1>1. PICK m \in S : \A k \in S : <<k, m>> \notin OpToRel(<, Nat)
  BY NatLessThanWellFounded, WFMin
<1>2. \A k \in S : ~(k < m)
  BY <1>1 DEF OpToRel
<1> QED BY <1>2

\* A bounded one has a greatest.
LEMMA GreatestNumber ==
  ASSUME NEW n \in Nat, NEW S \in SUBSET (0 .. n), S # {}
  PROVE  \E m \in S : \A k \in S : k <= m
<1> DEFINE T == {i \in 0 .. n : n - i \in S}
<1>1. T \in SUBSET Nat /\ T # {}
  <2>1. PICK k \in S : TRUE
    OBVIOUS
  <2>2. n - k \in 0 .. n /\ n - (n - k) = k
    OBVIOUS
  <2>3. n - k \in T /\ T \subseteq Nat
    BY <2>2
  <2> HIDE DEF T
  <2> QED BY <2>3
<1>2. PICK m \in T : \A k \in T : m <= k
  BY <1>1, LeastNumber
<1>3. ASSUME NEW k \in S PROVE k <= n - m
  <2>1. n - k \in 0 .. n /\ n - (n - k) = k
    OBVIOUS
  <2>2. m <= n - k
    BY <1>2, <2>1
  <2> QED BY <2>2
<1> QED BY <1>2, <1>3

----------------------------------------------------------------------------
(* Keys (KeyRange). *)

\* What there is to know of a string.
LEMMA StringFacts ==
  ASSUME NEW s \in String
  PROVE  /\ Len(s) \in Nat /\ DOMAIN s = 1 .. Len(s)
         /\ \A i \in 1 .. Len(s) : s[i] \in 0 .. MaxByte
<1>1. s \in Seq(Byte)
  BY DEF String
<1>2. \A i \in 1 .. Len(s) : s[i] \in Byte
  BY <1>1
<1> QED BY <1>1, <1>2 DEF Byte

\* Two strings have a first place where they differ.
LEMMA FirstDifference ==
  ASSUME NEW s \in String, NEW t \in String, s # t
  PROVE  \E d \in 1 .. (Len(s) + 1) :
           /\ d <= Len(t) + 1
           /\ \A j \in 1 .. (d - 1) : s[j] = t[j]
           /\ d <= Len(s) \/ d <= Len(t)
           /\ d <= Len(s) /\ d <= Len(t) => s[d] # t[d]
<1>0. /\ Len(s) \in Nat /\ DOMAIN s = 1 .. Len(s)
      /\ Len(t) \in Nat /\ DOMAIN t = 1 .. Len(t)
  BY DEF String
<1> DEFINE D == {d \in Nat : /\ 1 <= d /\ d <= Len(s) + 1 /\ d <= Len(t) + 1
                             /\ d <= Len(s) \/ d <= Len(t)
                             /\ d <= Len(s) /\ d <= Len(t) => s[d] # t[d]}
<1>1. D # {}
  <2>1. CASE Len(s) = Len(t)
    <3>1. \E d \in 1 .. Len(s) : s[d] # t[d]
      <4>1. SUFFICES ASSUME \A d \in 1 .. Len(s) : s[d] = t[d] PROVE s = t
        OBVIOUS
      <4> QED BY <2>1, <4>1, <1>0, SeqEqual DEF String
    <3> QED BY <3>1, <2>1, <1>0
  <2>2. CASE Len(s) < Len(t)
    <3>1. Len(s) + 1 \in D
      BY <2>2, <1>0
    <3> QED BY <3>1
  <2>3. CASE Len(t) < Len(s)
    <3>1. Len(t) + 1 \in D
      BY <2>3, <1>0
    <3> QED BY <3>1
  <2>4. ASSUME NEW m \in Nat, NEW n \in Nat PROVE m = n \/ m < n \/ n < m
    OBVIOUS
  <2> HIDE DEF D
  <2> QED BY <2>1, <2>2, <2>3, <2>4, <1>0
<1>2. PICK d \in D : \A k \in D : d <= k
  BY <1>1, LeastNumber
<1>3. ASSUME NEW j \in 1 .. (d - 1) PROVE s[j] = t[j]
  <2>1. j \notin D
    BY <1>2, <1>0
  <2> QED BY <2>1, <1>0
<1> QED BY <1>3, <1>0

\* The order of keys is strict,
LEMMA LessIsStrict ==
  ASSUME NEW s \in String, NEW t \in String, Less(s, t)
  PROVE  s # t /\ ~Less(t, s)
  BY StringFacts DEF Less

\* transitive
LEMMA LessIsTransitive ==
  ASSUME NEW s \in String, NEW t \in String, NEW u \in String, Less(s, t), Less(t, u)
  PROVE  Less(s, u)
<1> USE StringFacts
<1>1. PICK i \in 1 .. Len(t) : /\ i <= Len(s) + 1
                               /\ \A j \in 1 .. (i - 1) : s[j] = t[j]
                               /\ i <= Len(s) => s[i] < t[i]
  BY DEF Less
<1>2. PICK k \in 1 .. Len(u) : /\ k <= Len(t) + 1
                               /\ \A j \in 1 .. (k - 1) : t[j] = u[j]
                               /\ k <= Len(t) => t[k] < u[k]
  BY DEF Less
<1>3. CASE i < k
  <2>1. /\ i \in 1 .. Len(u) /\ i <= Len(s) + 1
        /\ \A j \in 1 .. (i - 1) : s[j] = u[j]
        /\ i <= Len(s) => s[i] < u[i]
    BY <1>1, <1>2, <1>3
  <2> QED BY <2>1 DEF Less
<1>4. CASE k <= i
  <2>1. /\ k <= Len(s) + 1
        /\ \A j \in 1 .. (k - 1) : s[j] = u[j]
        /\ k <= Len(s) => s[k] < u[k]
    BY <1>1, <1>2, <1>4
  <2> QED BY <2>1 DEF Less
<1> QED BY <1>3, <1>4

\* and total.
LEMMA LessIsTotal ==
  ASSUME NEW s \in String, NEW t \in String, s # t
  PROVE  Less(s, t) \/ Less(t, s)
<1> USE StringFacts
<1>1. PICK d \in 1 .. (Len(s) + 1) :
           /\ d <= Len(t) + 1
           /\ \A j \in 1 .. (d - 1) : s[j] = t[j]
           /\ d <= Len(s) \/ d <= Len(t)
           /\ d <= Len(s) /\ d <= Len(t) => s[d] # t[d]
  BY FirstDifference
<1>2. CASE d <= Len(t) /\ (d <= Len(s) => s[d] < t[d])
  BY <1>1, <1>2 DEF Less
<1>3. CASE d <= Len(s) /\ (d <= Len(t) => t[d] < s[d])
  BY <1>1, <1>3 DEF Less
<1> QED BY <1>1, <1>2, <1>3, MaxByteIsPositive

\* A prefix, byte by byte.
LEMMA PrefixMeaning ==
  ASSUME NEW p \in String, NEW k \in String
  PROVE  IsPrefix(p, k) <=> Len(p) <= Len(k) /\ \A i \in 1 .. Len(p) : p[i] = k[i]
<1>1. /\ Len(p) \in Nat /\ Len(k) \in Nat /\ p \in Seq(Byte) /\ k \in Seq(Byte)
      /\ DOMAIN p = 1 .. Len(p)
  BY DEF String
<1>2. SubSeq(p, 1, Len(p)) = p
  BY <1>1, SubSeqFull
<1>3. CASE Len(p) <= Len(k)
  <2>1. /\ SubSeq(k, 1, Len(p)) \in Seq(Byte)
        /\ Len(SubSeq(k, 1, Len(p))) = Len(p)
        /\ \A i \in 1 .. Len(p) : SubSeq(k, 1, Len(p))[i] = k[i]
    BY <1>1, <1>3
  <2>2. p = SubSeq(k, 1, Len(p)) <=> \A i \in 1 .. Len(p) : p[i] = k[i]
    BY <2>1, <1>1, SeqEqual
  <2> QED BY <1>2, <1>3, <2>2 DEF IsPrefix
<1> QED BY <1>3 DEF IsPrefix

\* string_plus_one(): every byte is the largest, or the last smaller one is
\* incremented and what follows is cut off.
LEMMA PlusOne ==
  ASSUME NEW s \in String
  PROVE  \/ /\ \A i \in 1 .. Len(s) : s[i] = MaxByte
            /\ string_plus_one(s) = NUL
         \/ \E last \in 1 .. Len(s) :
              /\ s[last] < MaxByte
              /\ \A i \in (last + 1) .. Len(s) : s[i] = MaxByte
              /\ string_plus_one(s) \in String
              /\ Len(string_plus_one(s)) = last
              /\ \A i \in 1 .. (last - 1) : string_plus_one(s)[i] = s[i]
              /\ string_plus_one(s)[last] = s[last] + 1
<1>0. /\ Len(s) \in Nat /\ DOMAIN s = 1 .. Len(s) /\ MaxByte \in Nat
      /\ \A i \in 1 .. Len(s) : s[i] \in 0 .. MaxByte
  BY StringFacts, MaxByteIsPositive
<1> DEFINE small == {i \in DOMAIN s : s[i] < MaxByte}
           last  == CHOOSE i \in small : \A j \in small : j <= i
           next  == [i \in 1 .. last |-> IF i = last THEN s[i] + 1 ELSE s[i]]
<1>1. string_plus_one(s) = IF small = {} THEN NUL ELSE next
  BY DEF string_plus_one
<1>2. CASE small = {}
  BY <1>0, <1>1, <1>2
<1>3. CASE small # {}
  <2>1. small \in SUBSET (0 .. Len(s))
    BY <1>0
  <2>2. \E i \in small : \A j \in small : j <= i
    BY <1>0, <1>3, <2>1, GreatestNumber
  <2>3. last \in small /\ \A j \in small : j <= last
    BY <2>2
  <2> HIDE DEF last
  <2>4. /\ last \in 1 .. Len(s) /\ s[last] < MaxByte
        /\ \A i \in (last + 1) .. Len(s) : s[i] = MaxByte
    BY <1>0, <2>3
  <2>5. /\ next \in String /\ Len(next) = last
        /\ \A i \in 1 .. (last - 1) : next[i] = s[i]
        /\ next[last] = s[last] + 1
    BY <1>0, <2>4 DEF String, Byte
  <2>6. string_plus_one(s) = next
    BY <1>1, <1>3
  <2> HIDE DEF next
  <2> QED BY <2>4, <2>5, <2>6
<1> QED BY <1>2, <1>3

\* The range made of a prefix selects the keys with that prefix and no other, for
\* every prefix, the empty one and those that end in the largest byte too.
THEOREM PrefixRangeIsExact ==
  ASSUME NEW p \in String, NEW k \in String, k # <<>>
  PROVE  InRange(make_request_with_ranges(p, <<>>, TRUE), k) <=> IsPrefix(p, k)
<1>0. /\ Len(p) \in Nat /\ Len(k) \in Nat /\ MaxByte \in Nat
      /\ \A i \in 1 .. Len(p) : p[i] \in 0 .. MaxByte
      /\ \A i \in 1 .. Len(k) : k[i] \in 0 .. MaxByte
      /\ Len(k) > 0
  BY StringFacts, MaxByteIsPositive DEF String
<1> DEFINE range == make_request_with_ranges(p, <<>>, TRUE)
<1>1. CASE p = <<>>
  <2>1. range = [key |-> NUL, range_end |-> NUL]
    BY <1>1 DEF make_request_with_ranges
  <2> HIDE DEF range
  <2>2. NUL # <<>> /\ Len(NUL) = 1 /\ NUL[1] = 0
    BY DEF NUL
  <2>3. InRange(range, k) <=> ~Less(k, NUL)
    BY <2>1, <2>2 DEF InRange
  <2>4. ~Less(k, NUL)
    BY <2>2, <1>0 DEF Less
  <2>5. IsPrefix(p, k)
    BY <1>1, <1>0, PrefixMeaning
  <2> QED BY <2>3, <2>4, <2>5 DEF range
<1>2. CASE p # <<>>
  <2>0. Len(p) > 0
    BY <1>2 DEF String
  <2>1. range = [key |-> p, range_end |-> string_plus_one(p)]
    BY <1>2 DEF make_request_with_ranges
  <2> HIDE DEF range
  <2>2. IsPrefix(p, k) => ~Less(k, p)
    BY <1>0, PrefixMeaning DEF Less
  <2>3. ASSUME ~IsPrefix(p, k), ~Less(k, p)
        PROVE  \E d \in 1 .. Len(p) :
                 d <= Len(k) /\ p[d] < k[d] /\ \A j \in 1 .. (d - 1) : p[j] = k[j]
    <3>1. p # k
      BY <2>3, <1>0, PrefixMeaning
    <3>2. Less(p, k)
      BY <3>1, <2>3, LessIsTotal
    <3>3. PICK i \in 1 .. Len(k) : /\ i <= Len(p) + 1
                                   /\ \A j \in 1 .. (i - 1) : p[j] = k[j]
                                   /\ i <= Len(p) => p[i] < k[i]
      BY <3>2 DEF Less
    <3>4. i <= Len(p)
      BY <3>3, <1>0, <2>3, PrefixMeaning
    <3> QED BY <3>3, <3>4
  <2>4. CASE /\ \A i \in 1 .. Len(p) : p[i] = MaxByte
             /\ string_plus_one(p) = NUL
    <3>1. InRange(range, k) <=> ~Less(k, p)
      <4>1. NUL # <<>>
        BY DEF NUL
      <4> QED BY <2>1, <2>4, <4>1 DEF InRange
    <3>2. ~Less(k, p) => IsPrefix(p, k)
      BY <2>3, <2>4, <1>0
    <3> QED BY <3>1, <3>2, <2>2 DEF range
  <2>5. ASSUME NEW last \in 1 .. Len(p),
               p[last] < MaxByte,
               \A i \in (last + 1) .. Len(p) : p[i] = MaxByte,
               string_plus_one(p) \in String,
               Len(string_plus_one(p)) = last,
               \A i \in 1 .. (last - 1) : string_plus_one(p)[i] = p[i],
               string_plus_one(p)[last] = p[last] + 1
        PROVE  InRange(range, k) <=> IsPrefix(p, k)
    <3> DEFINE q == string_plus_one(p)
    <3>1. q # <<>> /\ q # NUL
      <4>1. q[last] # 0
        BY <2>5, <1>0
      <4>2. Len(NUL) = 1 /\ NUL[1] = 0 /\ Len(<<>>) = 0
        BY DEF NUL
      <4> HIDE DEF q
      <4>3. Len(q) = last
        BY <2>5 DEF q
      <4>4. last \in Nat /\ last > 0
        BY <1>0
      <4>5. q # <<>>
        BY <4>2, <4>3, <4>4
      <4>6. ASSUME q = NUL PROVE FALSE
        <5>1. last = 1
          BY <4>2, <4>3, <4>6
        <5> QED BY <4>1, <4>2, <4>6, <5>1
      <4> QED BY <4>5, <4>6
    <3>2. InRange(range, k) <=> ~Less(k, p) /\ Less(k, q)
      BY <2>1, <3>1 DEF InRange
    <3> HIDE DEF q
    <3>3. ASSUME IsPrefix(p, k) PROVE Less(k, q)
      BY <2>5, <3>3, <1>0, PrefixMeaning DEF Less, q
    <3>4. ASSUME ~Less(k, p), Less(k, q), ~IsPrefix(p, k) PROVE FALSE
      <4>1. PICK d \in 1 .. Len(p) :
                   d <= Len(k) /\ p[d] < k[d] /\ \A j \in 1 .. (d - 1) : p[j] = k[j]
        BY <3>4, <2>3
      <4>2. PICK i \in 1 .. last : /\ i <= Len(k) + 1
                                   /\ \A j \in 1 .. (i - 1) : k[j] = q[j]
                                   /\ i <= Len(k) => k[i] < q[i]
        BY <3>4, <2>5 DEF Less, q
      <4>3. d <= last
        BY <4>1, <2>5, <1>0
      <4>4. /\ \A j \in 1 .. (last - 1) : q[j] = p[j]
            /\ q[last] = p[last] + 1
        BY <2>5 DEF q
      <4>5. CASE i < d
        BY <4>1, <4>2, <4>3, <4>4, <4>5, <1>0
      <4>6. CASE i = d
        BY <4>1, <4>2, <4>3, <4>4, <4>6, <1>0
      <4>7. CASE i > d
        BY <4>1, <4>2, <4>3, <4>4, <4>7, <1>0
      <4> QED BY <4>5, <4>6, <4>7
    <3> QED BY <3>2, <3>3, <3>4, <2>2
  <2> QED BY <2>4, <2>5, PlusOne DEF range
<1> QED BY <1>1, <1>2

\* A finite set of keys has a last one,
LEMMA LastKey ==
  ASSUME NEW T \in SUBSET String, IsFiniteSet(T), T # {}
  PROVE  \E x \in T : \A y \in T : y # x => Less(y, x)
<1> DEFINE HasLast(U) == \E x \in U : \A y \in U : y # x => Less(y, x)
           Bad == {n \in Nat : \E U \in SUBSET String : /\ IsFiniteSet(U) /\ U # {}
                                                         /\ Cardinality(U) = n
                                                         /\ ~HasLast(U)}
<1>1. SUFFICES ASSUME Bad # {} PROVE FALSE
  BY FS_CardinalityType
<1>2. PICK n \in Bad : \A m \in Bad : n <= m
  BY <1>1, LeastNumber
<1>3. PICK U \in SUBSET String : /\ IsFiniteSet(U) /\ U # {} /\ Cardinality(U) = n
                                 /\ ~HasLast(U)
  BY <1>2
<1>4. PICK x \in U : TRUE
  BY <1>3
<1> DEFINE V == U \ {x}
<1>5. IsFiniteSet(V) /\ Cardinality(V) = n - 1
  BY <1>3, <1>4, FS_RemoveElement
<1>6. V # {}
  BY <1>3, <1>4
<1>7. HasLast(V)
  <2>1. n - 1 \in Nat /\ n \in Nat
    BY <1>5, FS_CardinalityType
  <2>2. n - 1 \notin Bad
    BY <1>2, <2>1
  <2> QED BY <2>1, <2>2, <1>5, <1>6
<1>8. PICK z \in V : \A y \in V : y # z => Less(y, z)
  BY <1>7
<1>9. x # z /\ x \in String /\ z \in String
  BY <1>4, <1>8
<1>10. CASE Less(x, z)
  <2>1. \A y \in U : y # z => Less(y, z)
    BY <1>8, <1>10
  <2> QED BY <2>1, <1>3, <1>8
<1>11. CASE Less(z, x)
  <2>1. \A y \in U : y # x => Less(y, x)
    BY <1>8, <1>9, <1>11, LessIsTransitive
  <2> QED BY <2>1, <1>3, <1>4
<1> QED BY <1>9, <1>10, <1>11, LessIsTotal

\* so it can be put in order,
LEMMA OrderExists ==
  ASSUME NEW T \in SUBSET String, IsFiniteSet(T)
  PROVE  \E order \in [1 .. Cardinality(T) -> T] :
           \A i, j \in DOMAIN order : i < j => Less(order[i], order[j])
<1> DEFINE HasOrder(U) == \E order \in [1 .. Cardinality(U) -> U] :
                            \A i, j \in DOMAIN order : i < j => Less(order[i], order[j])
           Bad == {n \in Nat : \E U \in SUBSET String : /\ IsFiniteSet(U)
                                                         /\ Cardinality(U) = n
                                                         /\ ~HasOrder(U)}
<1>1. SUFFICES ASSUME Bad # {} PROVE FALSE
  BY FS_CardinalityType
<1>2. PICK n \in Bad : \A m \in Bad : n <= m
  BY <1>1, LeastNumber
<1>3. PICK U \in SUBSET String : IsFiniteSet(U) /\ Cardinality(U) = n /\ ~HasOrder(U)
  BY <1>2
<1>4. CASE U = {}
  <2> DEFINE order == [i \in 1 .. 0 |-> i]
  <2>1. order \in [1 .. 0 -> U] /\ DOMAIN order = {}
    OBVIOUS
  <2>2. Cardinality(U) = 0
    BY <1>4, FS_EmptySet
  <2> QED BY <1>3, <2>1, <2>2
<1>5. CASE U # {}
  <2>1. PICK x \in U : \A y \in U : y # x => Less(y, x)
    BY <1>3, <1>5, LastKey
  <2> DEFINE V == U \ {x}
  <2>2. IsFiniteSet(V) /\ Cardinality(V) = n - 1 /\ n - 1 \in Nat /\ n \in Nat
    <3>1. IsFiniteSet(V) /\ Cardinality(V) = n - 1
      BY <1>3, <2>1, FS_RemoveElement
    <3> QED BY <3>1, FS_CardinalityType
  <2>3. HasOrder(V)
    <3>1. n - 1 \notin Bad
      BY <1>2, <2>2
    <3> QED BY <3>1, <2>2
  <2>4. PICK o \in [1 .. (n - 1) -> V] : \A i, j \in 1 .. (n - 1) : i < j => Less(o[i], o[j])
    BY <2>2, <2>3
  <2> DEFINE order == [i \in 1 .. n |-> IF i = n THEN x ELSE o[i]]
  <2>5. order \in [1 .. Cardinality(U) -> U]
    BY <1>3, <2>1, <2>2, <2>4
  <2>6. ASSUME NEW i \in 1 .. n, NEW j \in 1 .. n, i < j PROVE Less(order[i], order[j])
    <3>1. i \in 1 .. (n - 1) /\ order[i] = o[i] /\ o[i] \in U /\ o[i] # x
      BY <2>2, <2>4, <2>6
    <3>2. CASE j = n
      BY <3>1, <3>2, <2>1, <2>2
    <3>3. CASE j # n
      <4>1. j \in 1 .. (n - 1) /\ order[j] = o[j]
        BY <3>3, <2>2
      <4> QED BY <3>1, <4>1, <2>4, <2>6
    <3> QED BY <3>2, <3>3
  <2> QED BY <1>3, <2>5, <2>6
<1> QED BY <1>4, <1>5

----------------------------------------------------------------------------
(* The store of etcd (Transaction). *)

\* and Sorted() does.
LEMMA SortedFacts ==
  ASSUME NEW T \in SUBSET Keys, IsFiniteSet(T)
  PROVE  /\ Sorted(T) \in [1 .. Cardinality(T) -> T]
         /\ \A i, j \in 1 .. Cardinality(T) : i < j => Less(Sorted(T)[i], Sorted(T)[j])
         /\ \A x \in T : \E i \in 1 .. Cardinality(T) : Sorted(T)[i] = x
<1> DEFINE n == Cardinality(T)
           o  == Sorted(T)
<1>0. T \subseteq String /\ n \in Nat
  BY KeysAreStrings, FS_CardinalityType
<1>1. /\ o \in [1 .. n -> T]
      /\ \A i, j \in DOMAIN o : i < j => Less(o[i], o[j])
  BY <1>0, OrderExists DEF Sorted
<1> HIDE DEF n, o
<1>2. IsFiniteSet(1 .. n) /\ Cardinality(1 .. n) = n
  BY <1>0, FS_Interval
<1>3. ASSUME NEW i \in 1 .. n, NEW j \in 1 .. n, o[i] = o[j] PROVE i = j
  <2>1. o[i] \in String /\ o[j] \in String
    BY <1>0, <1>1
  <2>2. ~(i < j) /\ ~(j < i)
    BY <1>1, <1>3, <2>1, LessIsStrict
  <2> QED BY <1>0, <2>2
<1>4. o \in Injection(1 .. n, T)
  BY <1>1, <1>3 DEF Injection, IsInjective
<1>5. o \in Surjection(1 .. n, T)
  BY <1>2, <1>4, FS_Injection DEF n
<1>6. \A x \in T : \E i \in 1 .. n : o[i] = x
  BY <1>5 DEF Surjection
<1> QED BY <1>1, <1>6 DEF n, o

\* The pairs that etcd can hold, and NoKV.
KVs == [key : String, value : Values \cup {""}, create : Nat, mod : Nat, version : Nat]

\* The keys of the store.
Present(st) == {k \in Keys : Exists(st[k])}

\* A store of etcd at a revision: what its pairs are, and that none is newer.
StoreOK(st, rev) ==
  /\ st \in [Keys -> KVs]
  /\ \A k \in Present(st) : /\ st[k].key = k /\ st[k].value \in Values
                            /\ st[k].create > 0 /\ st[k].mod \in 1 .. rev
  /\ \A k \in Keys \ Present(st) : st[k] = NoKV
  /\ IsFiniteSet(Present(st))

\* The keys of the store in a range.
FoundIn(st, range) == {k \in Keys : InRange(range, k) /\ Exists(st[k])}

\* The pairs of a range are those of the store, in order, each once.
LEMMA InStoreFacts ==
  ASSUME NEW st, NEW rev \in Nat, StoreOK(st, rev), NEW range
  PROVE  LET found == FoundIn(st, range)
             kvs   == InStore(st, range)
         IN  /\ IsFiniteSet(found)
             /\ kvs \in Seq(KVs) /\ Len(kvs) = Cardinality(found)
             /\ ToSet(kvs) = {st[k] : k \in found}
             /\ kvs = <<>> <=> found = {}
             /\ \A i \in 1 .. Len(kvs) : kvs[i].key \in found /\ kvs[i] = st[kvs[i].key]
             /\ \A i, j \in 1 .. Len(kvs) : i < j => Less(kvs[i].key, kvs[j].key)
<1> DEFINE found == FoundIn(st, range)
           kvs   == InStore(st, range)
           n     == Cardinality(found)
           order == Sorted(found)
<1>1. found \subseteq Present(st) /\ found \subseteq Keys
  BY DEF FoundIn, Present
<1>2. IsFiniteSet(found) /\ n \in Nat
  BY <1>1, FS_Subset, FS_CardinalityType DEF StoreOK
<1>3. /\ order \in [1 .. n -> found]
      /\ \A i, j \in 1 .. n : i < j => Less(order[i], order[j])
      /\ \A x \in found : \E i \in 1 .. n : order[i] = x
  BY <1>1, <1>2, SortedFacts
<1>4. kvs = [i \in DOMAIN order |-> st[order[i]]]
  BY DEF InStore, FoundIn
<1>5. n = 0 <=> found = {}
  BY <1>2, FS_EmptySet
<1> HIDE DEF found, kvs, order, n
<1>6. \A k \in found : st[k] \in KVs /\ st[k].key = k
  BY <1>1 DEF StoreOK
<1>7. kvs = [i \in 1 .. n |-> st[order[i]]]
  BY <1>3, <1>4
<1>8. kvs \in Seq(KVs) /\ Len(kvs) = n
  BY <1>2, <1>3, <1>6, <1>7
<1>9. \A i \in 1 .. n : kvs[i] = st[order[i]] /\ order[i] \in found /\ kvs[i].key = order[i]
  BY <1>3, <1>6, <1>7
<1>10. ToSet(kvs) = {st[k] : k \in found}
  <2>1. DOMAIN kvs = 1 .. n
    BY <1>7
  <2> QED BY <2>1, <1>3, <1>9 DEF ToSet
<1>11. kvs = <<>> <=> found = {}
  BY <1>5, <1>8, <1>2
<1>12. \A i, j \in 1 .. n : i < j => Less(kvs[i].key, kvs[j].key)
  BY <1>3, <1>9
<1> QED BY <1>2, <1>8, <1>9, <1>10, <1>11, <1>12 DEF found, kvs, n

\* The range of one key,
LEMMA KeyInStore ==
  ASSUME NEW st, NEW rev \in Nat, StoreOK(st, rev), NEW k \in Keys
  PROVE  InStore(st, make_request_with_ranges(k, <<>>, FALSE)) =
           IF Exists(st[k]) THEN <<st[k]>> ELSE <<>>
<1> DEFINE range == make_request_with_ranges(k, <<>>, FALSE)
           kvs   == InStore(st, range)
           found == FoundIn(st, range)
<1>1. range = [key |-> k, range_end |-> <<>>]
  BY DEF make_request_with_ranges
<1> HIDE DEF range
<1>2. found = IF Exists(st[k]) THEN {k} ELSE {}
  BY <1>1 DEF FoundIn, InRange
<1>3. /\ kvs \in Seq(KVs) /\ Len(kvs) = Cardinality(found)
      /\ kvs = <<>> <=> found = {}
      /\ \A i \in 1 .. Len(kvs) : kvs[i].key \in found /\ kvs[i] = st[kvs[i].key]
  BY InStoreFacts
<1> HIDE DEF found, kvs
<1>4. CASE Exists(st[k])
  <2>0. found = {k}
    BY <1>2, <1>4
  <2>1. Len(kvs) = 1
    BY <2>0, <1>3, FS_Singleton
  <2>2. kvs[1] = st[k]
    <3>1. kvs[1].key \in found /\ kvs[1] = st[kvs[1].key]
      BY <1>3, <2>1
    <3> QED BY <2>0, <3>1
  <2>3. kvs = <<kvs[1]>>
    BY <1>3, <2>1
  <2> QED BY <1>4, <2>2, <2>3 DEF kvs, range
<1>5. CASE ~Exists(st[k])
  BY <1>2, <1>3, <1>5 DEF kvs, range
<1> QED BY <1>4, <1>5

\* of a prefix,
LEMMA PrefixSelected ==
  ASSUME NEW p \in String, NEW k \in Keys
  PROVE  InRange(make_request_with_ranges(p, <<>>, TRUE), k) <=> IsPrefix(p, k)
  BY PrefixRangeIsExact, KeysAreStrings

\* and of two keys.
LEMMA RangeSelected ==
  ASSUME NEW key \in String, NEW to \in String, to # <<>>, NEW k \in Keys
  PROVE  InRange(make_request_with_ranges(key, to, FALSE), k) <=> k \in KeysFrom(key, to)
<1> DEFINE range == make_request_with_ranges(key, to, FALSE)
<1>1. range = [key |-> key, range_end |-> to]
  BY DEF make_request_with_ranges
<1> HIDE DEF range
<1>2. range.key = key /\ range.range_end = to
  BY <1>1
<1>3. InRange(range, k) <=> ~Less(k, key) /\ (to = NUL \/ Less(k, to))
  BY <1>2 DEF InRange
<1> QED BY <1>3 DEF KeysFrom, range

----------------------------------------------------------------------------
(* Comparisons. *)

\* A comparison of a transaction.
Comparison(key, to, target, result, operand) ==
  [range |-> [key |-> key, range_end |-> to], target |-> target, result |-> result,
   operand |-> operand]

\* Comparing a key compares the pair that it has.
LEMMA KeyCompared ==
  ASSUME NEW st, NEW rev \in Nat, StoreOK(st, rev), NEW k \in Keys,
         NEW target, NEW result, NEW operand
  PROVE  Holds(st, Comparison(k, <<>>, target, result, operand)) <=>
           /\ target = "value" => Exists(st[k])
           /\ result = "EQUAL"     => st[k][target] = operand
           /\ result = "NOT_EQUAL" => st[k][target] # operand
           /\ result = "GREATER"   => st[k][target] > operand
<1> DEFINE c == Comparison(k, <<>>, target, result, operand)
           found == ToSet(InStore(st, c.range))
<1>1. /\ c.range = make_request_with_ranges(k, <<>>, FALSE)
      /\ c.target = target /\ c.result = result /\ c.operand = operand
  BY DEF Comparison, make_request_with_ranges
<1>2. InStore(st, c.range) = IF Exists(st[k]) THEN <<st[k]>> ELSE <<>>
  BY <1>1, KeyInStore
<1>3. found = IF Exists(st[k]) THEN {st[k]} ELSE {}
  BY <1>2 DEF ToSet
<1>4. ~Exists(st[k]) => st[k] = NoKV
  BY DEF StoreOK, Present
<1>5. (IF found = {} THEN {NoKV} ELSE found) = {st[k]}
  BY <1>3, <1>4
<1>6. Holds(st, c) <=>
        /\ c.target = "value" => found # {}
        /\ \A kv \in (IF found = {} THEN {NoKV} ELSE found) :
             /\ c.result = "EQUAL"     => kv[c.target] = c.operand
             /\ c.result = "NOT_EQUAL" => kv[c.target] # c.operand
             /\ c.result = "GREATER"   => kv[c.target] > c.operand
  BY DEF Holds
<1> HIDE DEF c, found
<1> QED BY <1>1, <1>3, <1>5, <1>6 DEF c

\* Comparing the version of a range with 0: none of its keys exists.
LEMMA RangeCompared ==
  ASSUME NEW st, NEW rev \in Nat, StoreOK(st, rev), NEW key \in Keys, NEW to \in Keys
  PROVE  Holds(st, Comparison(key, to, "version", "EQUAL", 0)) <=>
           \A k \in KeysFrom(key, to) : ~Exists(st[k])
<1> DEFINE c == Comparison(key, to, "version", "EQUAL", 0)
           found == ToSet(InStore(st, c.range))
           pairs == IF found = {} THEN {NoKV} ELSE found
<1>1. /\ c.range = make_request_with_ranges(key, to, FALSE)
      /\ c.target = "version" /\ c.result = "EQUAL" /\ c.operand = 0
  BY KeysAreStrings DEF Comparison, make_request_with_ranges
<1>2. found = {st[k] : k \in FoundIn(st, c.range)}
  BY InStoreFacts
<1>3. FoundIn(st, c.range) = {k \in KeysFrom(key, to) : Exists(st[k])}
  <2>1. key \in String /\ to \in String /\ to # <<>>
    BY KeysAreStrings
  <2>2. \A k \in Keys : InRange(c.range, k) <=> k \in KeysFrom(key, to)
    BY <1>1, <2>1, RangeSelected
  <2>3. KeysFrom(key, to) \subseteq Keys
    BY DEF KeysFrom
  <2> HIDE DEF c
  <2> QED BY <2>2, <2>3 DEF FoundIn
<1>4. Holds(st, c) <=> \A kv \in pairs : kv.version = 0
  BY <1>1 DEF Holds
<1> HIDE DEF c, found
<1>5. CASE found = {}
  <2>1. Holds(st, c)
    BY <1>4, <1>5 DEF NoKV, KV
  <2>2. FoundIn(st, c.range) = {}
    BY <1>2, <1>5
  <2> QED BY <2>1, <2>2, <1>3 DEF c
<1>6. CASE found # {}
  <2>1. PICK k \in KeysFrom(key, to) : Exists(st[k]) /\ st[k] \in found
    BY <1>2, <1>3, <1>6
  <2> QED BY <2>1, <1>4, <1>6 DEF Exists, c
<1> QED BY <1>5, <1>6

----------------------------------------------------------------------------
(* Executing requests. *)

\* Executing a branch of one operation,
LEMMA OneOperation ==
  ASSUME NEW st, NEW rev, NEW txn, NEW a, Branch(st, txn) = <<a>>
  PROVE  LET one == ExecuteOp(st, st, rev, a)
         IN  Execute(st, rev, txn) =
               [store     |-> one.store,
                revision  |-> IF one.store = st THEN rev ELSE rev + 1,
                succeeded |-> Succeeds(st, txn),
                responses |-> <<one.response>>]
<1> DEFINE
      requests   == Branch(st, txn)
      base       == [store |-> st, responses |-> <<>>]
      next(h, i) == LET one == ExecuteOp(st, h.store, rev, requests[i])
                    IN  [store |-> one.store, responses |-> Append(h.responses, one.response)]
      F(h)       == [i \in 0 .. Len(requests) |-> IF i = 0 THEN base ELSE next(h[i - 1], i)]
      after      == CHOOSE h : h = F(h)
<1>1. Len(requests) = 1 /\ requests[1] = a
  OBVIOUS
<1>2. LET final == after[Len(requests)]
      IN  Execute(st, rev, txn) =
            [store     |-> final.store,
             revision  |-> IF final.store = st THEN rev ELSE rev + 1,
             succeeded |-> Succeeds(st, txn),
             responses |-> final.responses]
  BY Zenon DEF Execute, ExecuteAll
<1> HIDE DEF next, base, requests
<1>3. after = F(after)
  <2> DEFINE h == [i \in 0 .. 1 |-> IF i = 0 THEN base ELSE next(base, 1)]
  <2>1. h = F(h)
    BY <1>1
  <2> QED BY <2>1
<1> HIDE DEF after
<1>4. after[1] = next(base, 1)
  BY <1>1, <1>3
<1>5. LET one == ExecuteOp(st, st, rev, a)
      IN  next(base, 1) = [store |-> one.store, responses |-> <<one.response>>]
  BY <1>1 DEF next, base
<1> QED BY <1>1, <1>2, <1>4, <1>5

\* of two.
LEMMA TwoOperations ==
  ASSUME NEW st, NEW rev, NEW txn, NEW a, NEW b, Branch(st, txn) = <<a, b>>
  PROVE  LET one == ExecuteOp(st, st, rev, a)
             two == ExecuteOp(st, one.store, rev, b)
         IN  Execute(st, rev, txn) =
               [store     |-> two.store,
                revision  |-> IF two.store = st THEN rev ELSE rev + 1,
                succeeded |-> Succeeds(st, txn),
                responses |-> <<one.response, two.response>>]
<1> DEFINE
      requests   == Branch(st, txn)
      base       == [store |-> st, responses |-> <<>>]
      next(h, i) == LET one == ExecuteOp(st, h.store, rev, requests[i])
                    IN  [store |-> one.store, responses |-> Append(h.responses, one.response)]
      F(h)       == [i \in 0 .. Len(requests) |-> IF i = 0 THEN base ELSE next(h[i - 1], i)]
      after      == CHOOSE h : h = F(h)
<1>1. Len(requests) = 2 /\ requests[1] = a /\ requests[2] = b
  OBVIOUS
<1>2. LET final == after[Len(requests)]
      IN  Execute(st, rev, txn) =
            [store     |-> final.store,
             revision  |-> IF final.store = st THEN rev ELSE rev + 1,
             succeeded |-> Succeeds(st, txn),
             responses |-> final.responses]
  BY Zenon DEF Execute, ExecuteAll
<1> HIDE DEF next, base, requests
<1>3. after = F(after)
  <2> DEFINE h == [i \in 0 .. 2 |-> IF i = 0 THEN base
                                    ELSE IF i = 1 THEN next(base, 1)
                                    ELSE next(next(base, 1), 2)]
  <2>1. h = F(h)
    BY <1>1
  <2> QED BY <2>1
<1> HIDE DEF after
<1>4. after[2] = next(next(base, 1), 2)
  BY <1>1, <1>3
<1>5. LET one == ExecuteOp(st, st, rev, a)
      IN  next(base, 1) = [store |-> one.store, responses |-> <<one.response>>]
  BY <1>1 DEF next, base
<1>6. LET one == ExecuteOp(st, st, rev, a)
          two == ExecuteOp(st, one.store, rev, b)
      IN  next(next(base, 1), 2) =
            [store |-> two.store, responses |-> <<one.response, two.response>>]
  <2> DEFINE one == ExecuteOp(st, st, rev, a)
             two == ExecuteOp(st, one.store, rev, b)
             mid == [store |-> one.store, responses |-> <<one.response>>]
  <2> HIDE DEF one, two
  <2>1. next(mid, 2) = [store     |-> ExecuteOp(st, one.store, rev, b).store,
                        responses |-> Append(<<one.response>>,
                                             ExecuteOp(st, one.store, rev, b).response)]
    BY <1>1 DEF next
  <2>2. next(mid, 2) = [store |-> two.store, responses |-> <<one.response, two.response>>]
    BY <2>1 DEF two
  <2> QED BY <1>5, <2>2 DEF one, two
<1> QED BY <1>1, <1>2, <1>4, <1>6

\* The store once a key was put, or a range deleted.
Written(st, rev, k, value) ==
  [st EXCEPT ![k] = KV(k, value, IF Exists(st[k]) THEN st[k].create ELSE rev + 1,
                       rev + 1, st[k].version + 1)]

Removed(st, range) == [k \in Keys |-> IF InRange(range, k) THEN NoKV ELSE st[k]]

\* What a read of a range returns.
LEMMA RangeExecuted ==
  ASSUME NEW st, NEW orig, NEW rev, NEW request, request.type = "range"
  PROVE  ExecuteOp(orig, st, rev, request) =
           [store    |-> st,
            response |-> [type |-> "range",
                          kvs  |-> Returned(InStore(st, request.range), request)]]
  BY DEF ExecuteOp, ExecuteOne

\* A request on its own is a transaction without comparisons.
LEMMA SingleReply ==
  ASSUME NEW st, NEW rev, NEW request
  PROVE  LET one == ExecuteOp(st, st, rev, request)
         IN  Execute(st, rev, Single(request)) =
               [store     |-> one.store,
                revision  |-> IF one.store = st THEN rev ELSE rev + 1,
                succeeded |-> TRUE,
                responses |-> <<one.response>>]
<1>1. Single(request) = [compare |-> <<>>, success |-> <<request>>, failure |-> <<>>]
  BY DEF Single, add_success, NewTransaction
<1>2. Succeeds(st, Single(request)) = TRUE
  BY <1>1 DEF Succeeds
<1>3. Branch(st, Single(request)) = <<request>>
  BY <1>1, <1>2 DEF Branch
<1> QED BY <1>2, <1>3, OneOperation

----------------------------------------------------------------------------
(* Building transactions. *)

\* A transaction of one comparison.
Txn(comparison, success, failure) ==
  [compare |-> <<comparison>>, success |-> success, failure |-> failure]

\* It executes what its comparison says.
LEMMA TxnBranch ==
  ASSUME NEW st, NEW comparison, NEW success, NEW failure
  PROVE  LET txn == Txn(comparison, success, failure)
         IN  /\ Succeeds(st, txn) = Holds(st, comparison)
             /\ Branch(st, txn) = IF Holds(st, comparison) THEN success ELSE failure
  BY DEF Txn, Succeeds, Branch, Holds

\* Appending to an empty list, and to one of one element.
LEMMA Appending ==
  ASSUME NEW x, NEW y
  PROVE  Append(<<>>, x) = <<x>> /\ Append(<<x>>, y) = <<x, y>>
<1>1. /\ <<x>> \in Seq({x, y}) /\ <<x, y>> \in Seq({x, y})
      /\ Len(<<x>>) = 1 /\ Len(<<x, y>>) = 2
  OBVIOUS
<1>2. /\ Append(<<x>>, y) \in Seq({x, y}) /\ Len(Append(<<x>>, y)) = 2
      /\ Append(<<x>>, y)[1] = x /\ Append(<<x>>, y)[2] = y
  BY <1>1
<1>3. \A i \in 1 .. 2 : Append(<<x>>, y)[i] = <<x, y>>[i]
  BY <1>2
<1>4. Append(<<>>, x) = <<x>>
  OBVIOUS
<1> QED BY <1>1, <1>2, <1>3, <1>4, SeqEqual

\* The lists that add_success makes of an empty one
LEMMA AddingOne ==
  ASSUME NEW c, NEW failure, NEW a
  PROVE  add_success([compare |-> c, success |-> <<>>, failure |-> failure], a) =
           [compare |-> c, success |-> <<a>>, failure |-> failure]
<1>1. add_success([compare |-> c, success |-> <<>>, failure |-> failure], a) =
        [compare |-> c, success |-> Append(<<>>, a), failure |-> failure]
  BY DEF add_success
<1>2. Append(<<>>, a) = <<a>>
  BY Appending
<1> QED BY <1>1, <1>2, Zenon

\* and of one operation,
LEMMA AddingTwo ==
  ASSUME NEW c, NEW failure, NEW a, NEW b
  PROVE  add_success([compare |-> c, success |-> <<a>>, failure |-> failure], b) =
           [compare |-> c, success |-> <<a, b>>, failure |-> failure]
<1>1. add_success([compare |-> c, success |-> <<a>>, failure |-> failure], b) =
        [compare |-> c, success |-> Append(<<a>>, b), failure |-> failure]
  BY DEF add_success
<1>2. Append(<<a>>, b) = <<a, b>>
  BY Appending
<1> QED BY <1>1, <1>2, Zenon

\* that add_failure
LEMMA AddingToFailure ==
  ASSUME NEW c, NEW success, NEW a
  PROVE  add_failure([compare |-> c, success |-> success, failure |-> <<>>], a) =
           [compare |-> c, success |-> success, failure |-> <<a>>]
<1>1. add_failure([compare |-> c, success |-> success, failure |-> <<>>], a) =
           [compare |-> c, success |-> success, failure |-> Append(<<>>, a)]
  BY DEF add_failure
<1>2. Append(<<>>, a) = <<a>>
  BY Appending
<1> QED BY <1>1, <1>2, Zenon

\* and add_compare make: a comparison and an operation in each branch,
LEMMA ComparingOne ==
  ASSUME NEW k, NEW to, NEW target, NEW result, NEW operand, NEW a, NEW d
  PROVE  add_failure(add_success(add_compare(NewTransaction, k, target, result, operand, to), a),
                     d) =
           Txn(Comparison(k, to, target, result, operand), <<a>>, <<d>>)
<1> DEFINE start == add_compare(NewTransaction, k, target, result, operand, to)
           c     == Comparison(k, to, target, result, operand)
<1> HIDE DEF start, c
<1>1. start = [compare |-> <<c>>, success |-> <<>>, failure |-> <<>>]
  BY DEF add_compare, NewTransaction, Comparison, start, c
<1>2. add_success(start, a) = [compare |-> <<c>>, success |-> <<a>>, failure |-> <<>>]
  BY <1>1, AddingOne, Zenon
<1>3. add_failure(add_success(start, a), d) = Txn(c, <<a>>, <<d>>)
  BY <1>2, AddingToFailure, Zenon DEF Txn
<1> QED BY <1>3 DEF start, c

\* two operations in the first,
LEMMA ComparingTwo ==
  ASSUME NEW k, NEW to, NEW target, NEW result, NEW operand, NEW a, NEW b, NEW d
  PROVE  add_failure(add_success(add_success(
           add_compare(NewTransaction, k, target, result, operand, to), a), b), d) =
           Txn(Comparison(k, to, target, result, operand), <<a, b>>, <<d>>)
<1> DEFINE start == add_compare(NewTransaction, k, target, result, operand, to)
           c     == Comparison(k, to, target, result, operand)
<1>1. start = [compare |-> <<c>>, success |-> <<>>, failure |-> <<>>]
  BY DEF add_compare, NewTransaction, Comparison
<1> HIDE DEF start, c
<1>2. add_success(start, a) = [compare |-> <<c>>, success |-> <<a>>, failure |-> <<>>]
  BY <1>1, AddingOne, Zenon
<1>3. add_success(add_success(start, a), b) =
        [compare |-> <<c>>, success |-> <<a, b>>, failure |-> <<>>]
  BY <1>2, AddingTwo, SMTT(60)
<1>4. add_failure(add_success(add_success(start, a), b), d) = Txn(c, <<a, b>>, <<d>>)
  BY <1>3, AddingToFailure, Zenon DEF Txn
<1> QED BY <1>4 DEF start, c

\* the second of them added last.
LEMMA ComparingLast ==
  ASSUME NEW k, NEW to, NEW target, NEW result, NEW operand, NEW a, NEW b, NEW d
  PROVE  add_success(add_failure(add_success(
           add_compare(NewTransaction, k, target, result, operand, to), a), d), b) =
           Txn(Comparison(k, to, target, result, operand), <<a, b>>, <<d>>)
<1> DEFINE txn == add_failure(add_success(
                    add_compare(NewTransaction, k, target, result, operand, to), a), d)
           c   == Comparison(k, to, target, result, operand)
<1>1. txn = Txn(c, <<a>>, <<d>>)
  BY ComparingOne
<1> HIDE DEF txn, c
<1>2. add_success(txn, b) = Txn(c, <<a, b>>, <<d>>)
  BY <1>1, AddingTwo, SMTT(60) DEF Txn
<1> QED BY <1>2 DEF txn, c

\* What the setup_compare functions build.
LEMMA SetupShape ==
  ASSUME NEW key, NEW target, NEW result, NEW operand, NEW request
  PROVE  setup_compare(key, target, result, operand, request) =
           Txn(Comparison(key, <<>>, target, result, operand), <<request>>,
               <<RangeRequest(key, <<>>, FALSE)>>)
<1> DEFINE read == RangeRequest(key, <<>>, FALSE)
<1>1. setup_compare(key, target, result, operand, request) =
        add_failure(add_success(add_compare(NewTransaction, key, target, result, operand, <<>>),
                                request), read)
  BY DEF setup_compare
<1>2. add_failure(add_success(add_compare(NewTransaction, key, target, result, operand, <<>>),
                              request), read) =
        Txn(Comparison(key, <<>>, target, result, operand), <<request>>, <<read>>)
  <2> HIDE DEF read
  <2> QED BY ComparingOne
<1> QED BY <1>1, <1>2, Zenon

\* The transactions of add(), modify(), modify_if() and rm_if().
LEMMA TxnShapes ==
  ASSUME NEW c
  PROVE  LET read == RangeRequest(c.key, <<>>, FALSE)
             old  == Comparison(c.key, <<>>, c.old.target, "EQUAL", c.old.operand)
         IN  /\ SetTxn(c) = Txn(Comparison(c.key, <<>>, "mod", "EQUAL", 0),
                                <<PutRequest(c.key, c.value, FALSE), read>>, <<read>>)
             /\ UpdateTxn(c) = Txn(Comparison(c.key, <<>>, "version", "GREATER", 0),
                                   <<PutRequest(c.key, c.value, TRUE), read>>, <<read>>)
             /\ CompareAndSwapTxn(c) =
                  Txn(old, <<PutRequest(c.key, c.value, FALSE), read>>, <<read>>)
             /\ CompareAndDeleteTxn(c) =
                  Txn(old, <<DeleteRequest(c.key, <<>>, FALSE, TRUE)>>, <<read>>)
<1> DEFINE read == RangeRequest(c.key, <<>>, FALSE)
           put  == PutRequest(c.key, c.value, FALSE)
           old  == Comparison(c.key, <<>>, c.old.target, "EQUAL", c.old.operand)
<1>1. SetTxn(c) = Txn(Comparison(c.key, <<>>, "mod", "EQUAL", 0), <<put, read>>, <<read>>)
  <2>1. SetTxn(c) =
          add_failure(add_success(add_success(
            add_compare(NewTransaction, c.key, "mod", "EQUAL", 0, <<>>), put), read), read)
    BY Zenon DEF SetTxn
  <2> HIDE DEF put, read
  <2> QED BY <2>1, ComparingTwo
<1>2. UpdateTxn(c) = Txn(Comparison(c.key, <<>>, "version", "GREATER", 0),
                         <<PutRequest(c.key, c.value, TRUE), read>>, <<read>>)
  <2> DEFINE previous == PutRequest(c.key, c.value, TRUE)
  <2>1. UpdateTxn(c) =
          add_failure(add_success(add_success(
            add_compare(NewTransaction, c.key, "version", "GREATER", 0, <<>>), previous),
            read), read)
    BY Zenon DEF UpdateTxn
  <2> HIDE DEF previous, read
  <2>2. UpdateTxn(c) =
          Txn(Comparison(c.key, <<>>, "version", "GREATER", 0), <<previous, read>>, <<read>>)
    BY <2>1, ComparingTwo
  <2> QED BY <2>2, Zenon DEF previous
<1>3. CompareAndSwapTxn(c) = Txn(old, <<put, read>>, <<read>>)
  <2>1. CompareAndSwapTxn(c) =
          add_success(add_failure(add_success(
            add_compare(NewTransaction, c.key, c.old.target, "EQUAL", c.old.operand, <<>>),
            put), read), read)
    BY Zenon DEF CompareAndSwapTxn, setup_compare_put, setup_compare
  <2> HIDE DEF put, read
  <2> QED BY <2>1, ComparingLast
<1>4. CompareAndDeleteTxn(c) =
        Txn(old, <<DeleteRequest(c.key, <<>>, FALSE, TRUE)>>, <<read>>)
  <2> DEFINE delete == DeleteRequest(c.key, <<>>, FALSE, TRUE)
  <2>1. CompareAndDeleteTxn(c) =
          setup_compare(c.key, c.old.target, "EQUAL", c.old.operand, delete)
    BY Zenon DEF CompareAndDeleteTxn, setup_compare_delete
  <2> HIDE DEF delete
  <2>2. CompareAndDeleteTxn(c) = Txn(old, <<delete>>, <<read>>)
    BY <2>1, SetupShape, Zenon
  <2> QED BY <2>2, Zenon DEF delete
<1> QED BY <1>1, <1>2, <1>3, <1>4, Zenon

\* A list of one element, taken apart
LEMMA MapOne ==
  ASSUME NEW a, NEW x, a = <<x>>
  PROVE  DOMAIN a = 1 .. 1 /\ a[1] = x /\ Len(a) = 1
OBVIOUS

\* The same for two.
LEMMA MapTwo ==
  ASSUME NEW a, NEW x, NEW y, a = <<x, y>>
  PROVE  DOMAIN a = 1 .. 2 /\ a[1] = x /\ a[2] = y /\ Len(a) = 2
OBVIOUS

\* A list of one element, put together.
LEMMA FunOne ==
  ASSUME NEW s, NEW x, s = [i \in 1 .. 1 |-> s[i]], s[1] = x
  PROVE  s = <<x>>
<1> DEFINE t == <<x>>
<1>1. s \in Seq({x}) /\ Len(s) = 1 /\ s[1] = x
  OBVIOUS
<1>2. t \in Seq({x}) /\ Len(t) = 1 /\ t[1] = x
  OBVIOUS
<1> HIDE DEF t
<1>3. s = t
  BY <1>1, <1>2, SeqEqual
<1> QED BY <1>3 DEF t

\* The same for two.
LEMMA FunTwo ==
  ASSUME NEW s, NEW x, NEW y, s = [i \in 1 .. 2 |-> s[i]], s[1] = x, s[2] = y
  PROVE  s = <<x, y>>
<1> DEFINE t == <<x, y>>
<1>1. s \in Seq({x, y}) /\ Len(s) = 2 /\ s[1] = x /\ s[2] = y
  OBVIOUS
<1>2. t \in Seq({x, y}) /\ Len(t) = 2 /\ t[1] = x /\ t[2] = y
  OBVIOUS
<1> HIDE DEF t
<1>3. s = t
  BY <1>1, <1>2, SeqEqual
<1> QED BY <1>3 DEF t

\* The pair of a key that is not in the store.
LEMMA NoKVFacts ==
  /\ NoKV \in KVs /\ ~Exists(NoKV)
  /\ NoKV.mod = 0 /\ NoKV.value = "" /\ NoKV.version = 0
<1>1. <<>> \in String
  BY DEF String
<1> QED BY <1>1 DEF NoKV, KV, KVs, Exists
\* The transactions that are given to txn().
LEMMA TxnShapesUser ==
  ASSUME NEW c
  PROVE  LET read == RangeRequest(c.key, <<>>, FALSE)
             eq   == Comparison(c.key, <<>>, c.old.target, "EQUAL", c.old.operand)
             neq  == Comparison(c.key, <<>>, c.old.target, "NOT_EQUAL", c.old.operand)
             cmp  == IF c.fn \in {"and_create", "and_swap", "and_delete", "and_rmdir"}
                     THEN eq ELSE neq
             new  == Comparison(c.to, <<>>, "create", "EQUAL", 0)
         IN  /\ SetupTxn(c) =
                  IF c.fn \in UserDeletes
                  THEN Txn(cmp,
                           <<DeleteRequest(c.to, <<>>, c.fn \in {"and_rmdir", "or_rmdir"}, TRUE)>>,
                           <<read>>)
                  ELSE Txn(cmp, <<PutRequest(c.to, c.value, FALSE)>>, <<read>>)
             /\ IfNoneTxn(c) =
                  Txn(Comparison(c.key, c.to, "version", "EQUAL", 0),
                      <<PutRequest(c.key, c.value, FALSE)>>,
                      <<RangeRequest(c.key, c.to, FALSE)>>)
             /\ NestedTxn(c) =
                  Txn(eq, <<TxnRequest(Txn(new, <<PutRequest(c.to, c.value, FALSE)>>,
                                           <<RangeRequest(c.to, <<>>, FALSE)>>))>>, <<read>>)
<1> DEFINE read == RangeRequest(c.key, <<>>, FALSE)
           eq   == Comparison(c.key, <<>>, c.old.target, "EQUAL", c.old.operand)
           neq  == Comparison(c.key, <<>>, c.old.target, "NOT_EQUAL", c.old.operand)
           cmp  == IF c.fn \in {"and_create", "and_swap", "and_delete", "and_rmdir"}
                   THEN eq ELSE neq
           new  == Comparison(c.to, <<>>, "create", "EQUAL", 0)
           result == IF c.fn \in {"and_create", "and_swap", "and_delete", "and_rmdir"}
                     THEN "EQUAL" ELSE "NOT_EQUAL"
           inner == Txn(new, <<PutRequest(c.to, c.value, FALSE)>>,
                        <<RangeRequest(c.to, <<>>, FALSE)>>)
<1>1. cmp = Comparison(c.key, <<>>, c.old.target, result, c.old.operand)
  OBVIOUS
<1>2. \A request : setup_compare(c.key, c.old.target, result, c.old.operand, request) =
                     Txn(cmp, <<request>>, <<read>>)
  BY <1>1, SetupShape
<1>3. \A request : setup_compare(c.key, c.old.target, "EQUAL", c.old.operand, request) =
                     Txn(eq, <<request>>, <<read>>)
  BY SetupShape
<1>4. IfNoneTxn(c) = Txn(Comparison(c.key, c.to, "version", "EQUAL", 0),
                         <<PutRequest(c.key, c.value, FALSE)>>,
                         <<RangeRequest(c.key, c.to, FALSE)>>)
  <2> DEFINE put  == PutRequest(c.key, c.value, FALSE)
             rest == RangeRequest(c.key, c.to, FALSE)
             start == add_compare(NewTransaction, c.key, "version", "EQUAL", 0, c.to)
  <2>1. IfNoneTxn(c) = add_failure(add_success(start, put), rest)
    BY Zenon DEF IfNoneTxn
  <2> HIDE DEF put, rest
  <2>2. add_failure(add_success(start, put), rest) =
          Txn(Comparison(c.key, c.to, "version", "EQUAL", 0), <<put>>, <<rest>>)
    BY ComparingOne
  <2> QED BY <2>1, <2>2, Zenon DEF put, rest
<1>5. NestedTxn(c) = setup_compare(c.key, c.old.target, "EQUAL", c.old.operand, TxnRequest(inner))
  <2>1. add_failure(add_success(add_compare(NewTransaction, c.to, "create", "EQUAL", 0, <<>>),
                                PutRequest(c.to, c.value, FALSE)),
                    RangeRequest(c.to, <<>>, FALSE)) = inner
    <3> DEFINE put  == PutRequest(c.to, c.value, FALSE)
               rest == RangeRequest(c.to, <<>>, FALSE)
    <3> HIDE DEF put, rest
    <3>1. add_failure(add_success(add_compare(NewTransaction, c.to, "create", "EQUAL", 0, <<>>),
                                  put), rest) = Txn(new, <<put>>, <<rest>>)
      BY ComparingOne
    <3> QED BY <3>1, Zenon DEF put, rest
  <2> HIDE DEF inner
  <2> QED BY <2>1, Zenon DEF NestedTxn
<1>6. SetupTxn(c) =
        IF c.fn \in UserDeletes
        THEN setup_compare(c.key, c.old.target, result, c.old.operand,
               DeleteRequest(c.to, <<>>, c.fn \in {"and_rmdir", "or_rmdir"}, TRUE))
        ELSE setup_compare(c.key, c.old.target, result, c.old.operand,
               PutRequest(c.to, c.value, FALSE))
  BY Zenon DEF SetupTxn, setup_compare_put, setup_compare_delete
<1> HIDE DEF cmp, result
<1> QED BY <1>2, <1>3, <1>4, <1>5, <1>6, Zenon DEF cmp

----------------------------------------------------------------------------
(* Parsing replies. *)

\* FlattenSeq of one list.
LEMMA FlattenOne ==
  ASSUME NEW x
  PROVE  FlattenSeq(<<x>>) = x
<1> DEFINE seqs == <<x>>
           F(h) == [i \in 1 .. Len(seqs) |-> IF i = 1 THEN seqs[i] ELSE h[i - 1] \o seqs[i]]
           flatten == CHOOSE h : h = F(h)
<1>1. Len(seqs) = 1 /\ seqs[1] = x
  OBVIOUS
<1>2. FlattenSeq(seqs) = IF Len(seqs) = 0 THEN seqs ELSE flatten[Len(seqs)]
  BY DEF FlattenSeq
<1> HIDE DEF seqs
<1>3. flatten = F(flatten)
  <2> DEFINE h == [i \in 1 .. 1 |-> x]
  <2>1. h = F(h)
    BY <1>1
  <2> QED BY <2>1
<1> HIDE DEF flatten
<1>4. flatten[1] = x
  BY <1>1, <1>3
<1>5. FlattenSeq(seqs) = x
  BY <1>1, <1>2, <1>4
<1> QED BY <1>5 DEF seqs

\* The same of two.
LEMMA FlattenTwo ==
  ASSUME NEW x, NEW y
  PROVE  FlattenSeq(<<x, y>>) = x \o y
<1> DEFINE seqs == <<x, y>>
           F(h) == [i \in 1 .. Len(seqs) |-> IF i = 1 THEN seqs[i] ELSE h[i - 1] \o seqs[i]]
           flatten == CHOOSE h : h = F(h)
<1>1. Len(seqs) = 2 /\ seqs[1] = x /\ seqs[2] = y
  OBVIOUS
<1>2. FlattenSeq(seqs) = IF Len(seqs) = 0 THEN seqs ELSE flatten[Len(seqs)]
  BY DEF FlattenSeq
<1> HIDE DEF seqs
<1>3. flatten = F(flatten)
  <2> DEFINE h == [i \in 1 .. 2 |-> IF i = 1 THEN x ELSE x \o y]
  <2>1. h = F(h)
    BY <1>1
  <2> QED BY <2>1
<1> HIDE DEF flatten
<1>4. flatten[2] = x \o y
  <2> DEFINE Concat(a, b) == a \o b
  <2>1. flatten = [i \in 1 .. 2 |-> IF i = 1 THEN seqs[i] ELSE Concat(flatten[i - 1], seqs[i])]
    BY <1>1, <1>3, Zenon
  <2> HIDE DEF Concat
  <2>2. flatten[1] = x
    BY <2>1, <1>1
  <2>3. flatten[2] = Concat(x, y)
    BY <2>1, <2>2, <1>1
  <2> QED BY <2>3 DEF Concat
<1>5. FlattenSeq(seqs) = x \o y
  BY <1>1, <1>2, <1>4
<1> QED BY <1>5 DEF seqs

\* ParseTxn of one response.
LEMMA ParseTxnOne ==
  ASSUME NEW reply, NEW r, reply.responses = <<r>>
  PROVE  LET part == ParseOne(r, TRUE)
         IN  ParseTxn(reply) =
               V3Response("OK", FirstOf(part.values), FirstOf(part.prev_values),
                          part.values, part.prev_values)
<1> DEFINE parts == [i \in DOMAIN reply.responses |-> ParseOne(reply.responses[i], TRUE)]
           part  == ParseOne(r, TRUE)
<1> HIDE DEF part
<1>1. parts = <<part>>
  <2>1. DOMAIN reply.responses = 1 .. 1 /\ reply.responses[1] = r
    BY MapOne
  <2>2. parts = [i \in 1 .. 1 |-> ParseOne(reply.responses[i], TRUE)]
    BY <2>1
  <2> HIDE DEF parts
  <2>3. parts = [i \in 1 .. 1 |-> parts[i]]
    BY <2>2
  <2>4. parts[1] = ParseOne(reply.responses[1], TRUE)
    <3> DEFINE P(i) == ParseOne(reply.responses[i], TRUE)
    <3>1. parts = [i \in 1 .. 1 |-> P(i)]
      BY <2>2
    <3> HIDE DEF P
    <3>2. parts[1] = P(1)
      BY <3>1
    <3> QED BY <3>2 DEF P
  <2>5. parts[1] = part
    BY <2>1, <2>4, Zenon DEF part
  <2> QED BY <2>3, <2>5, FunOne
<1>2. /\ [i \in DOMAIN parts |-> parts[i].values] = <<part.values>>
      /\ [i \in DOMAIN parts |-> parts[i].prev_values] = <<part.prev_values>>
  <2>1. DOMAIN parts = 1 .. 1 /\ parts[1] = part
    BY <1>1, MapOne
  <2> HIDE DEF parts
  <2>2. /\ [i \in 1 .. 1 |-> parts[i].values] = <<part.values>>
        /\ [i \in 1 .. 1 |-> parts[i].prev_values] = <<part.prev_values>>
    BY <2>1, FunOne
  <2> QED BY <2>1, <2>2
<1>3. /\ FlattenSeq(<<part.values>>) = part.values
      /\ FlattenSeq(<<part.prev_values>>) = part.prev_values
  BY FlattenOne
<1>4. ParseTxn(reply) =
        V3Response("OK", FirstOf(FlattenSeq([i \in DOMAIN parts |-> parts[i].values])),
                   FirstOf(FlattenSeq([i \in DOMAIN parts |-> parts[i].prev_values])),
                   FlattenSeq([i \in DOMAIN parts |-> parts[i].values]),
                   FlattenSeq([i \in DOMAIN parts |-> parts[i].prev_values]))
  BY Zenon DEF ParseTxn
<1> QED BY <1>2, <1>3, <1>4, Zenon DEF part

\* The same of two.
LEMMA ParseTxnTwo ==
  ASSUME NEW reply, NEW r, NEW s, reply.responses = <<r, s>>
  PROVE  LET one    == ParseOne(r, TRUE)
             two    == ParseOne(s, TRUE)
             values == one.values \o two.values
             prevs  == one.prev_values \o two.prev_values
         IN  ParseTxn(reply) = V3Response("OK", FirstOf(values), FirstOf(prevs), values, prevs)
<1> DEFINE parts == [i \in DOMAIN reply.responses |-> ParseOne(reply.responses[i], TRUE)]
           one   == ParseOne(r, TRUE)
           two   == ParseOne(s, TRUE)
<1> HIDE DEF one, two
<1>1. parts = <<one, two>>
  <2>1. DOMAIN reply.responses = 1 .. 2 /\ reply.responses[1] = r /\ reply.responses[2] = s
    BY MapTwo
  <2>2. parts = [i \in 1 .. 2 |-> ParseOne(reply.responses[i], TRUE)]
    BY <2>1
  <2> HIDE DEF parts
  <2>3. parts = [i \in 1 .. 2 |-> parts[i]]
    BY <2>2
  <2>4. /\ parts[1] = ParseOne(reply.responses[1], TRUE)
        /\ parts[2] = ParseOne(reply.responses[2], TRUE)
    <3> DEFINE P(i) == ParseOne(reply.responses[i], TRUE)
    <3>1. parts = [i \in 1 .. 2 |-> P(i)]
      BY <2>2
    <3> HIDE DEF P
    <3>2. parts[1] = P(1) /\ parts[2] = P(2)
      BY <3>1
    <3> QED BY <3>2 DEF P
  <2>5. parts[1] = one /\ parts[2] = two
    BY <2>1, <2>4, Zenon DEF one, two
  <2> QED BY <2>3, <2>5, FunTwo
<1>2. /\ [i \in DOMAIN parts |-> parts[i].values] = <<one.values, two.values>>
      /\ [i \in DOMAIN parts |-> parts[i].prev_values] = <<one.prev_values, two.prev_values>>
  <2>1. DOMAIN parts = 1 .. 2 /\ parts[1] = one /\ parts[2] = two
    BY <1>1, MapTwo
  <2> HIDE DEF parts
  <2>2. /\ [i \in 1 .. 2 |-> parts[i].values] = <<one.values, two.values>>
        /\ [i \in 1 .. 2 |-> parts[i].prev_values] = <<one.prev_values, two.prev_values>>
    BY <2>1, FunTwo
  <2> QED BY <2>1, <2>2
<1>3. /\ FlattenSeq(<<one.values, two.values>>) = one.values \o two.values
      /\ FlattenSeq(<<one.prev_values, two.prev_values>>) = one.prev_values \o two.prev_values
  BY FlattenTwo
<1>4. ParseTxn(reply) =
        V3Response("OK", FirstOf(FlattenSeq([i \in DOMAIN parts |-> parts[i].values])),
                   FirstOf(FlattenSeq([i \in DOMAIN parts |-> parts[i].prev_values])),
                   FlattenSeq([i \in DOMAIN parts |-> parts[i].values]),
                   FlattenSeq([i \in DOMAIN parts |-> parts[i].prev_values]))
  BY Zenon DEF ParseTxn
<1> QED BY <1>2, <1>3, <1>4, Zenon DEF one, two

\* What a function does to the store in one execution.
Changes(before, rev, after, rev2) ==
  /\ StoreOK(after, rev2)
  /\ rev2 = (IF after = before THEN rev ELSE rev + 1)
  /\ \A k \in Keys : after[k].mod \in {before[k].mod, 0, rev + 1}

----------------------------------------------------------------------------
(* What an execution changes. *)

\* A put changes its key, and makes it newer than every other.
LEMMA WrittenFacts ==
  ASSUME NEW st, NEW rev \in Nat, StoreOK(st, rev), NEW k \in Keys, NEW value \in Values
  PROVE  /\ Changes(st, rev, Written(st, rev, k, value), rev + 1)
         /\ Written(st, rev, k, value) # st
         /\ Written(st, rev, k, value) \in [Keys -> KVs]
         /\ Exists(Written(st, rev, k, value)[k])
         /\ Written(st, rev, k, value)[k].value = value
         /\ Written(st, rev, k, value)[k].mod = rev + 1
         /\ \A j \in Keys \ {k} : Written(st, rev, k, value)[j] = st[j]
<1> DEFINE new == Written(st, rev, k, value)
           kv  == KV(k, value, IF Exists(st[k]) THEN st[k].create ELSE rev + 1,
                       rev + 1, st[k].version + 1)
<1>0. /\ st \in [Keys -> KVs] /\ st[k] \in KVs /\ k \in String
      /\ st[k].version \in Nat /\ st[k].create \in Nat /\ st[k].mod \in Nat
  BY KeysAreStrings DEF StoreOK, KVs
<1>1. /\ kv \in KVs /\ kv.key = k /\ kv.value = value /\ kv.mod = rev + 1 /\ kv.create > 0
      /\ kv.version = st[k].version + 1
  <2>1. ASSUME Exists(st[k]) PROVE st[k].create > 0
    <3>1. k \in Present(st)
      BY <2>1 DEF Present
    <3> QED BY <3>1 DEF StoreOK
  <2> DEFINE create == IF Exists(st[k]) THEN st[k].create ELSE rev + 1
  <2>2. create \in Nat /\ create > 0
    BY <2>1, <1>0
  <2> HIDE DEF create
  <2>3. kv = KV(k, value, create, rev + 1, st[k].version + 1)
    BY DEF create
  <2>4. kv = [key |-> k, value |-> value, create |-> create, mod |-> rev + 1,
              version |-> st[k].version + 1]
    BY <2>3, Zenon DEF KV
  <2>5. rev + 1 \in Nat /\ st[k].version + 1 \in Nat /\ value \in Values \cup {""}
    <3>1. st[k].version \in Nat
      BY <1>0
    <3> DEFINE version == st[k].version
    <3> HIDE DEF version
    <3>2. version \in Nat
      BY <3>1 DEF version
    <3>3. version + 1 \in Nat /\ rev + 1 \in Nat
      BY <3>2
    <3>4. value \in Values \cup {""}
      OBVIOUS
    <3> QED BY <3>3, <3>4 DEF version
  <2> HIDE DEF kv
  <2>6. /\ kv.key = k /\ kv.value = value /\ kv.mod = rev + 1 /\ kv.create = create
        /\ kv.version = st[k].version + 1
    BY <2>4
  <2>7. kv \in KVs
    BY <2>2, <2>4, <2>5, <1>0 DEF KVs
  <2> QED BY <2>2, <2>6, <2>7
<1> HIDE DEF kv
<1>2. new = [st EXCEPT ![k] = kv]
  BY DEF Written, kv
<1>3. new \in [Keys -> KVs] /\ new[k] = kv /\ \A j \in Keys \ {k} : new[j] = st[j]
  BY <1>0, <1>1, <1>2
<1> HIDE DEF new
<1>4. Exists(new[k])
  BY <1>0, <1>1, <1>3 DEF Exists
<1>5. st[k].mod \in 0 .. rev
  <2>1. CASE Exists(st[k])
    <3>1. k \in Present(st)
      BY <2>1 DEF Present
    <3>2. st[k].mod \in 1 .. rev
      BY <3>1 DEF StoreOK
    <3> QED BY <3>2
  <2>2. CASE ~Exists(st[k])
    <3>1. k \in Keys \ Present(st)
      BY <2>2 DEF Present
    <3>2. st[k].mod = 0
      BY <3>1, NoKVFacts DEF StoreOK
    <3> QED BY <3>2
  <2> QED BY <2>1, <2>2
<1>6. new # st
  BY <1>0, <1>1, <1>3, <1>5
<1>7. Present(new) = Present(st) \cup {k}
  BY <1>3, <1>4 DEF Present
<1>8. IsFiniteSet(Present(new))
  BY <1>7, FS_AddElement DEF StoreOK
<1>9. StoreOK(new, rev + 1)
  <2>1. ASSUME NEW j \in Present(new)
        PROVE  /\ new[j].key = j /\ new[j].value \in Values
               /\ new[j].create > 0 /\ new[j].mod \in 1 .. (rev + 1)
    <3>1. CASE j = k
      BY <3>1, <1>1, <1>3
    <3>2. CASE j # k
      <4>1. j \in Present(st) /\ new[j] = st[j]
        BY <3>2, <1>3, <1>7 DEF Present
      <4> QED BY <4>1 DEF StoreOK
    <3> QED BY <3>1, <3>2
  <2>2. ASSUME NEW j \in Keys \ Present(new) PROVE new[j] = NoKV
    BY <2>2, <1>3, <1>7 DEF StoreOK
  <2> QED BY <2>1, <2>2, <1>3, <1>8 DEF StoreOK
<1>10. \A j \in Keys : new[j].mod \in {st[j].mod, 0, rev + 1}
  BY <1>1, <1>3
<1>11. Changes(st, rev, new, rev + 1)
  BY <1>6, <1>9, <1>10 DEF Changes
<1> QED BY <1>1, <1>3, <1>4, <1>6, <1>11 DEF new

\* A read changes nothing.
LEMMA NothingFacts ==
  ASSUME NEW st, NEW rev \in Nat, StoreOK(st, rev)
  PROVE  Changes(st, rev, st, rev)
  BY DEF Changes

\* A delete changes something exactly if it finds a key.
LEMMA RemovedFacts ==
  ASSUME NEW st, NEW rev \in Nat, StoreOK(st, rev), NEW range
  PROVE  LET new == Removed(st, range)
         IN  /\ Changes(st, rev, new, IF new = st THEN rev ELSE rev + 1)
             /\ FoundIn(st, range) = {} <=> new = st
             /\ \A k \in Keys : new[k] = IF k \in FoundIn(st, range) THEN NoKV ELSE st[k]
<1> DEFINE new == Removed(st, range)
           rev2 == IF new = st THEN rev ELSE rev + 1
<1>0. st \in [Keys -> KVs] /\ NoKV \in KVs /\ ~Exists(NoKV) /\ NoKV.mod = 0
  BY NoKVFacts DEF StoreOK
<1>1. \A k \in Keys : new[k] = IF k \in FoundIn(st, range) THEN NoKV ELSE st[k]
  BY DEF Removed, FoundIn, StoreOK, Present
<1>2. new \in [Keys -> KVs]
  <2>1. DOMAIN new = Keys /\ new = [k \in Keys |-> new[k]]
    BY DEF Removed
  <2>2. \A k \in Keys : new[k] \in KVs
    BY <1>0, <1>1
  <2> HIDE DEF new
  <2> QED BY <2>1, <2>2
<1> HIDE DEF new
<1>3. Present(new) \subseteq Present(st) /\ \A k \in Present(new) : new[k] = st[k]
  BY <1>0, <1>1 DEF Present
<1>4. IsFiniteSet(Present(new))
  BY <1>3, FS_Subset DEF StoreOK
<1>5. \A k \in Keys \ Present(new) : new[k] = NoKV
  BY <1>1, <1>0 DEF StoreOK, Present
<1>6. FoundIn(st, range) = {} <=> new = st
  <2>1. ASSUME FoundIn(st, range) = {} PROVE new = st
    BY <2>1, <1>0, <1>1, <1>2
  <2>2. ASSUME NEW k \in FoundIn(st, range) PROVE new # st
    <3>1. k \in Keys /\ Exists(st[k]) /\ new[k] = NoKV
      BY <1>1 DEF FoundIn
    <3> QED BY <3>1, <1>0
  <2> QED BY <2>1, <2>2
<1>7. rev2 \in Nat /\ rev <= rev2
  OBVIOUS
<1>8. ASSUME NEW k \in Present(new)
      PROVE  /\ new[k].key = k /\ new[k].value \in Values
             /\ new[k].create > 0 /\ new[k].mod \in 1 .. rev2
  <2>1. k \in Present(st) /\ new[k] = st[k]
    BY <1>3
  <2>2. st[k].key = k /\ st[k].value \in Values /\ st[k].create > 0 /\ st[k].mod \in 1 .. rev
    BY <2>1 DEF StoreOK
  <2> HIDE DEF rev2
  <2> QED BY <2>1, <2>2, <1>7
<1>9. StoreOK(new, rev2)
  BY <1>2, <1>4, <1>5, <1>8 DEF StoreOK
<1>10. \A k \in Keys : new[k].mod \in {st[k].mod, 0, rev + 1}
  BY <1>0, <1>1
<1>11. Changes(st, rev, new, rev2)
  BY <1>9, <1>10 DEF Changes
<1> QED BY <1>1, <1>6, <1>11 DEF new

RangeReply(s)  == [type |-> "range", kvs |-> s]
PutReply(old)  == [type |-> "put", prev_kv |-> old]
----------------------------------------------------------------------------
(* Requests and what they reply. *)

\* The response of a delete; those of a range and a put are defined above.
DeleteReply(s) == [type |-> "delete", prev_kvs |-> s]

\* The requests that the functions make, by name.
ReadOf(k, to) == RangeRequest(k, to, FALSE)
RangeOf(k, to) == make_request_with_ranges(k, to, FALSE)
DirOf(k) == make_request_with_ranges(k, <<>>, TRUE)
PutOf(k, value) == PutRequest(k, value, FALSE)
PutPreviousOf(k, value) == PutRequest(k, value, TRUE)

\* A read returns the pairs of its range.
LEMMA ReadExecuted ==
  ASSUME NEW st, NEW orig, NEW rev, NEW k, NEW to
  PROVE  ExecuteOp(orig, st, rev, ReadOf(k, to)) =
           [store    |-> st,
            response |-> RangeReply(InStore(st, RangeOf(k, to)))]
<1> DEFINE range   == RangeOf(k, to)
           request == ReadOf(k, to)
<1>1. request = [type |-> "range", range |-> range, limit |-> 0, keys_only |-> FALSE]
  BY Zenon DEF ReadOf, RangeOf, RangeRequest
<1> HIDE DEF range, request
<1>2. /\ request.type = "range" /\ request.range = range /\ request.limit = 0
      /\ request.keys_only = FALSE
  BY <1>1
<1>3. Returned(InStore(st, range), request) = InStore(st, range)
  BY <1>2 DEF Returned
<1>4. ExecuteOp(orig, st, rev, request) =
        [store    |-> st,
         response |-> [type |-> "range",
                       kvs  |-> Returned(InStore(st, request.range), request)]]
  BY <1>2, RangeExecuted
<1> QED BY <1>2, <1>3, <1>4, Zenon DEF range, request, RangeReply

\* A put returns no previous pair if it is not asked to.
LEMMA PutReplied ==
  ASSUME NEW st, NEW orig, NEW rev, NEW k, NEW value
  PROVE  ExecuteOp(orig, st, rev, PutOf(k, value)) =
           [store |-> Written(st, rev, k, value), response |-> PutReply(NoKV)]
  BY DEF ExecuteOp, ExecuteOne, PutOf, PutRequest, Written, PutReply

\* The same for a put that asks.
LEMMA PutPreviousReplied ==
  ASSUME NEW st, NEW orig, NEW rev, NEW k, NEW value
  PROVE  ExecuteOp(orig, st, rev, PutPreviousOf(k, value)) =
           [store |-> Written(st, rev, k, value), response |-> PutReply(st[k])]
  BY DEF ExecuteOp, ExecuteOne, PutPreviousOf, PutRequest, Written, PutReply

\* How ParseOne reads each kind of response in a transaction.
LEMMA Parts ==
  ASSUME NEW s, NEW old
  PROVE  /\ ParseOne(RangeReply(s), TRUE) = V3Response("OK", NoKV, NoKV, s, <<>>)
         /\ ParseOne(PutReply(old), TRUE) = V3Response("OK", NoKV, old, <<>>, <<old>>)
         /\ ParseOne(DeleteReply(s), TRUE).values = s
         /\ ParseOne(DeleteReply(s), TRUE).prev_values = s
         /\ ParseOne([type |-> "txn"], TRUE) = V3Response("OK", NoKV, NoKV, <<>>, <<>>)
<1>1. ParseOne(RangeReply(s), TRUE) = V3Response("OK", NoKV, NoKV, s, <<>>)
  BY DEF ParseOne, RangeReply, ParseRange
<1>2. ParseOne(PutReply(old), TRUE) = V3Response("OK", NoKV, old, <<>>, <<old>>)
  BY DEF ParseOne, PutReply, ParsePut
<1>3. ParseOne(DeleteReply(s), TRUE) = ParseDelete(DeleteReply(s))
  BY DEF ParseOne, DeleteReply
<1>4. /\ ParseDelete(DeleteReply(s)).values = s
      /\ ParseDelete(DeleteReply(s)).prev_values = s
  BY DEF DeleteReply, ParseDelete, V3Response, Error
<1>5. ParseOne([type |-> "txn"], TRUE) = V3Response("OK", NoKV, NoKV, <<>>, <<>>)
  BY DEF ParseOne, Error
<1> QED BY <1>1, <1>2, <1>3, <1>4, <1>5

\* The lists of a V3Response.
LEMMA V3Fields ==
  ASSUME NEW e, NEW v, NEW p, NEW vs, NEW ps
  PROVE  V3Response(e, v, p, vs, ps).values = vs /\ V3Response(e, v, p, vs, ps).prev_values = ps
  BY DEF V3Response

\* FirstOf of the shortest lists.
LEMMA FirstOfOne ==
  ASSUME NEW x
  PROVE  FirstOf(<<x>>) = x /\ FirstOf(<<>>) = NoKV
  BY DEF FirstOf

\* What the caller of a transaction of one operation gets,
LEMMA ParsedTxn ==
  ASSUME NEW reply, NEW s, NEW old
  PROVE  /\ reply.responses = <<RangeReply(s)>> =>
              ParseTxn(reply) = V3Response("OK", FirstOf(s), NoKV, s, <<>>)
         /\ reply.responses = <<PutReply(old)>> =>
              ParseTxn(reply) = V3Response("OK", NoKV, old, <<>>, <<old>>)
         /\ reply.responses = <<DeleteReply(s)>> =>
              ParseTxn(reply) = V3Response("OK", FirstOf(s), FirstOf(s), s, s)
         /\ reply.responses = <<[type |-> "txn"]>> =>
              ParseTxn(reply) = V3Response("OK", NoKV, NoKV, <<>>, <<>>)
<1>0. FirstOf(<<old>>) = old /\ FirstOf(<<>>) = NoKV
  BY FirstOfOne
<1>1. ASSUME reply.responses = <<RangeReply(s)>>
      PROVE  ParseTxn(reply) = V3Response("OK", FirstOf(s), NoKV, s, <<>>)
  <2> DEFINE part == ParseOne(RangeReply(s), TRUE)
  <2>1. part.values = s /\ part.prev_values = <<>>
    <3>1. part = V3Response("OK", NoKV, NoKV, s, <<>>)
      BY Parts
    <3>2. /\ V3Response("OK", NoKV, NoKV, s, <<>>).values = s
          /\ V3Response("OK", NoKV, NoKV, s, <<>>).prev_values = <<>>
      BY V3Fields
    <3> HIDE DEF part
    <3> QED BY <3>1, <3>2, Zenon
  <2>2. ParseTxn(reply) = V3Response("OK", FirstOf(part.values), FirstOf(part.prev_values),
                                     part.values, part.prev_values)
    BY <1>1, ParseTxnOne
  <2> HIDE DEF part
  <2> QED BY <2>1, <2>2, <1>0, Zenon
<1>2. ASSUME reply.responses = <<PutReply(old)>>
      PROVE  ParseTxn(reply) = V3Response("OK", NoKV, old, <<>>, <<old>>)
  <2> DEFINE part == ParseOne(PutReply(old), TRUE)
  <2>1. part.values = <<>> /\ part.prev_values = <<old>>
    <3>1. part = V3Response("OK", NoKV, old, <<>>, <<old>>)
      BY Parts
    <3>2. /\ V3Response("OK", NoKV, old, <<>>, <<old>>).values = <<>>
          /\ V3Response("OK", NoKV, old, <<>>, <<old>>).prev_values = <<old>>
      BY V3Fields
    <3> HIDE DEF part
    <3> QED BY <3>1, <3>2, Zenon
  <2>2. ParseTxn(reply) = V3Response("OK", FirstOf(part.values), FirstOf(part.prev_values),
                                     part.values, part.prev_values)
    BY <1>2, ParseTxnOne
  <2> HIDE DEF part
  <2> QED BY <2>1, <2>2, <1>0, Zenon
<1>3. ASSUME reply.responses = <<DeleteReply(s)>>
      PROVE  ParseTxn(reply) = V3Response("OK", FirstOf(s), FirstOf(s), s, s)
  <2> DEFINE part == ParseOne(DeleteReply(s), TRUE)
  <2>1. part.values = s /\ part.prev_values = s
    BY Parts
  <2>2. ParseTxn(reply) = V3Response("OK", FirstOf(part.values), FirstOf(part.prev_values),
                                     part.values, part.prev_values)
    BY <1>3, ParseTxnOne
  <2> HIDE DEF part
  <2> QED BY <2>1, <2>2, <1>0, Zenon
<1>4. ASSUME reply.responses = <<[type |-> "txn"]>>
      PROVE  ParseTxn(reply) = V3Response("OK", NoKV, NoKV, <<>>, <<>>)
  <2> DEFINE part == ParseOne([type |-> "txn"], TRUE)
  <2>1. part.values = <<>> /\ part.prev_values = <<>>
    <3>1. part = V3Response("OK", NoKV, NoKV, <<>>, <<>>)
      BY Parts
    <3>2. /\ V3Response("OK", NoKV, NoKV, <<>>, <<>>).values = <<>>
          /\ V3Response("OK", NoKV, NoKV, <<>>, <<>>).prev_values = <<>>
      BY V3Fields
    <3> HIDE DEF part
    <3> QED BY <3>1, <3>2, Zenon
  <2>2. ParseTxn(reply) = V3Response("OK", FirstOf(part.values), FirstOf(part.prev_values),
                                     part.values, part.prev_values)
    BY <1>4, ParseTxnOne
  <2> HIDE DEF part
  <2> QED BY <2>1, <2>2, <1>0, Zenon
<1> QED BY <1>1, <1>2, <1>3, <1>4

\* and of a put and a read.
LEMMA ParsedPutRead ==
  ASSUME NEW reply, NEW S, NEW s \in Seq(S), NEW old,
         reply.responses = <<PutReply(old), RangeReply(s)>>
  PROVE  ParseTxn(reply) = V3Response("OK", FirstOf(s), old, s, <<old>>)
<1> DEFINE one == ParseOne(PutReply(old), TRUE)
           two == ParseOne(RangeReply(s), TRUE)
<1>1. /\ one.values = <<>> /\ one.prev_values = <<old>>
      /\ two.values = s /\ two.prev_values = <<>>
  <2>1. /\ one = V3Response("OK", NoKV, old, <<>>, <<old>>)
        /\ two = V3Response("OK", NoKV, NoKV, s, <<>>)
    BY Parts
  <2>2. /\ V3Response("OK", NoKV, old, <<>>, <<old>>).values = <<>>
        /\ V3Response("OK", NoKV, old, <<>>, <<old>>).prev_values = <<old>>
        /\ V3Response("OK", NoKV, NoKV, s, <<>>).values = s
        /\ V3Response("OK", NoKV, NoKV, s, <<>>).prev_values = <<>>
    BY V3Fields
  <2> HIDE DEF one, two
  <2> QED BY <2>1, <2>2, Zenon
<1>2. ParseTxn(reply) =
        V3Response("OK", FirstOf(one.values \o two.values),
                   FirstOf(one.prev_values \o two.prev_values),
                   one.values \o two.values, one.prev_values \o two.prev_values)
  BY ParseTxnTwo
<1> HIDE DEF one, two
<1>3. one.values \o two.values = s
  <2>1. <<>> \o s = s
    OBVIOUS
  <2> QED BY <2>1, <1>1, Zenon
<1>4. one.prev_values \o two.prev_values = <<old>>
  <2>1. <<old>> \o <<>> = <<old>>
    OBVIOUS
  <2> QED BY <2>1, <1>1, Zenon
<1>5. FirstOf(<<old>>) = old
  BY FirstOfOne
<1> QED BY <1>2, <1>3, <1>4, <1>5, Zenon

\* The response that the caller gets.
Shown(error, prev, values) ==
  [error |-> error, value |-> FirstOf(values), prev |-> prev, values |-> values]

\* MakeResponse takes value() from the list of values.
LEMMA ResponseMade ==
  ASSUME NEW e, NEW prev, NEW values, NEW prevs
  PROVE  MakeResponse(V3Response(e, FirstOf(values), prev, values, prevs)) =
           Shown(e, prev, values)
  BY DEF MakeResponse, V3Response, Shown, FirstOf

\* The response of a transaction that compares.
LEMMA ComparedParsed ==
  ASSUME NEW reply, NEW error, NEW prev, NEW values, NEW prevs,
         ParseTxn(reply) = V3Response("OK", FirstOf(values), prev, values, prevs)
  PROVE  MakeResponse(ParseCompared(reply, error)) =
           Shown(IF reply.succeeded THEN "OK" ELSE error, prev, values)
<1>1. [V3Response("OK", FirstOf(values), prev, values, prevs) EXCEPT !.error = error] =
        V3Response(error, FirstOf(values), prev, values, prevs)
  <2> DEFINE first == FirstOf(values)
  <2> HIDE DEF first
  <2> DEFINE v3 == V3Response("OK", first, prev, values, prevs)
  <2>1. v3 = [error |-> "OK", value |-> first, prev_value |-> prev, values |-> values,
              prev_values |-> prevs]
    BY DEF V3Response
  <2> HIDE DEF v3
  <2>2. [v3 EXCEPT !.error = error] =
          [error |-> error, value |-> first, prev_value |-> prev, values |-> values,
           prev_values |-> prevs]
    BY <2>1
  <2>3. [v3 EXCEPT !.error = error] = V3Response(error, first, prev, values, prevs)
    BY <2>2 DEF V3Response
  <2> QED BY <2>3, Zenon DEF first, v3
<1>2. ParseCompared(reply, error) =
        V3Response(IF reply.succeeded THEN "OK" ELSE error, FirstOf(values), prev, values, prevs)
  <2>1. CASE reply.succeeded
    BY <2>1, Zenon DEF ParseCompared
  <2>2. CASE ~reply.succeeded
    BY <2>2, <1>1, Zenon DEF ParseCompared
  <2> QED BY <2>1, <2>2
<1> QED BY <1>2, ResponseMade, Zenon

----------------------------------------------------------------------------
(* Transactions of few operations. *)

\* Transactions that execute a read,
LEMMA BranchRead ==
  ASSUME NEW st, NEW rev, NEW txn, NEW k, NEW to,
         Branch(st, txn) = <<ReadOf(k, to)>>
  PROVE  LET reply == Execute(st, rev, txn)
             s     == InStore(st, RangeOf(k, to))
         IN  /\ reply.store = st /\ reply.revision = rev
             /\ reply.succeeded = Succeeds(st, txn)
             /\ ParseTxn(reply) = V3Response("OK", FirstOf(s), NoKV, s, <<>>)
<1> DEFINE request == ReadOf(k, to)
           reply == Execute(st, rev, txn)
           s     == InStore(st, RangeOf(k, to))
           one   == ExecuteOp(st, st, rev, request)
<1>1. one.store = st /\ one.response = RangeReply(s)
  <2>1. one = [store |-> st, response |-> RangeReply(s)]
    BY ReadExecuted
  <2> HIDE DEF one, s
  <2> QED BY <2>1
<1>2. reply = [store     |-> one.store,
               revision  |-> IF one.store = st THEN rev ELSE rev + 1,
               succeeded |-> Succeeds(st, txn),
               responses |-> <<one.response>>]
  BY OneOperation, Zenon
<1> HIDE DEF one, reply, s
<1>3. /\ reply.store = st /\ reply.revision = rev /\ reply.succeeded = Succeeds(st, txn)
      /\ reply.responses = <<RangeReply(s)>>
  <2>1. reply = [store |-> st, revision |-> rev, succeeded |-> Succeeds(st, txn),
                 responses |-> <<RangeReply(s)>>]
    BY <1>1, <1>2, Zenon
  <2> QED BY <2>1
<1>4. ParseTxn(reply) = V3Response("OK", FirstOf(s), NoKV, s, <<>>)
  BY <1>3, ParsedTxn
<1> QED BY <1>3, <1>4, Zenon DEF reply, s

\* a put,
LEMMA BranchPut ==
  ASSUME NEW st, NEW rev \in Nat, StoreOK(st, rev), NEW txn, NEW k \in Keys, NEW v \in Values,
         Branch(st, txn) = <<PutOf(k, v)>>
  PROVE  LET reply == Execute(st, rev, txn)
         IN  /\ reply.store = Written(st, rev, k, v) /\ reply.revision = rev + 1
             /\ reply.succeeded = Succeeds(st, txn)
             /\ ParseTxn(reply) = V3Response("OK", NoKV, NoKV, <<>>, <<NoKV>>)
<1> DEFINE request == PutOf(k, v)
           reply == Execute(st, rev, txn)
           new   == Written(st, rev, k, v)
           one   == ExecuteOp(st, st, rev, request)
<1>1. one.store = new /\ one.response = PutReply(NoKV)
  <2>1. one = [store |-> new, response |-> PutReply(NoKV)]
    BY PutReplied
  <2> HIDE DEF one, new
  <2> QED BY <2>1
<1>2. reply = [store     |-> one.store,
               revision  |-> IF one.store = st THEN rev ELSE rev + 1,
               succeeded |-> Succeeds(st, txn),
               responses |-> <<one.response>>]
  BY OneOperation, Zenon
<1>3. new # st
  BY WrittenFacts
<1> HIDE DEF one, reply, new
<1>4. /\ reply.store = new /\ reply.revision = rev + 1 /\ reply.succeeded = Succeeds(st, txn)
      /\ reply.responses = <<PutReply(NoKV)>>
  <2>1. reply = [store |-> new, revision |-> rev + 1, succeeded |-> Succeeds(st, txn),
                 responses |-> <<PutReply(NoKV)>>]
    BY <1>1, <1>2, <1>3, Zenon
  <2> QED BY <2>1
<1>5. ParseTxn(reply) = V3Response("OK", NoKV, NoKV, <<>>, <<NoKV>>)
  BY <1>4, ParsedTxn
<1> QED BY <1>4, <1>5, Zenon DEF reply, new

\* a delete,
LEMMA BranchDelete ==
  ASSUME NEW st, NEW rev, NEW txn, NEW request, NEW range,
         ExecuteOp(st, st, rev, request) =
           [store |-> Removed(st, range), response |-> DeleteReply(InStore(st, range))],
         Branch(st, txn) = <<request>>
  PROVE  LET reply == Execute(st, rev, txn)
             new   == Removed(st, range)
             s     == InStore(st, range)
         IN  /\ reply.store = new /\ reply.revision = (IF new = st THEN rev ELSE rev + 1)
             /\ reply.succeeded = Succeeds(st, txn)
             /\ ParseTxn(reply) = V3Response("OK", FirstOf(s), FirstOf(s), s, s)
<1> DEFINE reply == Execute(st, rev, txn)
           new   == Removed(st, range)
           s     == InStore(st, range)
           one   == ExecuteOp(st, st, rev, request)
<1>1. one.store = new /\ one.response = DeleteReply(s)
  <2>1. one = [store |-> new, response |-> DeleteReply(s)]
    OBVIOUS
  <2> HIDE DEF one, new, s
  <2> QED BY <2>1
<1>2. reply = [store     |-> one.store,
               revision  |-> IF one.store = st THEN rev ELSE rev + 1,
               succeeded |-> Succeeds(st, txn),
               responses |-> <<one.response>>]
  BY OneOperation, Zenon
<1> HIDE DEF one, reply, new, s
<1>4. /\ reply.store = new /\ reply.revision = (IF new = st THEN rev ELSE rev + 1)
      /\ reply.succeeded = Succeeds(st, txn)
      /\ reply.responses = <<DeleteReply(s)>>
  <2>1. reply = [store |-> new, revision |-> IF new = st THEN rev ELSE rev + 1,
                 succeeded |-> Succeeds(st, txn), responses |-> <<DeleteReply(s)>>]
    BY <1>1, <1>2, Zenon
  <2> QED BY <2>1
<1>5. ParseTxn(reply) = V3Response("OK", FirstOf(s), FirstOf(s), s, s)
  BY <1>4, ParsedTxn
<1> QED BY <1>4, <1>5, Zenon DEF reply, new, s

\* a put and a read.
LEMMA BranchPutRead ==
  ASSUME NEW st, NEW rev \in Nat, StoreOK(st, rev), NEW txn, NEW k \in Keys, NEW v \in Values,
         NEW put, NEW old,
         ExecuteOp(st, st, rev, put) =
           [store |-> Written(st, rev, k, v), response |-> PutReply(old)],
         Branch(st, txn) = <<put, ReadOf(k, <<>>)>>
  PROVE  LET reply == Execute(st, rev, txn)
             new   == Written(st, rev, k, v)
         IN  /\ reply.store = new /\ reply.revision = rev + 1
             /\ reply.succeeded = Succeeds(st, txn)
             /\ ParseTxn(reply) = V3Response("OK", FirstOf(<<new[k]>>), old, <<new[k]>>, <<old>>)
<1> DEFINE read  == ReadOf(k, <<>>)
           range == RangeOf(k, <<>>)
           reply == Execute(st, rev, txn)
           new   == Written(st, rev, k, v)
           s     == InStore(new, range)
           one   == ExecuteOp(st, st, rev, put)
           two   == ExecuteOp(st, one.store, rev, read)
<1>1. one.store = new /\ one.response = PutReply(old)
  <2>1. one = [store |-> new, response |-> PutReply(old)]
    OBVIOUS
  <2> HIDE DEF one, new
  <2> QED BY <2>1
<1>2. two.store = new /\ two.response = RangeReply(s)
  <2>1. two = [store |-> one.store, response |-> RangeReply(InStore(one.store, range))]
    <3> HIDE DEF one
    <3> QED BY ReadExecuted
  <2>2. two = [store |-> new, response |-> RangeReply(s)]
    BY <2>1, <1>1, Zenon
  <2> HIDE DEF two, new, s
  <2> QED BY <2>2
<1>3. /\ new # st /\ Exists(new[k]) /\ StoreOK(new, rev + 1) /\ new[k] \in KVs
  BY WrittenFacts DEF Changes
<1>4. s = <<new[k]>>
  <2> HIDE DEF new
  <2>1. rev + 1 \in Nat
    OBVIOUS
  <2> QED BY <2>1, <1>3, KeyInStore DEF RangeOf
<1>5. reply = [store     |-> two.store,
               revision  |-> IF two.store = st THEN rev ELSE rev + 1,
               succeeded |-> Succeeds(st, txn),
               responses |-> <<one.response, two.response>>]
  <2> DEFINE Op(now, request) == ExecuteOp(st, now, rev, request)
             fields(o, w) == [store     |-> w.store,
                              revision  |-> IF w.store = st THEN rev ELSE rev + 1,
                              succeeded |-> Succeeds(st, txn),
                              responses |-> <<o.response, w.response>>]
  <2>1. reply = fields(Op(st, put), Op(Op(st, put).store, read))
    <3>1. Branch(st, txn) = <<put, read>>
      OBVIOUS
    <3> HIDE DEF read
    <3> QED BY <3>1, TwoOperations
  <2> HIDE DEF reply, read
  <2> QED BY <2>1, Zenon
<1> HIDE DEF one, two, reply, new, s
<1>6. /\ reply.store = new /\ reply.revision = rev + 1
      /\ reply.succeeded = Succeeds(st, txn)
      /\ reply.responses = <<PutReply(old), RangeReply(s)>>
  <2>1. reply = [store |-> new, revision |-> rev + 1,
                 succeeded |-> Succeeds(st, txn),
                 responses |-> <<PutReply(old), RangeReply(s)>>]
    BY <1>1, <1>2, <1>3, <1>5, Zenon
  <2> QED BY <2>1
<1>7. s \in Seq(KVs)
  BY <1>3, <1>4
<1>8. ParseTxn(reply) = V3Response("OK", FirstOf(s), old, s, <<old>>)
  BY <1>6, <1>7, ParsedPutRead
<1> QED BY <1>4, <1>6, <1>8, Zenon DEF reply, new

\* A nested transaction of one operation executes that,
LEMMA NestedExecuted ==
  ASSUME NEW st, NEW rev, NEW txn, NEW a, Branch(st, txn) = <<a>>
  PROVE  ExecuteOp(st, st, rev, TxnRequest(txn)) =
           [store |-> ExecuteOne(st, rev, a).store, response |-> [type |-> "txn"]]
<1> DEFINE
      requests   == Branch(st, txn)
      base       == [store |-> st, responses |-> <<>>]
      next(h, i) == LET one == ExecuteOne(h.store, rev, requests[i])
                    IN  [store |-> one.store, responses |-> Append(h.responses, one.response)]
      F(h)       == [i \in 0 .. Len(requests) |-> IF i = 0 THEN base ELSE next(h[i - 1], i)]
      after      == CHOOSE h : h = F(h)
<1>1. Len(requests) = 1 /\ requests[1] = a
  OBVIOUS
<1>0. TxnRequest(txn).type = "txn" /\ TxnRequest(txn).txn = txn
  BY DEF TxnRequest
<1>2. ExecuteOp(st, st, rev, TxnRequest(txn)) =
        [store |-> after[Len(requests)].store, response |-> [type |-> "txn"]]
  BY <1>0, Zenon DEF ExecuteOp, ExecuteAll
<1> HIDE DEF next, base, requests
<1>3. after = F(after)
  <2> DEFINE h == [i \in 0 .. 1 |-> IF i = 0 THEN base ELSE next(base, 1)]
  <2>1. h = F(h)
    BY <1>1
  <2> QED BY <2>1
<1> HIDE DEF after
<1>4. after[1] = next(base, 1)
  BY <1>1, <1>3
<1>5. next(base, 1).store = ExecuteOne(st, rev, a).store
  BY <1>1 DEF next, base
<1> QED BY <1>1, <1>2, <1>4, <1>5

\* and the one that creates a key puts it if there is none.
LEMMA BranchNested ==
  ASSUME NEW st, NEW rev \in Nat, StoreOK(st, rev), NEW txn, NEW k \in Keys, NEW v \in Values,
         Branch(st, txn) =
           <<TxnRequest(Txn(Comparison(k, <<>>, "create", "EQUAL", 0),
                            <<PutOf(k, v)>>, <<ReadOf(k, <<>>)>>))>>
  PROVE  LET reply == Execute(st, rev, txn)
             new   == IF Exists(st[k]) THEN st ELSE Written(st, rev, k, v)
         IN  /\ reply.store = new /\ reply.revision = (IF new = st THEN rev ELSE rev + 1)
             /\ reply.succeeded = Succeeds(st, txn)
             /\ ParseTxn(reply) = V3Response("OK", NoKV, NoKV, <<>>, <<>>)
<1> DEFINE c     == Comparison(k, <<>>, "create", "EQUAL", 0)
           put   == PutOf(k, v)
           read  == ReadOf(k, <<>>)
           inner == Txn(c, <<put>>, <<read>>)
           reply == Execute(st, rev, txn)
           new   == IF Exists(st[k]) THEN st ELSE Written(st, rev, k, v)
           one   == ExecuteOp(st, st, rev, TxnRequest(inner))
<1>1. Holds(st, c) <=> ~Exists(st[k])
  <2>1. Holds(st, c) <=> st[k]["create"] = 0
    BY KeyCompared
  <2>2. Exists(st[k]) => st[k].create > 0
    BY DEF StoreOK, Present
  <2>3. ~Exists(st[k]) => st[k].create = 0
    <3>1. NoKV.create = 0
      BY DEF NoKV, KV
    <3> QED BY <3>1 DEF StoreOK, Present
  <2> QED BY <2>1, <2>2, <2>3
<1>2. Branch(st, inner) = IF Holds(st, c) THEN <<put>> ELSE <<read>>
  BY TxnBranch
<1>3. ExecuteOne(st, rev, put).store = Written(st, rev, k, v)
  BY DEF ExecuteOne, PutOf, PutRequest, Written
<1>4. ExecuteOne(st, rev, read).store = st
  BY DEF ExecuteOne, ReadOf, RangeRequest
<1> HIDE DEF put, read, inner, c
<1>5. one = [store |-> new, response |-> [type |-> "txn"]]
  <2>1. CASE Exists(st[k])
    <3>1. Branch(st, inner) = <<read>>
      BY <2>1, <1>1, <1>2
    <3>2. one = [store |-> ExecuteOne(st, rev, read).store, response |-> [type |-> "txn"]]
      BY <3>1, NestedExecuted, Zenon
    <3> QED BY <2>1, <3>2, <1>4, Zenon
  <2>2. CASE ~Exists(st[k])
    <3>1. Branch(st, inner) = <<put>>
      BY <2>2, <1>1, <1>2
    <3>2. one = [store |-> ExecuteOne(st, rev, put).store, response |-> [type |-> "txn"]]
      BY <3>1, NestedExecuted, Zenon
    <3> QED BY <2>2, <3>2, <1>3, Zenon
  <2> QED BY <2>1, <2>2
<1>6. reply = [store     |-> one.store,
               revision  |-> IF one.store = st THEN rev ELSE rev + 1,
               succeeded |-> Succeeds(st, txn),
               responses |-> <<one.response>>]
  BY OneOperation, Zenon DEF inner, c, put, read
<1> HIDE DEF one, reply, new
<1>7. one.store = new /\ one.response = [type |-> "txn"]
  BY <1>5
<1>8. /\ reply.store = new /\ reply.revision = (IF new = st THEN rev ELSE rev + 1)
      /\ reply.succeeded = Succeeds(st, txn)
      /\ reply.responses = <<[type |-> "txn"]>>
  <2>1. reply = [store |-> new, revision |-> IF new = st THEN rev ELSE rev + 1,
                 succeeded |-> Succeeds(st, txn), responses |-> <<[type |-> "txn"]>>]
    BY <1>7, <1>6, Zenon
  <2> QED BY <2>1
<1>9. ParseTxn(reply) = V3Response("OK", NoKV, NoKV, <<>>, <<>>)
  BY <1>8, ParsedTxn
<1> QED BY <1>8, <1>9, Zenon DEF reply, new

\* A comparison that fails selects the failure branch,
LEMMA TxnFails ==
  ASSUME NEW st, NEW comparison, NEW success, NEW failure, ~Holds(st, comparison)
  PROVE  /\ ~Succeeds(st, Txn(comparison, success, failure))
         /\ Branch(st, Txn(comparison, success, failure)) = failure
<1> DEFINE txn == Txn(comparison, success, failure)
<1>1. txn.compare = <<comparison>> /\ txn.failure = failure
  BY DEF Txn
<1>2. 1 \in DOMAIN txn.compare /\ txn.compare[1] = comparison
  BY <1>1
<1> HIDE DEF txn
<1>3. ~Succeeds(st, txn)
  BY <1>2, Zenon DEF Succeeds
<1>5. Branch(st, txn) = failure
  BY <1>1, <1>3 DEF Branch
<1> QED BY <1>3, <1>5 DEF txn

\* one that holds the success branch.
LEMMA TxnSucceeds ==
  ASSUME NEW st, NEW comparison, NEW success, NEW failure, Holds(st, comparison)
  PROVE  /\ Succeeds(st, Txn(comparison, success, failure))
         /\ Branch(st, Txn(comparison, success, failure)) = success
<1> DEFINE txn == Txn(comparison, success, failure)
<1>1. txn.compare = <<comparison>> /\ txn.success = success
  BY DEF Txn
<1>2. \A i \in DOMAIN txn.compare : txn.compare[i] = comparison
  BY <1>1
<1> HIDE DEF txn
<1>3. Succeeds(st, txn)
  BY <1>2, Zenon DEF Succeeds
<1>5. Branch(st, txn) = success
  BY <1>1, <1>3 DEF Branch
<1> QED BY <1>3, <1>5 DEF txn

----------------------------------------------------------------------------
(* Calls and their promise. *)

\* The arguments of a call.
LEMMA CallFacts ==
  ASSUME NEW c \in Calls
  PROVE  /\ c.fn \in Simple \cup Prefixed \cup Ranged \cup Conditional \cup Transactions
         /\ c.key \in Keys \cup {<<>>} /\ c.to \in Keys \cup {<<>>}
         /\ c.value \in Values
         /\ c.old \in Olds
         /\ c.fn \notin Prefixed => c.key \in Keys /\ c.to \in Keys
         /\ c.fn \notin (Transactions \ {"and_swap", "or_swap"}) \cup Ranged => c.to = c.key
<1>1. PICK fn \in Functions, k \in Keys \cup {<<>>}, v \in Values, old \in Olds,
           to \in Keys \cup {<<>>} : c = Call(fn, k, v, old, to)
  BY DEF Calls, AllCalls
<1>2. c.fn = fn /\ c.key = k /\ c.value = v /\ c.old = old /\ c.to = to
  BY <1>1 DEF Call
<1>3. /\ <<>> \in {c.key, c.to} => c.fn \in Prefixed
      /\ c.fn \notin (Transactions \ {"and_swap", "or_swap"}) \cup Ranged => c.to = c.key
  BY DEF Calls
<1>4. c.fn \notin Prefixed => c.key \in Keys /\ c.to \in Keys
  BY <1>1, <1>2, <1>3
<1>5. c.fn \in Simple \cup Prefixed \cup Ranged \cup Conditional \cup Transactions
  BY <1>2, FunctionsAreKnown
<1> QED BY <1>1, <1>2, <1>3, <1>4, <1>5

\* The value or revision that a call compares with.
LEMMA OldFacts ==
  ASSUME NEW old \in Olds
  PROVE  \/ old.target = "value" /\ old.operand \in Values
         \/ old.target = "mod" /\ old.operand \in Revisions
  BY DEF Olds

\* The comparison that a transaction makes is the condition on its key.
LEMMA MatchCompared ==
  ASSUME NEW st, NEW rev \in Nat, StoreOK(st, rev), NEW k \in Keys, NEW old \in Olds
  PROVE  /\ Holds(st, Comparison(k, <<>>, old.target, "EQUAL", old.operand)) <=>
              Matches(st[k], old)
         /\ Holds(st, Comparison(k, <<>>, old.target, "NOT_EQUAL", old.operand)) <=>
              /\ ~Matches(st[k], old)
              /\ old.target = "value" => Exists(st[k])
<1>1. Holds(st, Comparison(k, <<>>, old.target, "EQUAL", old.operand)) <=>
        /\ old.target = "value" => Exists(st[k])
        /\ st[k][old.target] = old.operand
  BY KeyCompared
<1>2. Holds(st, Comparison(k, <<>>, old.target, "NOT_EQUAL", old.operand)) <=>
        /\ old.target = "value" => Exists(st[k])
        /\ st[k][old.target] # old.operand
  BY KeyCompared
<1>3. CASE old.target = "value"
  BY <1>1, <1>2, <1>3 DEF Matches
<1>4. CASE old.target = "mod"
  BY <1>1, <1>2, <1>4 DEF Matches
<1> QED BY <1>3, <1>4, OldFacts

\* What a call promises of one execution of its request.
Promise(c, before, rev, after, rev2, resp) ==
  /\ Changes(before, rev, after, rev2)
  /\ Truthful(c, before, after, resp)
  /\ resp.error = "OK" => Reported(c, before, after, resp)
  /\ (resp.error # "OK" /\ c.fn \in Transactions) => ShowsCompared(c, before, resp)
  /\ (resp.error = "OK" /\ c.fn = "modify_if") => after[c.key].mod = rev + 1

\* The same when the comparison fails and the keys compared are read.
LEMMA ReadShows ==
  ASSUME NEW c, NEW st, NEW rev \in Nat, StoreOK(st, rev), NEW range,
         FoundIn(st, range) = {k \in Compared(c) : Exists(st[k])},
         NEW resp, resp.values = InStore(st, range)
  PROVE  ShowsCompared(c, st, resp)
  BY InStoreFacts DEF ShowsCompared

\* The fields of a response.
LEMMA ShownFields ==
  ASSUME NEW e, NEW p, NEW vs
  PROVE  /\ Shown(e, p, vs).error = e /\ Shown(e, p, vs).value = FirstOf(vs)
         /\ Shown(e, p, vs).prev = p /\ Shown(e, p, vs).values = vs
  BY DEF Shown

\* A comparison that fails: nothing is changed and the keys compared are shown.
LEMMA ComparisonFails ==
  ASSUME NEW c, NEW st, NEW rev \in Nat, StoreOK(st, rev), NEW comparison, NEW success,
         NEW k, NEW to, NEW error, error # "OK",
         ~Holds(st, comparison), ~Condition(c, st),
         FoundIn(st, RangeOf(k, to)) =
           {j \in Compared(c) : Exists(st[j])}
  PROVE  LET reply == Execute(st, rev, Txn(comparison, success, <<ReadOf(k, to)>>))
             resp  == MakeResponse(ParseCompared(reply, error))
         IN  Promise(c, st, rev, reply.store, reply.revision, resp)
<1> DEFINE txn   == Txn(comparison, success, <<ReadOf(k, to)>>)
           reply == Execute(st, rev, txn)
           resp  == MakeResponse(ParseCompared(reply, error))
           s     == InStore(st, RangeOf(k, to))
<1>1. Branch(st, txn) = <<ReadOf(k, to)>> /\ ~Succeeds(st, txn)
  <2> DEFINE failure == <<ReadOf(k, to)>>
  <2> HIDE DEF failure
  <2>1. /\ Branch(st, Txn(comparison, success, failure)) = failure
        /\ ~Succeeds(st, Txn(comparison, success, failure))
    BY TxnFails
  <2> QED BY <2>1, Zenon DEF failure
<1> HIDE DEF txn
<1>2. /\ reply.store = st /\ reply.revision = rev /\ ~reply.succeeded
      /\ ParseTxn(reply) = V3Response("OK", FirstOf(s), NoKV, s, <<>>)
  <2>1. /\ reply.store = st /\ reply.revision = rev
        /\ reply.succeeded = Succeeds(st, txn)
        /\ ParseTxn(reply) = V3Response("OK", FirstOf(s), NoKV, s, <<>>)
    <3>1. Branch(st, txn) = <<ReadOf(k, to)>>
      BY <1>1
    <3> QED BY <3>1, BranchRead
  <2> HIDE DEF reply, s
  <2> QED BY <2>1, <1>1
<1> HIDE DEF reply, s
<1>3. resp = Shown(error, NoKV, s)
  BY <1>2, ComparedParsed
<1> HIDE DEF resp
<1>4. resp.error = error /\ resp.values = s
  BY <1>3, ShownFields
<1>5. ShowsCompared(c, st, resp)
  BY <1>4, ReadShows DEF s
<1>6. Changes(st, rev, st, rev)
  BY NothingFacts
<1>7. Truthful(c, st, st, resp)
  BY <1>4 DEF Truthful
<1>8. Promise(c, st, rev, st, rev, resp)
  BY <1>4, <1>5, <1>6, <1>7 DEF Promise
<1> QED BY <1>2, <1>8 DEF reply, resp, txn

\* The keys that a function of each kind reads or changes.
LEMMA SelectedKeys ==
  ASSUME NEW c
  PROVE  /\ c.fn \in Prefixed => Selected(c) = {k \in Keys : IsPrefix(c.key, k)}
         /\ c.fn \in {"and_rmdir", "or_rmdir"} => Selected(c) = {k \in Keys : IsPrefix(c.to, k)}
         /\ c.fn \in Ranged => Selected(c) = KeysFrom(c.key, c.to)
         /\ c.fn = "if_none" => Selected(c) = {c.key}
         /\ c.fn \notin Prefixed \cup {"and_rmdir", "or_rmdir"} \cup Ranged \cup {"if_none"} =>
              Selected(c) = {c.to}
<1> DEFINE Dir(p) == {k \in Keys : IsPrefix(p, k)}
<1>1. Selected(c) = CASE c.fn \in Prefixed -> Dir(c.key)
                      [] c.fn \in {"and_rmdir", "or_rmdir"} -> Dir(c.to)
                      [] c.fn \in Ranged -> KeysFrom(c.key, c.to)
                      [] c.fn = "if_none" -> {c.key}
                      [] OTHER -> {c.to}
  BY DEF Selected
<1> HIDE DEF Dir
<1>2. /\ c.fn \in Prefixed => Selected(c) = Dir(c.key)
      /\ c.fn \in {"and_rmdir", "or_rmdir"} => Selected(c) = Dir(c.to)
      /\ c.fn \in Ranged => Selected(c) = KeysFrom(c.key, c.to)
      /\ c.fn = "if_none" => Selected(c) = {c.key}
      /\ c.fn \notin Prefixed \cup {"and_rmdir", "or_rmdir"} \cup Ranged \cup {"if_none"} =>
           Selected(c) = {c.to}
  BY <1>1 DEF Prefixed, Ranged
<1> QED BY <1>2, Zenon DEF Dir

\* The range of one key finds it if it exists,
LEMMA KeyFound ==
  ASSUME NEW st, NEW k \in Keys
  PROVE  FoundIn(st, RangeOf(k, <<>>)) = {j \in {k} : Exists(st[j])}
<1> DEFINE range == RangeOf(k, <<>>)
<1>1. range = [key |-> k, range_end |-> <<>>]
  BY DEF RangeOf, make_request_with_ranges
<1> HIDE DEF range
<1>2. range.key = k /\ range.range_end = <<>>
  BY <1>1
<1> QED BY <1>2 DEF FoundIn, InRange, range

\* Keys are strings and not empty.
LEMMA KeyNotEmpty == \A k \in Keys : k # <<>> /\ k \in String
  BY KeysAreStrings

\* that of two keys the keys between,
LEMMA RangeFound ==
  ASSUME NEW st, NEW key \in Keys, NEW to \in Keys
  PROVE  FoundIn(st, RangeOf(key, to)) =
           {j \in KeysFrom(key, to) : Exists(st[j])}
<1>1. \A k \in Keys : InRange(RangeOf(key, to), k) <=>
                        k \in KeysFrom(key, to)
  BY KeyNotEmpty, RangeSelected DEF RangeOf
<1>2. KeysFrom(key, to) \subseteq Keys
  BY DEF KeysFrom
<1> QED BY <1>1, <1>2 DEF FoundIn

\* that of a prefix the keys with the prefix.
LEMMA PrefixFound ==
  ASSUME NEW st, NEW key \in String
  PROVE  FoundIn(st, DirOf(key)) =
           {j \in {k \in Keys : IsPrefix(key, k)} : Exists(st[j])}
<1>1. \A k \in Keys : InRange(DirOf(key), k) <=> IsPrefix(key, k)
  BY PrefixSelected DEF DirOf
<1> QED BY <1>1 DEF FoundIn

----------------------------------------------------------------------------
(* Functions that put a key. *)

\* A call keeps its promise on a store.
Promised(c, st, rev) ==
  LET reply == Execute(st, rev, Request(c))
  IN  Promise(c, st, rev, reply.store, reply.revision, MakeResponse(Parse(c, reply)))

\* A put on the one key that the function changes is what it intends.
LEMMA PutEffect ==
  ASSUME NEW c \in Calls, c.fn \in Puts, NEW k \in Keys, Selected(c) = {k},
         NEW st, NEW rev \in Nat, StoreOK(st, rev)
  PROVE  \A j \in Keys : Written(st, rev, k, c.value)[j].value = Intended(c, st, j)
<1>1. c.value \in Values
  BY CallFacts
<1>2. /\ Written(st, rev, k, c.value)[k].value = c.value
      /\ \A j \in Keys \ {k} : Written(st, rev, k, c.value)[j] = st[j]
  BY <1>1, WrittenFacts
<1> QED BY <1>2 DEF Intended

\* A transaction that puts a key and reads it if the comparison holds.
PutReadTxn(txn, comparison, put, k, failure) ==
  txn = Txn(comparison, <<put, ReadOf(k, <<>>)>>, failure)

\* What it replies if it does.
LEMMA TxnPutRead ==
  ASSUME NEW st, NEW rev \in Nat, StoreOK(st, rev), NEW comparison, NEW failure,
         NEW k \in Keys, NEW v \in Values, NEW put, NEW old,
         ExecuteOp(st, st, rev, put) =
           [store |-> Written(st, rev, k, v), response |-> PutReply(old)],
         Holds(st, comparison), NEW txn, PutReadTxn(txn, comparison, put, k, failure)
  PROVE  LET reply == Execute(st, rev, txn)
             new   == Written(st, rev, k, v)
         IN  /\ reply.store = new /\ reply.revision = rev + 1 /\ reply.succeeded
             /\ ParseTxn(reply) = V3Response("OK", FirstOf(<<new[k]>>), old, <<new[k]>>, <<old>>)
<1> DEFINE success == <<put, ReadOf(k, <<>>)>>
           reply == Execute(st, rev, txn)
           new   == Written(st, rev, k, v)
<1>1. Branch(st, txn) = success /\ Succeeds(st, txn)
  <2>1. txn = Txn(comparison, success, failure)
    BY DEF PutReadTxn
  <2> HIDE DEF success
  <2> QED BY <2>1, TxnSucceeds
<1>2. Branch(st, txn) = <<put, ReadOf(k, <<>>)>>
  BY <1>1
<1> HIDE DEF success
<1>3. /\ reply.store = new /\ reply.revision = rev + 1
      /\ reply.succeeded = Succeeds(st, txn)
      /\ ParseTxn(reply) = V3Response("OK", FirstOf(<<new[k]>>), old, <<new[k]>>, <<old>>)
  BY <1>2, BranchPutRead
<1> HIDE DEF reply, new
<1>4. /\ reply.store = new /\ reply.revision = rev + 1 /\ reply.succeeded
      /\ ParseTxn(reply) = V3Response("OK", FirstOf(<<new[k]>>), old, <<new[k]>>, <<old>>)
  BY <1>1, <1>3
<1> QED BY <1>4, Zenon DEF reply, new

\* All functions but one compare one key.
LEMMA OneKeyCompared ==
  ASSUME NEW c, c.fn # "if_none", NEW st, c.key \in Keys
  PROVE  FoundIn(st, RangeOf(c.key, <<>>)) = {j \in Compared(c) : Exists(st[j])}
  BY KeyFound DEF Compared

\* If the comparison is the condition of the function, they keep the promise.
LEMMA PutReadPromised ==
  ASSUME NEW c \in Calls, c.fn \in {"add", "modify", "modify_if"},
         NEW st, NEW rev \in Nat, StoreOK(st, rev), NEW comparison, NEW failure, NEW put, NEW old,
         ExecuteOp(st, st, rev, put) =
           [store |-> Written(st, rev, c.key, c.value), response |-> PutReply(old)],
         c.fn = "modify" => old = st[c.key],
         Holds(st, comparison), Condition(c, st)
  PROVE  LET reply == Execute(st, rev, Txn(comparison, <<put, ReadOf(c.key, <<>>)>>, failure))
         IN  /\ reply.succeeded
             /\ Promise(c, st, rev, reply.store, reply.revision, MakeResponse(ParseTxn(reply)))
<1> DEFINE k     == c.key
           reply == Execute(st, rev, Txn(comparison, <<put, ReadOf(k, <<>>)>>, failure))
           resp  == MakeResponse(ParseTxn(reply))
           new   == Written(st, rev, k, c.value)
<1>0. k \in Keys /\ c.to = k /\ c.value \in Values
  BY CallFacts DEF Prefixed, Transactions, Ranged
<1> HIDE DEF k
<1>1. /\ reply.store = new /\ reply.revision = rev + 1 /\ reply.succeeded
      /\ ParseTxn(reply) = V3Response("OK", FirstOf(<<new[k]>>), old, <<new[k]>>, <<old>>)
  <2>1. ExecuteOp(st, st, rev, put) =
          [store |-> Written(st, rev, k, c.value), response |-> PutReply(old)]
    BY DEF k
  <2> DEFINE v == c.value
  <2>2. v \in Values
    BY <1>0
  <2> HIDE DEF v
  <2>3. ExecuteOp(st, st, rev, put) =
          [store |-> Written(st, rev, k, v), response |-> PutReply(old)]
    BY <2>1 DEF v
  <2> DEFINE now == Written(st, rev, k, v)
             txn == Txn(comparison, <<put, ReadOf(k, <<>>)>>, failure)
             R   == Execute(st, rev, txn)
  <2>4. PutReadTxn(txn, comparison, put, k, failure) /\ reply = R
    BY DEF PutReadTxn
  <2> HIDE DEF reply, txn
  <2>5. /\ R.store = now /\ R.revision = rev + 1 /\ R.succeeded
        /\ ParseTxn(R) = V3Response("OK", FirstOf(<<now[k]>>), old, <<now[k]>>, <<old>>)
    BY <1>0, <2>2, <2>3, <2>4, TxnPutRead
  <2> HIDE DEF R, now
  <2>6. /\ reply.store = now /\ reply.revision = rev + 1 /\ reply.succeeded
        /\ ParseTxn(reply) = V3Response("OK", FirstOf(<<now[k]>>), old, <<now[k]>>, <<old>>)
    BY <2>4, <2>5
  <2> QED BY <2>6, Zenon DEF v, now
<1> USE DEF k
<1> HIDE DEF reply
<1>2. resp = Shown("OK", old, <<new[k]>>)
  BY <1>1, ResponseMade
<1> HIDE DEF resp
<1>3. resp.error = "OK" /\ resp.value = new[k] /\ resp.prev = old
  BY <1>2, ShownFields, FirstOfOne
<1>4. Changes(st, rev, new, rev + 1) /\ new[k].mod = rev + 1
  BY <1>0, WrittenFacts
<1>5. \A j \in Keys : new[j].value = Intended(c, st, j)
  <2>1. Selected(c) = {k} /\ c.fn \in Puts
    BY <1>0 DEF Selected, Puts, Prefixed, Ranged
  <2> QED BY <1>0, <2>1, PutEffect
<1> HIDE DEF new
<1>6. Truthful(c, st, new, resp)
  BY <1>3, <1>5 DEF Truthful
<1>7. Reported(c, st, new, resp)
  BY <1>3 DEF Reported, Ranged
<1>8. Promise(c, st, rev, new, rev + 1, resp)
  BY <1>3, <1>4, <1>6, <1>7 DEF Promise
<1> QED BY <1>1, <1>8, Zenon DEF reply, resp

\* The comparisons that add() and modify() make: whether the key exists.
LEMMA ExistsCompared ==
  ASSUME NEW st, NEW rev \in Nat, StoreOK(st, rev), NEW k \in Keys
  PROVE  /\ Holds(st, Comparison(k, <<>>, "mod", "EQUAL", 0)) <=> ~Exists(st[k])
         /\ Holds(st, Comparison(k, <<>>, "version", "GREATER", 0)) <=> Exists(st[k])
<1>1. Holds(st, Comparison(k, <<>>, "mod", "EQUAL", 0)) <=> st[k]["mod"] = 0
  BY KeyCompared
<1>2. Holds(st, Comparison(k, <<>>, "version", "GREATER", 0)) <=> st[k]["version"] > 0
  BY KeyCompared
<1>3. ASSUME Exists(st[k]) PROVE st[k].mod # 0
  <2>1. k \in Present(st)
    BY <1>3 DEF Present
  <2>2. st[k].mod \in 1 .. rev
    BY <2>1 DEF StoreOK
  <2> QED BY <2>2
<1>4. ASSUME ~Exists(st[k]) PROVE st[k].mod = 0
  <2>1. k \in Keys \ Present(st)
    BY <1>4 DEF Present
  <2>2. st[k] = NoKV
    BY <2>1 DEF StoreOK
  <2> QED BY <2>2, NoKVFacts
<1> QED BY <1>1, <1>2, <1>3, <1>4 DEF Exists

\* So do add(),
LEMMA AddPromised ==
  ASSUME NEW c \in Calls, c.fn = "add", NEW st, NEW rev \in Nat, StoreOK(st, rev)
  PROVE  Promised(c, st, rev)
<1> DEFINE comparison == Comparison(c.key, <<>>, "mod", "EQUAL", 0)
           put        == PutOf(c.key, c.value)
           success    == <<put, ReadOf(c.key, <<>>)>>
           failure    == <<ReadOf(c.key, <<>>)>>
           reply      == Execute(st, rev, Txn(comparison, success, failure))
<1>0. c.key \in Keys
  BY CallFacts DEF Prefixed
<1>1. Request(c) = Txn(comparison, success, failure)
  <2>1. Request(c) = SetTxn(c)
    BY DEF Request
  <2> QED BY <2>1, TxnShapes, Zenon DEF PutOf, ReadOf
<1>2. Parse(c, reply) = ParseCompared(reply, "KEY_ALREADY_EXISTS")
  BY DEF Parse
<1>3. Holds(st, comparison) <=> Condition(c, st)
  BY <1>0, ExistsCompared DEF Condition
<1>4. ExecuteOp(st, st, rev, put) =
        [store |-> Written(st, rev, c.key, c.value), response |-> PutReply(NoKV)]
  BY PutReplied
<1> HIDE DEF comparison, put
<1>5. CASE Holds(st, comparison)
  <2>1. /\ reply.succeeded
        /\ Promise(c, st, rev, reply.store, reply.revision, MakeResponse(ParseTxn(reply)))
    <3> HIDE DEF failure
    <3> QED BY <1>3, <1>4, <1>5, PutReadPromised
  <2> HIDE DEF reply
  <2>2. Parse(c, reply) = ParseTxn(reply)
    BY <1>2, <2>1 DEF ParseCompared
  <2> QED BY <1>1, <2>1, <2>2, Zenon DEF Promised, reply
<1>6. CASE ~Holds(st, comparison)
  <2>1. FoundIn(st, RangeOf(c.key, <<>>)) = {j \in Compared(c) : Exists(st[j])}
    BY <1>0, OneKeyCompared
  <2>2. Promise(c, st, rev, reply.store, reply.revision,
                MakeResponse(ParseCompared(reply, "KEY_ALREADY_EXISTS")))
    <3> HIDE DEF success
    <3> QED BY <1>3, <1>6, <2>1, ComparisonFails
  <2> HIDE DEF reply
  <2> QED BY <1>1, <1>2, <2>2, Zenon DEF Promised, reply
<1> QED BY <1>5, <1>6

\* modify_if(),
LEMMA ModifyIfPromised ==
  ASSUME NEW c \in Calls, c.fn = "modify_if", NEW st, NEW rev \in Nat, StoreOK(st, rev)
  PROVE  Promised(c, st, rev)
<1> DEFINE comparison == Comparison(c.key, <<>>, c.old.target, "EQUAL", c.old.operand)
           put        == PutOf(c.key, c.value)
           success    == <<put, ReadOf(c.key, <<>>)>>
           failure    == <<ReadOf(c.key, <<>>)>>
           reply      == Execute(st, rev, Txn(comparison, success, failure))
<1>0. c.key \in Keys /\ c.old \in Olds
  BY CallFacts DEF Prefixed
<1>1. Request(c) = Txn(comparison, success, failure)
  <2>1. Request(c) = CompareAndSwapTxn(c)
    BY DEF Request
  <2> QED BY <2>1, TxnShapes, Zenon DEF PutOf, ReadOf
<1>2. Parse(c, reply) = ParseCompared(reply, "COMPARE_FAILED")
  BY DEF Parse
<1>3. Holds(st, comparison) <=> Condition(c, st)
  BY <1>0, MatchCompared DEF Condition
<1>4. ExecuteOp(st, st, rev, put) =
        [store |-> Written(st, rev, c.key, c.value), response |-> PutReply(NoKV)]
  BY PutReplied
<1> HIDE DEF comparison, put
<1>5. CASE Holds(st, comparison)
  <2>1. /\ reply.succeeded
        /\ Promise(c, st, rev, reply.store, reply.revision, MakeResponse(ParseTxn(reply)))
    <3> HIDE DEF failure
    <3> QED BY <1>3, <1>4, <1>5, PutReadPromised
  <2> HIDE DEF reply
  <2>2. Parse(c, reply) = ParseTxn(reply)
    BY <1>2, <2>1 DEF ParseCompared
  <2> QED BY <1>1, <2>1, <2>2, Zenon DEF Promised, reply
<1>6. CASE ~Holds(st, comparison)
  <2>1. FoundIn(st, RangeOf(c.key, <<>>)) = {j \in Compared(c) : Exists(st[j])}
    BY <1>0, OneKeyCompared
  <2>2. Promise(c, st, rev, reply.store, reply.revision,
                MakeResponse(ParseCompared(reply, "COMPARE_FAILED")))
    <3> HIDE DEF success
    <3> QED BY <1>3, <1>6, <2>1, ComparisonFails
  <2> HIDE DEF reply
  <2> QED BY <1>1, <1>2, <2>2, Zenon DEF Promised, reply
<1> QED BY <1>5, <1>6

\* and modify(), whose failure shows nothing.
LEMMA ModifyPromised ==
  ASSUME NEW c \in Calls, c.fn = "modify", NEW st, NEW rev \in Nat, StoreOK(st, rev)
  PROVE  Promised(c, st, rev)
<1> DEFINE comparison == Comparison(c.key, <<>>, "version", "GREATER", 0)
           put        == PutPreviousOf(c.key, c.value)
           success    == <<put, ReadOf(c.key, <<>>)>>
           failure    == <<ReadOf(c.key, <<>>)>>
           txn        == Txn(comparison, success, failure)
           reply      == Execute(st, rev, txn)
<1>0. c.key \in Keys /\ c.to = c.key
  BY CallFacts DEF Prefixed, Transactions, Ranged
<1>1. Request(c) = txn
  <2>1. Request(c) = UpdateTxn(c)
    BY DEF Request
  <2> QED BY <2>1, TxnShapes, Zenon DEF ReadOf, PutPreviousOf
<1>2. Parse(c, reply) = ParseUpdate(reply)
  BY DEF Parse
<1>3. Holds(st, comparison) <=> Condition(c, st)
  <2>1. Selected(c) = {c.key}
    BY <1>0 DEF Selected, Prefixed, Ranged
  <2> QED BY <1>0, <2>1, ExistsCompared DEF Condition
<1>4. ExecuteOp(st, st, rev, put) =
        [store |-> Written(st, rev, c.key, c.value), response |-> PutReply(st[c.key])]
  BY PutPreviousReplied
<1> HIDE DEF comparison, put
<1>5. CASE Holds(st, comparison)
  <2>1. /\ reply.succeeded
        /\ Promise(c, st, rev, reply.store, reply.revision, MakeResponse(ParseTxn(reply)))
    <3> HIDE DEF failure
    <3> QED BY <1>3, <1>4, <1>5, PutReadPromised
  <2> HIDE DEF reply
  <2>2. Parse(c, reply) = ParseTxn(reply)
    BY <1>2, <2>1 DEF ParseUpdate
  <2> QED BY <1>1, <2>1, <2>2, Zenon DEF Promised, reply
<1>6. CASE ~Holds(st, comparison)
  <2>1. Branch(st, txn) = <<ReadOf(c.key, <<>>)>> /\ ~Succeeds(st, txn)
    <3>1. Branch(st, txn) = failure /\ ~Succeeds(st, txn)
      <4> HIDE DEF success, failure
      <4> QED BY <1>6, TxnFails
    <3> QED BY <3>1
  <2> HIDE DEF txn
  <2>2. reply.store = st /\ reply.revision = rev /\ reply.succeeded = Succeeds(st, txn)
    BY <2>1, BranchRead
  <2> HIDE DEF reply
  <2>3. Parse(c, reply) = Error("KEY_NOT_FOUND")
    BY <1>2, <2>1, <2>2 DEF ParseUpdate
  <2> DEFINE resp == MakeResponse(Parse(c, reply))
  <2>4. resp.error = "KEY_NOT_FOUND"
    BY <2>3 DEF MakeResponse, Error, V3Response
  <2> HIDE DEF resp
  <2>5. Truthful(c, st, st, resp)
    BY <1>3, <1>6, <2>4 DEF Truthful
  <2>6. Promise(c, st, rev, st, rev, resp)
    BY <2>4, <2>5, NothingFacts DEF Promise, Transactions
  <2> QED BY <1>1, <2>2, <2>6, Zenon DEF Promised, reply, resp
<1> QED BY <1>5, <1>6

----------------------------------------------------------------------------
(* Functions that delete. *)

\* The deletes of rm() and rmdir().
RemoveOf(k) == DeleteRequest(k, <<>>, FALSE, TRUE)
RemoveDirOf(k) == DeleteRequest(k, <<>>, TRUE, TRUE)
RemoveRangeOf(k, to) == DeleteRequest(k, to, FALSE, TRUE)

\* The request deletes the keys of the range and returns them.
Deleting(st, rev, request, range) ==
  ExecuteOp(st, st, rev, request) =
    [store |-> Removed(st, range), response |-> DeleteReply(InStore(st, range))]

\* They do.
LEMMA RemovalsReplied ==
  ASSUME NEW st, NEW rev, NEW k, NEW to
  PROVE  /\ Deleting(st, rev, RemoveOf(k), RangeOf(k, <<>>))
         /\ Deleting(st, rev, RemoveDirOf(k), DirOf(k))
         /\ Deleting(st, rev, RemoveRangeOf(k, to), RangeOf(k, to))
<1>1. Deleting(st, rev, RemoveOf(k), RangeOf(k, <<>>))
  BY DEF Deleting, ExecuteOp, ExecuteOne, RemoveOf, DeleteRequest, Removed, DeleteReply, RangeOf
<1>2. Deleting(st, rev, RemoveDirOf(k), DirOf(k))
  BY DEF Deleting, ExecuteOp, ExecuteOne, RemoveDirOf, DeleteRequest, Removed, DeleteReply, DirOf
<1>3. Deleting(st, rev, RemoveRangeOf(k, to), RangeOf(k, to))
  BY DEF Deleting, ExecuteOp, ExecuteOne, RemoveRangeOf, DeleteRequest, Removed, DeleteReply,
         RangeOf
<1> QED BY <1>1, <1>2, <1>3

\* A delete of the keys that the function removes is what it intends.
LEMMA DeleteEffect ==
  ASSUME NEW c, c.fn \in Deletes, NEW range, NEW st, NEW rev \in Nat, StoreOK(st, rev),
         FoundIn(st, range) = {k \in Selected(c) : Exists(st[k])}
  PROVE  \A j \in Keys : Removed(st, range)[j].value = Intended(c, st, j)
<1>1. TAKE j \in Keys
<1>2. Removed(st, range)[j] = IF j \in FoundIn(st, range) THEN NoKV ELSE st[j]
  BY RemovedFacts
<1>3. Intended(c, st, j) = IF j \in Selected(c) THEN "" ELSE st[j].value
  <2>1. c.fn \notin Puts /\ c.fn # "nested"
    BY DEF Puts, Deletes, UserDeletes
  <2> QED BY <2>1 DEF Intended
<1>4. ~Exists(st[j]) => st[j] = NoKV
  BY DEF StoreOK, Present
<1> QED BY <1>2, <1>3, <1>4, NoKVFacts

\* A transaction that deletes if the comparison holds,
LEMMA TxnDelete ==
  ASSUME NEW st, NEW rev \in Nat, NEW comparison, NEW failure, NEW request, NEW range,
         Deleting(st, rev, request, range), Holds(st, comparison)
  PROVE  LET reply == Execute(st, rev, Txn(comparison, <<request>>, failure))
             new   == Removed(st, range)
             s     == InStore(st, range)
         IN  /\ reply.store = new /\ reply.revision = (IF new = st THEN rev ELSE rev + 1)
             /\ reply.succeeded
             /\ ParseTxn(reply) = V3Response("OK", FirstOf(s), FirstOf(s), s, s)
<1> DEFINE success == <<request>>
           txn   == Txn(comparison, success, failure)
           reply == Execute(st, rev, txn)
           new   == Removed(st, range)
           s     == InStore(st, range)
<1>1. Branch(st, txn) = success /\ Succeeds(st, txn)
  <2> HIDE DEF success
  <2> QED BY TxnSucceeds
<1>2. Branch(st, txn) = <<request>>
  BY <1>1
<1> HIDE DEF txn, success
<1>3. /\ reply.store = new /\ reply.revision = (IF new = st THEN rev ELSE rev + 1)
      /\ reply.succeeded = Succeeds(st, txn)
      /\ ParseTxn(reply) = V3Response("OK", FirstOf(s), FirstOf(s), s, s)
  BY <1>2, BranchDelete DEF Deleting
<1> HIDE DEF reply, new, s
<1>4. /\ reply.store = new /\ reply.revision = (IF new = st THEN rev ELSE rev + 1)
      /\ reply.succeeded
      /\ ParseTxn(reply) = V3Response("OK", FirstOf(s), FirstOf(s), s, s)
  BY <1>1, <1>3
<1> QED BY <1>4, Zenon DEF reply, new, s, txn, success

\* and what it promises, if that is the condition of the function.
LEMMA TxnDeletePromised ==
  ASSUME NEW c, c.fn \in UserDeletes \cup {"rm_if"}, c.to \in Keys,
         NEW st, NEW rev \in Nat, StoreOK(st, rev), NEW comparison, NEW failure,
         NEW request, NEW range, Deleting(st, rev, request, range),
         FoundIn(st, range) = {k \in Selected(c) : Exists(st[k])},
         Holds(st, comparison), Condition(c, st)
  PROVE  LET reply == Execute(st, rev, Txn(comparison, <<request>>, failure))
         IN  /\ reply.succeeded
             /\ Promise(c, st, rev, reply.store, reply.revision, MakeResponse(ParseTxn(reply)))
<1> DEFINE reply == Execute(st, rev, Txn(comparison, <<request>>, failure))
           resp  == MakeResponse(ParseTxn(reply))
           new   == Removed(st, range)
           s     == InStore(st, range)
<1>1. /\ reply.store = new /\ reply.revision = (IF new = st THEN rev ELSE rev + 1)
      /\ reply.succeeded
      /\ ParseTxn(reply) = V3Response("OK", FirstOf(s), FirstOf(s), s, s)
  BY TxnDelete
<1> HIDE DEF reply
<1>2. resp = Shown("OK", FirstOf(s), s)
  <2> HIDE DEF s
  <2> QED BY <1>1, ResponseMade
<1> HIDE DEF resp, s
<1>3. resp.error = "OK" /\ resp.prev = FirstOf(s) /\ resp.values = s
  BY <1>2, ShownFields
<1>4. Changes(st, rev, new, IF new = st THEN rev ELSE rev + 1)
  BY RemovedFacts
<1>5. \A j \in Keys : new[j].value = Intended(c, st, j)
  <2>1. c.fn \in Deletes
    BY DEF Deletes
  <2> QED BY <2>1, DeleteEffect
<1> HIDE DEF new
<1>6. Truthful(c, st, new, resp)
  BY <1>3, <1>5 DEF Truthful
<1>7. ToSet(s) = Found(c, st)
  BY InStoreFacts DEF s, Found
<1>8. c.fn \in {"rm_if", "and_delete", "or_delete"} => FirstOf(s) = st[c.to]
  <2> SUFFICES ASSUME c.fn \in {"rm_if", "and_delete", "or_delete"} PROVE FirstOf(s) = st[c.to]
    OBVIOUS
  <2>1. Selected(c) = {c.to}
    BY DEF Selected, Prefixed, Ranged
  <2>2. FoundIn(st, range) = IF Exists(st[c.to]) THEN {c.to} ELSE {}
    BY <2>1
  <2>3. s = <<>> <=> FoundIn(st, range) = {}
    BY InStoreFacts DEF s
  <2>4. CASE Exists(st[c.to])
    <3>1. /\ s \in Seq(KVs)
          /\ \A i \in 1 .. Len(s) : s[i].key \in FoundIn(st, range) /\ s[i] = st[s[i].key]
      BY InStoreFacts DEF s
    <3>2. s # <<>>
      BY <2>2, <2>3, <2>4
    <3>3. 1 \in 1 .. Len(s)
      BY <3>1, <3>2
    <3>4. s[1] = st[c.to]
      BY <2>2, <2>4, <3>1, <3>3
    <3> QED BY <3>2, <3>4 DEF FirstOf
  <2>5. CASE ~Exists(st[c.to])
    <3>1. s = <<>>
      BY <2>2, <2>3, <2>5
    <3>2. st[c.to] = NoKV
      BY <2>5 DEF StoreOK, Present
    <3> QED BY <3>1, <3>2 DEF FirstOf
  <2> QED BY <2>4, <2>5
<1>9. Reported(c, st, new, resp)
  BY <1>3, <1>7, <1>8 DEF Reported, Ranged, UserDeletes
<1>10. c.fn # "modify_if"
  BY DEF UserDeletes
<1>11. Promise(c, st, rev, new, IF new = st THEN rev ELSE rev + 1, resp)
  BY <1>3, <1>4, <1>6, <1>9, <1>10 DEF Promise
<1> QED BY <1>1, <1>11, Zenon DEF reply, resp

\* The same with a put.
LEMMA TxnPutPromised ==
  ASSUME NEW c \in Calls,
         c.fn \in {"and_create", "or_create", "and_swap", "or_swap", "if_none"},
         NEW k \in Keys, Selected(c) = {k}, NEW v, v = c.value,
         NEW st, NEW rev \in Nat, StoreOK(st, rev), NEW comparison, NEW failure,
         Holds(st, comparison), Condition(c, st)
  PROVE  LET reply == Execute(st, rev, Txn(comparison, <<PutOf(k, v)>>, failure))
         IN  /\ reply.succeeded
             /\ Promise(c, st, rev, reply.store, reply.revision, MakeResponse(ParseTxn(reply)))
<1> DEFINE success == <<PutOf(k, v)>>
           txn   == Txn(comparison, success, failure)
           reply == Execute(st, rev, txn)
           resp  == MakeResponse(ParseTxn(reply))
           new   == Written(st, rev, k, v)
<1>0. v \in Values
  BY CallFacts
<1>1. Branch(st, txn) = success /\ Succeeds(st, txn)
  <2> HIDE DEF success
  <2> QED BY TxnSucceeds
<1>2. Branch(st, txn) = <<PutOf(k, v)>>
  BY <1>1
<1> HIDE DEF txn, success
<1>3. /\ reply.store = new /\ reply.revision = rev + 1
      /\ reply.succeeded = Succeeds(st, txn)
      /\ ParseTxn(reply) = V3Response("OK", NoKV, NoKV, <<>>, <<NoKV>>)
  BY <1>0, <1>2, BranchPut
<1> HIDE DEF reply
<1>4. resp = Shown("OK", NoKV, <<>>)
  <2>1. FirstOf(<<>>) = NoKV
    BY DEF FirstOf
  <2>2. ParseTxn(reply) = V3Response("OK", FirstOf(<<>>), NoKV, <<>>, <<NoKV>>)
    BY <1>3, <2>1, Zenon
  <2> QED BY <2>2, ResponseMade
<1> HIDE DEF resp
<1>5. resp.error = "OK"
  BY <1>4, ShownFields
<1>6. Changes(st, rev, new, rev + 1)
  BY <1>0, WrittenFacts
<1>7. \A j \in Keys : new[j].value = Intended(c, st, j)
  <2>1. c.fn \in Puts
    BY DEF Puts
  <2> QED BY <2>1, PutEffect
<1> HIDE DEF new
<1>8. Truthful(c, st, new, resp)
  BY <1>5, <1>7 DEF Truthful
<1>9. Reported(c, st, new, resp)
  BY DEF Reported, Ranged
<1>10. Promise(c, st, rev, new, rev + 1, resp)
  BY <1>5, <1>6, <1>8, <1>9 DEF Promise
<1>11. reply.succeeded /\ reply.store = new /\ reply.revision = rev + 1
  BY <1>1, <1>3
<1> QED BY <1>10, <1>11, Zenon DEF reply, resp, txn, success

----------------------------------------------------------------------------
(* Transactions of the user. *)

\* A transaction with the keys compared read when the comparison fails: it is
\* enough that its success keeps the promise.
LEMMA ComparedPromised ==
  ASSUME NEW c, c.fn \notin {"get", "put", "rm", "rmdir", "rmdir_range", "add", "modify",
                             "ls", "ls_limit", "keys", "ls_range"},
         NEW st, NEW rev \in Nat, StoreOK(st, rev), NEW comparison, NEW success, NEW k, NEW to,
         Request(c) = Txn(comparison, success, <<ReadOf(k, to)>>),
         Holds(st, comparison) <=> Condition(c, st),
         FoundIn(st, RangeOf(k, to)) = {j \in Compared(c) : Exists(st[j])},
         NEW reply, reply = Execute(st, rev, Txn(comparison, success, <<ReadOf(k, to)>>)),
         Holds(st, comparison) =>
           /\ reply.succeeded
           /\ Promise(c, st, rev, reply.store, reply.revision, MakeResponse(ParseTxn(reply)))
  PROVE  Promised(c, st, rev)
<1>1. Parse(c, reply) = ParseCompared(reply, "COMPARE_FAILED")
  BY DEF Parse
<1>2. reply = Execute(st, rev, Request(c))
  BY Zenon
<1>3. Promise(c, st, rev, reply.store, reply.revision, MakeResponse(Parse(c, reply)))
  <2>1. CASE Holds(st, comparison)
    <3>1. Parse(c, reply) = ParseTxn(reply)
      BY <1>1, <2>1 DEF ParseCompared
    <3> QED BY <2>1, <3>1, Zenon
  <2>2. CASE ~Holds(st, comparison)
    <3> DEFINE again == Execute(st, rev, Txn(comparison, success, <<ReadOf(k, to)>>))
    <3>1. Promise(c, st, rev, again.store, again.revision,
                  MakeResponse(ParseCompared(again, "COMPARE_FAILED")))
      BY <2>2, ComparisonFails
    <3> QED BY <3>1, <1>1, Zenon
  <2> QED BY <2>1, <2>2
<1> QED BY <1>2, <1>3, Zenon DEF Promised

\* rm_if() keeps its promise.
LEMMA RemoveIfPromised ==
  ASSUME NEW c \in Calls, c.fn = "rm_if", NEW st, NEW rev \in Nat, StoreOK(st, rev)
  PROVE  Promised(c, st, rev)
<1> DEFINE comparison == Comparison(c.key, <<>>, c.old.target, "EQUAL", c.old.operand)
           request    == RemoveOf(c.key)
           range      == RangeOf(c.key, <<>>)
           success    == <<request>>
           failure    == <<ReadOf(c.key, <<>>)>>
           reply      == Execute(st, rev, Txn(comparison, success, failure))
<1>0. c.key \in Keys /\ c.to = c.key /\ c.old \in Olds
  BY CallFacts DEF Prefixed, Transactions, Ranged
<1>1. Request(c) = Txn(comparison, success, failure)
  <2>1. Request(c) = CompareAndDeleteTxn(c)
    BY DEF Request
  <2> QED BY <2>1, TxnShapes, Zenon DEF RemoveOf, ReadOf
<1>2. Holds(st, comparison) <=> Condition(c, st)
  BY <1>0, MatchCompared DEF Condition
<1>3. Deleting(st, rev, request, range)
  BY RemovalsReplied
<1>4. FoundIn(st, range) = {j \in Selected(c) : Exists(st[j])}
  BY <1>0, KeyFound DEF Selected, Prefixed, Ranged
<1>5. FoundIn(st, range) = {j \in Compared(c) : Exists(st[j])}
  BY <1>0, OneKeyCompared
<1>6. Holds(st, comparison) =>
        /\ reply.succeeded
        /\ Promise(c, st, rev, reply.store, reply.revision, MakeResponse(ParseTxn(reply)))
  <2> HIDE DEF comparison, request, range, failure
  <2> QED BY <1>0, <1>2, <1>3, <1>4, TxnDeletePromised
<1> HIDE DEF comparison, success, reply
<1>7. reply = Execute(st, rev, Txn(comparison, success, failure))
  BY DEF reply
<1> QED BY <1>1, <1>2, <1>5, <1>6, <1>7, ComparedPromised

\* The transactions of the setup_compare functions.
SetupComparison(c) ==
  Comparison(c.key, <<>>, c.old.target,
             IF c.fn \in {"and_create", "and_swap", "and_delete", "and_rmdir"}
             THEN "EQUAL" ELSE "NOT_EQUAL", c.old.operand)

\* It is the condition of the function.
LEMMA SetupCompared ==
  ASSUME NEW c \in Calls, c.fn \in Transactions \ {"if_none", "nested"},
         NEW st, NEW rev \in Nat, StoreOK(st, rev)
  PROVE  Holds(st, SetupComparison(c)) <=> Condition(c, st)
<1>0. c.key \in Keys /\ c.old \in Olds
  BY CallFacts DEF Prefixed, Transactions
<1>1. CASE c.fn \in {"and_create", "and_swap", "and_delete", "and_rmdir"}
  <2>1. SetupComparison(c) = Comparison(c.key, <<>>, c.old.target, "EQUAL", c.old.operand)
    BY <1>1 DEF SetupComparison
  <2>2. Holds(st, SetupComparison(c)) <=> Matches(st[c.key], c.old)
    BY <2>1, <1>0, MatchCompared
  <2> QED BY <2>2, <1>1 DEF Condition
<1>2. CASE c.fn \in {"or_create", "or_swap", "or_delete", "or_rmdir"}
  <2>1. SetupComparison(c) = Comparison(c.key, <<>>, c.old.target, "NOT_EQUAL", c.old.operand)
    BY <1>2 DEF SetupComparison
  <2>2. Holds(st, SetupComparison(c)) <=>
          /\ ~Matches(st[c.key], c.old)
          /\ c.old.target = "value" => Exists(st[c.key])
    BY <2>1, <1>0, MatchCompared
  <2> QED BY <2>2, <1>2 DEF Condition
<1> QED BY <1>1, <1>2 DEF Transactions

\* Their puts and deletes.
LEMMA SetupRequest ==
  ASSUME NEW c, c.fn \in Transactions \ {"if_none", "nested"}
  PROVE  /\ c.fn \notin UserDeletes =>
              Request(c) =
                Txn(SetupComparison(c), <<PutOf(c.to, c.value)>>, <<ReadOf(c.key, <<>>)>>)
         /\ c.fn \in {"and_delete", "or_delete"} =>
              Request(c) = Txn(SetupComparison(c), <<RemoveOf(c.to)>>, <<ReadOf(c.key, <<>>)>>)
         /\ c.fn \in {"and_rmdir", "or_rmdir"} =>
              Request(c) = Txn(SetupComparison(c), <<RemoveDirOf(c.to)>>, <<ReadOf(c.key, <<>>)>>)
<1> DEFINE result == IF c.fn \in {"and_create", "and_swap", "and_delete", "and_rmdir"}
                     THEN "EQUAL" ELSE "NOT_EQUAL"
<1>1. Request(c) = SetupTxn(c)
  <2>1. Request(c) = UserTxn(c)
    BY DEF Request, Transactions
  <2>2. UserTxn(c) = SetupTxn(c)
    BY DEF UserTxn
  <2> QED BY <2>1, <2>2
<1>2. \A request : setup_compare(c.key, c.old.target, result, c.old.operand, request) =
                     Txn(SetupComparison(c), <<request>>, <<ReadOf(c.key, <<>>)>>)
  BY SetupShape, Zenon DEF SetupComparison, ReadOf
<1>3. SetupTxn(c) =
        IF c.fn \in UserDeletes
        THEN setup_compare(c.key, c.old.target, result, c.old.operand,
               DeleteRequest(c.to, <<>>, c.fn \in {"and_rmdir", "or_rmdir"}, TRUE))
        ELSE setup_compare(c.key, c.old.target, result, c.old.operand,
               PutRequest(c.to, c.value, FALSE))
  BY Zenon DEF SetupTxn, setup_compare_put, setup_compare_delete
<1> HIDE DEF result
<1>4. ASSUME c.fn \notin UserDeletes
      PROVE  Request(c) = Txn(SetupComparison(c), <<PutOf(c.to, c.value)>>,
                              <<ReadOf(c.key, <<>>)>>)
  BY <1>1, <1>2, <1>3, <1>4, Zenon DEF PutOf
<1>5. ASSUME c.fn \in {"and_delete", "or_delete"}
      PROVE  Request(c) = Txn(SetupComparison(c), <<RemoveOf(c.to)>>, <<ReadOf(c.key, <<>>)>>)
  <2>1. c.fn \in UserDeletes /\ c.fn \notin {"and_rmdir", "or_rmdir"}
    BY <1>5 DEF UserDeletes
  <2>2. (c.fn \in {"and_rmdir", "or_rmdir"}) = FALSE
    BY <2>1
  <2>3. DeleteRequest(c.to, <<>>, c.fn \in {"and_rmdir", "or_rmdir"}, TRUE) = RemoveOf(c.to)
    BY <2>2, Zenon DEF RemoveOf
  <2> QED BY <1>1, <1>2, <1>3, <2>1, <2>3, Zenon
<1>6. ASSUME c.fn \in {"and_rmdir", "or_rmdir"}
      PROVE  Request(c) = Txn(SetupComparison(c), <<RemoveDirOf(c.to)>>, <<ReadOf(c.key, <<>>)>>)
  <2>1. c.fn \in UserDeletes /\ c.fn \in {"and_rmdir", "or_rmdir"}
    BY <1>6 DEF UserDeletes
  <2>2. (c.fn \in {"and_rmdir", "or_rmdir"}) = TRUE
    BY <2>1, Zenon
  <2>3. DeleteRequest(c.to, <<>>, c.fn \in {"and_rmdir", "or_rmdir"}, TRUE) = RemoveDirOf(c.to)
    BY <2>2, Zenon DEF RemoveDirOf
  <2> QED BY <1>1, <1>2, <1>3, <2>1, <2>3, Zenon
<1> QED BY <1>4, <1>5, <1>6

\* They keep their promise.
LEMMA SetupPromised ==
  ASSUME NEW c \in Calls, c.fn \in Transactions \ {"if_none", "nested"},
         NEW st, NEW rev \in Nat, StoreOK(st, rev)
  PROVE  Promised(c, st, rev)
<1> DEFINE comparison == SetupComparison(c)
           failure    == <<ReadOf(c.key, <<>>)>>
<1>0. c.key \in Keys /\ c.to \in Keys
  BY CallFacts DEF Prefixed, Transactions
<1>1. Holds(st, comparison) <=> Condition(c, st)
  BY SetupCompared
<1>2. FoundIn(st, RangeOf(c.key, <<>>)) = {j \in Compared(c) : Exists(st[j])}
  BY <1>0, OneKeyCompared DEF Transactions
<1>3. c.fn \notin {"get", "put", "rm", "rmdir", "rmdir_range", "add", "modify",
                   "ls", "ls_limit", "keys", "ls_range"}
  BY DEF Transactions
<1>4. CASE c.fn \in {"and_create", "or_create", "and_swap", "or_swap"}
  <2> DEFINE success == <<PutOf(c.to, c.value)>>
             reply   == Execute(st, rev, Txn(comparison, success, failure))
             k       == c.to
             v       == c.value
  <2>1. Request(c) = Txn(comparison, success, failure)
    BY <1>4, SetupRequest DEF UserDeletes
  <2>2. Selected(c) = {c.to}
    BY <1>4 DEF Selected, Prefixed, Ranged
  <2>3. Holds(st, comparison) =>
          /\ reply.succeeded
          /\ Promise(c, st, rev, reply.store, reply.revision, MakeResponse(ParseTxn(reply)))
    <3> SUFFICES ASSUME Holds(st, comparison)
                 PROVE  /\ reply.succeeded
                        /\ Promise(c, st, rev, reply.store, reply.revision,
                                   MakeResponse(ParseTxn(reply)))
      OBVIOUS
    <3>1. k \in Keys /\ Selected(c) = {k} /\ v = c.value /\ Condition(c, st)
      BY <1>0, <1>1, <2>2
    <3> HIDE DEF k, v, failure
    <3> DEFINE again == Execute(st, rev, Txn(comparison, <<PutOf(k, v)>>, failure))
    <3>2. /\ again.succeeded
          /\ Promise(c, st, rev, again.store, again.revision, MakeResponse(ParseTxn(again)))
      <4> HIDE DEF comparison
      <4> QED BY <1>4, <3>1, TxnPutPromised
    <3> QED BY <3>2, Zenon DEF k, v
  <2> HIDE DEF comparison, success, reply
  <2>4. reply = Execute(st, rev, Txn(comparison, success, failure))
    BY DEF reply
  <2> QED BY <1>1, <1>2, <1>3, <2>1, <2>3, <2>4, ComparedPromised
<1>5. ASSUME NEW request, NEW range, Deleting(st, rev, request, range),
             c.fn \in UserDeletes,
             FoundIn(st, range) = {j \in Selected(c) : Exists(st[j])},
             Request(c) = Txn(comparison, <<request>>, failure)
      PROVE  Promised(c, st, rev)
  <2> DEFINE success == <<request>>
             reply   == Execute(st, rev, Txn(comparison, success, failure))
  <2>1. Holds(st, comparison) =>
          /\ reply.succeeded
          /\ Promise(c, st, rev, reply.store, reply.revision, MakeResponse(ParseTxn(reply)))
    <3> HIDE DEF comparison, failure
    <3> QED BY <1>0, <1>1, <1>5, TxnDeletePromised
  <2>2. Request(c) = Txn(comparison, success, failure)
    BY <1>5
  <2> HIDE DEF comparison, success, reply
  <2>3. reply = Execute(st, rev, Txn(comparison, success, failure))
    BY DEF reply
  <2> QED BY <1>1, <1>2, <1>3, <2>1, <2>2, <2>3, ComparedPromised
<1>6. CASE c.fn \in {"and_delete", "or_delete"}
  <2>1. Request(c) = Txn(comparison, <<RemoveOf(c.to)>>, failure)
    BY <1>6, SetupRequest
  <2>2. FoundIn(st, RangeOf(c.to, <<>>)) = {j \in Selected(c) : Exists(st[j])}
    BY <1>0, <1>6, KeyFound DEF Selected, Prefixed, Ranged
  <2>3. Deleting(st, rev, RemoveOf(c.to), RangeOf(c.to, <<>>))
    BY RemovalsReplied
  <2> HIDE DEF comparison, failure
  <2> QED BY <1>5, <1>6, <2>1, <2>2, <2>3 DEF UserDeletes
<1>7. CASE c.fn \in {"and_rmdir", "or_rmdir"}
  <2>1. Request(c) = Txn(comparison, <<RemoveDirOf(c.to)>>, failure)
    BY <1>7, SetupRequest
  <2>2. FoundIn(st, DirOf(c.to)) = {j \in Selected(c) : Exists(st[j])}
    <3>1. Selected(c) = {k \in Keys : IsPrefix(c.to, k)}
      BY <1>7, SelectedKeys
    <3>2. FoundIn(st, DirOf(c.to)) = {j \in {k \in Keys : IsPrefix(c.to, k)} : Exists(st[j])}
      BY <1>0, KeyNotEmpty, PrefixFound
    <3> QED BY <3>1, <3>2, Zenon
  <2>3. Deleting(st, rev, RemoveDirOf(c.to), DirOf(c.to))
    BY RemovalsReplied
  <2> HIDE DEF comparison, failure
  <2> QED BY <1>5, <1>7, <2>1, <2>2, <2>3 DEF UserDeletes
<1> QED BY <1>4, <1>6, <1>7 DEF Transactions

\* So does the transaction that compares a range,
LEMMA IfNonePromised ==
  ASSUME NEW c \in Calls, c.fn = "if_none", NEW st, NEW rev \in Nat, StoreOK(st, rev)
  PROVE  Promised(c, st, rev)
<1> DEFINE comparison == Comparison(c.key, c.to, "version", "EQUAL", 0)
           k          == c.key
           v          == c.value
           success    == <<PutOf(k, v)>>
           failure    == <<ReadOf(c.key, c.to)>>
           reply      == Execute(st, rev, Txn(comparison, success, failure))
<1>0. c.key \in Keys /\ c.to \in Keys
  BY CallFacts DEF Prefixed
<1>1. Request(c) = Txn(comparison, success, failure)
  <2>1. Request(c) = UserTxn(c)
    BY DEF Request
  <2>2. UserTxn(c) = IfNoneTxn(c)
    BY DEF UserTxn
  <2> QED BY <2>1, <2>2, TxnShapesUser, Zenon DEF PutOf, ReadOf
<1>2. Holds(st, comparison) <=> Condition(c, st)
  BY <1>0, RangeCompared DEF Condition, Compared
<1>3. Selected(c) = {k} /\ k \in Keys /\ v = c.value
  BY <1>0, SelectedKeys
<1>4. FoundIn(st, RangeOf(c.key, c.to)) = {j \in Compared(c) : Exists(st[j])}
  BY <1>0, RangeFound DEF Compared
<1>5. Holds(st, comparison) =>
        /\ reply.succeeded
        /\ Promise(c, st, rev, reply.store, reply.revision, MakeResponse(ParseTxn(reply)))
  <2> HIDE DEF comparison, k, v, failure
  <2> QED BY <1>2, <1>3, TxnPutPromised
<1> HIDE DEF comparison, success, reply
<1>6. reply = Execute(st, rev, Txn(comparison, success, failure))
  BY DEF reply
<1> QED BY <1>1, <1>2, <1>4, <1>5, <1>6, ComparedPromised

\* and the one with another in it.
LEMMA NestedPromised ==
  ASSUME NEW c \in Calls, c.fn = "nested", NEW st, NEW rev \in Nat, StoreOK(st, rev)
  PROVE  Promised(c, st, rev)
<1> DEFINE comparison == Comparison(c.key, <<>>, c.old.target, "EQUAL", c.old.operand)
           k          == c.to
           v          == c.value
           inner      == TxnRequest(Txn(Comparison(k, <<>>, "create", "EQUAL", 0),
                                        <<PutOf(k, v)>>, <<ReadOf(k, <<>>)>>))
           success    == <<inner>>
           failure    == <<ReadOf(c.key, <<>>)>>
           txn        == Txn(comparison, success, failure)
           reply      == Execute(st, rev, txn)
           new        == IF Exists(st[k]) THEN st ELSE Written(st, rev, k, v)
<1>0. c.key \in Keys /\ k \in Keys /\ v \in Values /\ c.old \in Olds
  BY CallFacts DEF Prefixed
<1>1. Request(c) = txn
  <2>1. Request(c) = UserTxn(c)
    BY DEF Request
  <2>2. UserTxn(c) = NestedTxn(c)
    BY DEF UserTxn
  <2> QED BY <2>1, <2>2, TxnShapesUser, Zenon DEF PutOf, ReadOf
<1>2. Holds(st, comparison) <=> Condition(c, st)
  BY <1>0, MatchCompared DEF Condition
<1>3. Selected(c) = {k}
  BY SelectedKeys DEF Prefixed, Ranged
<1>4. FoundIn(st, RangeOf(c.key, <<>>)) = {j \in Compared(c) : Exists(st[j])}
  BY <1>0, OneKeyCompared
<1>5. Holds(st, comparison) =>
        /\ reply.succeeded
        /\ Promise(c, st, rev, reply.store, reply.revision, MakeResponse(ParseTxn(reply)))
  <2> SUFFICES ASSUME Holds(st, comparison)
               PROVE  /\ reply.succeeded
                      /\ Promise(c, st, rev, reply.store, reply.revision,
                                 MakeResponse(ParseTxn(reply)))
    OBVIOUS
  <2>1. Branch(st, txn) = success /\ Succeeds(st, txn)
    <3> HIDE DEF comparison, success, failure
    <3> QED BY TxnSucceeds
  <2>2. Branch(st, txn) = <<inner>>
    BY <2>1
  <2> HIDE DEF txn, k, v
  <2>3. /\ reply.store = new /\ reply.revision = (IF new = st THEN rev ELSE rev + 1)
        /\ reply.succeeded = Succeeds(st, txn)
        /\ ParseTxn(reply) = V3Response("OK", NoKV, NoKV, <<>>, <<>>)
    BY <1>0, <2>2, BranchNested
  <2> HIDE DEF reply
  <2> DEFINE resp == MakeResponse(ParseTxn(reply))
  <2>4. resp = Shown("OK", NoKV, <<>>)
    <3>1. FirstOf(<<>>) = NoKV
      BY DEF FirstOf
    <3>2. ParseTxn(reply) = V3Response("OK", FirstOf(<<>>), NoKV, <<>>, <<>>)
      BY <2>3, <3>1, Zenon
    <3> QED BY <3>2, ResponseMade
  <2> HIDE DEF resp
  <2>5. resp.error = "OK"
    BY <2>4, ShownFields
  <2>6. /\ Changes(st, rev, new, IF new = st THEN rev ELSE rev + 1)
        /\ \A j \in Keys : new[j].value = Intended(c, st, j)
    <3>1. c.fn \notin Puts /\ c.fn \notin Deletes
      BY DEF Puts, Deletes, UserDeletes
    <3>2. CASE Exists(st[k])
      <4>1. new = st
        BY <3>2
      <4>2. \A j \in Keys : st[j].value = Intended(c, st, j)
        BY <1>3, <3>1, <3>2 DEF Intended
      <4>3. Changes(st, rev, st, rev)
        BY NothingFacts
      <4> QED BY <4>1, <4>2, <4>3
    <3>3. CASE ~Exists(st[k])
      <4> DEFINE written == Written(st, rev, k, v)
      <4>1. new = written
        BY <3>3
      <4>2. /\ Changes(st, rev, written, rev + 1) /\ written # st
            /\ written[k].value = v /\ \A j \in Keys \ {k} : written[j] = st[j]
        BY <1>0, WrittenFacts
      <4> HIDE DEF written
      <4>3. \A j \in Keys : written[j].value = Intended(c, st, j)
        BY <1>3, <3>1, <3>3, <4>2 DEF Intended, v
      <4> HIDE DEF new
      <4> QED BY <4>1, <4>2, <4>3
    <3> QED BY <3>2, <3>3
  <2> HIDE DEF new
  <2>7. Truthful(c, st, new, resp)
    BY <1>2, <2>5, <2>6 DEF Truthful
  <2>8. Reported(c, st, new, resp)
    BY DEF Reported, Ranged
  <2>9. Promise(c, st, rev, new, IF new = st THEN rev ELSE rev + 1, resp)
    BY <2>5, <2>6, <2>7, <2>8 DEF Promise
  <2>10. /\ reply.store = new /\ reply.revision = (IF new = st THEN rev ELSE rev + 1)
         /\ reply.succeeded
    BY <2>1, <2>3
  <2> QED BY <2>9, <2>10, Zenon DEF resp
<1> HIDE DEF comparison, success, reply
<1>6. reply = Execute(st, rev, Txn(comparison, success, failure))
  BY DEF reply
<1> QED BY <1>1, <1>2, <1>4, <1>5, <1>6, ComparedPromised

----------------------------------------------------------------------------
(* Requests on their own. *)

\* How the response of a request on its own is read,
LEMMA ParsedAlone ==
  ASSUME NEW s, NEW old
  PROVE  /\ ParseOne(RangeReply(s), FALSE) =
              IF s = <<>> THEN Error("KEY_NOT_FOUND") ELSE V3Response("OK", s[1], NoKV, <<>>, <<>>)
         /\ ParseOne(PutReply(old), FALSE) = V3Response("OK", NoKV, old, <<>>, <<old>>)
         /\ ParseOne(DeleteReply(s), FALSE) =
              IF s = <<>> THEN Error("KEY_NOT_FOUND") ELSE V3Response("OK", s[1], s[1], s, s)
         /\ ParseRange(RangeReply(s), TRUE) = V3Response("OK", NoKV, NoKV, s, <<>>)
<1>1. ParseOne(RangeReply(s), FALSE) =
        IF s = <<>> THEN Error("KEY_NOT_FOUND") ELSE V3Response("OK", s[1], NoKV, <<>>, <<>>)
  BY DEF ParseOne, RangeReply, ParseRange
<1>2. ParseOne(PutReply(old), FALSE) = V3Response("OK", NoKV, old, <<>>, <<old>>)
  BY DEF ParseOne, PutReply, ParsePut
<1>3. ParseOne(DeleteReply(s), FALSE) =
        IF s = <<>> THEN Error("KEY_NOT_FOUND") ELSE V3Response("OK", s[1], s[1], s, s)
  BY DEF ParseOne, DeleteReply, ParseDelete
<1>4. ParseRange(RangeReply(s), TRUE) = V3Response("OK", NoKV, NoKV, s, <<>>)
  BY DEF RangeReply, ParseRange
<1> QED BY <1>1, <1>2, <1>3, <1>4

\* an error among them.
LEMMA NotFoundMade ==
  MakeResponse(Error("KEY_NOT_FOUND")) = Shown("KEY_NOT_FOUND", NoKV, <<>>)
  BY DEF MakeResponse, Error, V3Response, Shown, FirstOf

\* Executing a request on its own.
LEMMA Alone ==
  ASSUME NEW st, NEW rev, NEW request, NEW new, NEW response,
         ExecuteOp(st, st, rev, request) = [store |-> new, response |-> response]
  PROVE  LET reply == Execute(st, rev, Single(request))
         IN  /\ reply.store = new /\ reply.revision = (IF new = st THEN rev ELSE rev + 1)
             /\ reply.responses[1] = response
<1> DEFINE reply == Execute(st, rev, Single(request))
           one   == ExecuteOp(st, st, rev, request)
<1>1. one.store = new /\ one.response = response
  <2>1. one = [store |-> new, response |-> response]
    OBVIOUS
  <2> HIDE DEF one
  <2> QED BY <2>1
<1>2. reply = [store     |-> one.store,
               revision  |-> IF one.store = st THEN rev ELSE rev + 1,
               succeeded |-> TRUE,
               responses |-> <<one.response>>]
  BY SingleReply
<1> HIDE DEF reply, one
<1>3. reply.store = one.store /\ reply.revision = (IF one.store = st THEN rev ELSE rev + 1)
      /\ reply.responses = <<one.response>>
  BY <1>2
<1>4. /\ reply.store = new /\ reply.revision = (IF new = st THEN rev ELSE rev + 1)
      /\ reply.responses[1] = response
  BY <1>1, <1>3
<1> QED BY <1>4 DEF reply

\* get(),
LEMMA GetPromised ==
  ASSUME NEW c \in Calls, c.fn = "get", NEW st, NEW rev \in Nat, StoreOK(st, rev)
  PROVE  Promised(c, st, rev)
<1> DEFINE k     == c.key
           s     == InStore(st, RangeOf(k, <<>>))
           reply == Execute(st, rev, Single(ReadOf(k, <<>>)))
           resp  == MakeResponse(Parse(c, reply))
<1>0. k \in Keys /\ c.to = k
  BY CallFacts DEF Prefixed, Transactions, Ranged
<1>1. Request(c) = Single(ReadOf(k, <<>>))
  BY DEF Request, ReadOf
<1>2. s = IF Exists(st[k]) THEN <<st[k]>> ELSE <<>>
  BY <1>0, KeyInStore DEF RangeOf
<1>3. Condition(c, st) <=> Exists(st[k])
  <2>1. Selected(c) = {k}
    BY <1>0, SelectedKeys DEF Prefixed, Ranged
  <2> QED BY <2>1 DEF Condition
<1>4. /\ reply.store = st /\ reply.revision = rev /\ reply.responses[1] = RangeReply(s)
  BY ReadExecuted, Alone
<1> HIDE DEF reply, s
<1>5. Parse(c, reply) =
        IF s = <<>> THEN Error("KEY_NOT_FOUND") ELSE V3Response("OK", s[1], NoKV, <<>>, <<>>)
  <2>1. Parse(c, reply) = ParseOne(reply.responses[1], FALSE)
    BY DEF Parse
  <2>2. Parse(c, reply) = ParseOne(RangeReply(s), FALSE)
    BY <2>1, <1>4, Zenon
  <2>3. ParseOne(RangeReply(s), FALSE) =
          IF s = <<>> THEN Error("KEY_NOT_FOUND") ELSE V3Response("OK", s[1], NoKV, <<>>, <<>>)
    BY ParsedAlone
  <2> QED BY <2>2, <2>3, Zenon
<1>6. CASE Exists(st[k])
  <2>1. s # <<>> /\ s[1] = st[k]
    BY <1>2, <1>6
  <2>2. Parse(c, reply) = V3Response("OK", st[k], NoKV, <<>>, <<>>)
    BY <1>5, <2>1
  <2>3. resp.error = "OK" /\ resp.value = st[k]
    BY <2>2 DEF MakeResponse, V3Response
  <2> HIDE DEF resp
  <2>4. \A j \in Keys : st[j].value = Intended(c, st, j)
    BY DEF Intended, Puts, Deletes, UserDeletes
  <2>5. Truthful(c, st, st, resp)
    BY <1>3, <1>6, <2>3, <2>4 DEF Truthful
  <2>6. Reported(c, st, st, resp)
    BY <2>3 DEF Reported, Ranged
  <2>7. Promise(c, st, rev, st, rev, resp)
    BY <2>3, <2>5, <2>6, NothingFacts DEF Promise
  <2> QED BY <1>1, <1>4, <2>7, Zenon DEF Promised, reply, resp
<1>7. CASE ~Exists(st[k])
  <2>1. Parse(c, reply) = Error("KEY_NOT_FOUND")
    BY <1>2, <1>5, <1>7
  <2>2. resp.error = "KEY_NOT_FOUND"
    BY <2>1, NotFoundMade, ShownFields
  <2> HIDE DEF resp
  <2>3. Truthful(c, st, st, resp)
    BY <1>3, <1>7, <2>2 DEF Truthful
  <2>4. Promise(c, st, rev, st, rev, resp)
    BY <2>2, <2>3, NothingFacts DEF Promise, Transactions
  <2> QED BY <1>1, <1>4, <2>4, Zenon DEF Promised, reply, resp
<1> QED BY <1>6, <1>7

\* put(),
LEMMA PutPromised ==
  ASSUME NEW c \in Calls, c.fn = "put", NEW st, NEW rev \in Nat, StoreOK(st, rev)
  PROVE  Promised(c, st, rev)
<1> DEFINE k     == c.key
           v     == c.value
           reply == Execute(st, rev, Single(PutPreviousOf(k, v)))
           resp  == MakeResponse(Parse(c, reply))
           new   == Written(st, rev, k, v)
<1>0. k \in Keys /\ c.to = k /\ v \in Values
  BY CallFacts DEF Prefixed, Transactions, Ranged
<1>1. Request(c) = Single(PutPreviousOf(k, v))
  BY DEF Request, PutPreviousOf
<1>2. /\ Changes(st, rev, new, rev + 1) /\ new # st
      /\ \A j \in Keys : new[j].value = Intended(c, st, j)
  <2>1. Selected(c) = {k} /\ c.fn \in Puts
    BY <1>0, SelectedKeys DEF Prefixed, Ranged, Puts
  <2> QED BY <1>0, <2>1, PutEffect, WrittenFacts
<1>3. /\ reply.store = new /\ reply.revision = rev + 1 /\ reply.responses[1] = PutReply(st[k])
  <2>1. ExecuteOp(st, st, rev, PutPreviousOf(k, v)) =
          [store |-> new, response |-> PutReply(st[k])]
    BY PutPreviousReplied
  <2>2. /\ reply.store = new /\ reply.revision = (IF new = st THEN rev ELSE rev + 1)
        /\ reply.responses[1] = PutReply(st[k])
    <3> HIDE DEF new
    <3> QED BY <2>1, Alone
  <2> HIDE DEF reply, new
  <2> QED BY <1>2, <2>2
<1> HIDE DEF reply, new
<1>4. Parse(c, reply) = V3Response("OK", NoKV, st[k], <<>>, <<st[k]>>)
  <2>1. Parse(c, reply) = ParseOne(reply.responses[1], FALSE)
    BY DEF Parse
  <2>2. Parse(c, reply) = ParseOne(PutReply(st[k]), FALSE)
    BY <2>1, <1>3, Zenon
  <2>3. ParseOne(PutReply(st[k]), FALSE) = V3Response("OK", NoKV, st[k], <<>>, <<st[k]>>)
    BY ParsedAlone
  <2> QED BY <2>2, <2>3, Zenon
<1>5. resp.error = "OK" /\ resp.prev = st[k]
  BY <1>4 DEF MakeResponse, V3Response
<1> HIDE DEF resp
<1>6. Truthful(c, st, new, resp)
  BY <1>2, <1>5 DEF Truthful, Condition
<1>7. Reported(c, st, new, resp)
  BY <1>5 DEF Reported, Ranged
<1>8. Promise(c, st, rev, new, rev + 1, resp)
  BY <1>2, <1>5, <1>6, <1>7 DEF Promise
<1> QED BY <1>1, <1>3, <1>8, Zenon DEF Promised, reply, resp

\* every delete on its own,
LEMMA DeleteAlonePromised ==
  ASSUME NEW c \in Calls, c.fn \in {"rm", "rmdir", "rmdir_range"},
         NEW st, NEW rev \in Nat, StoreOK(st, rev), NEW request, NEW range,
         Deleting(st, rev, request, range), Request(c) = Single(request),
         FoundIn(st, range) = {k \in Selected(c) : Exists(st[k])},
         c.fn = "rm" => c.key \in Keys /\ Selected(c) = {c.key}
  PROVE  Promised(c, st, rev)
<1> DEFINE s     == InStore(st, range)
           reply == Execute(st, rev, Single(request))
           resp  == MakeResponse(Parse(c, reply))
           new   == Removed(st, range)
           rev2  == IF new = st THEN rev ELSE rev + 1
<1>1. /\ Changes(st, rev, new, rev2)
      /\ FoundIn(st, range) = {} <=> new = st
      /\ \A j \in Keys : new[j].value = Intended(c, st, j)
  <2>1. c.fn \in Deletes
    BY DEF Deletes
  <2> QED BY <2>1, DeleteEffect, RemovedFacts
<1>2. /\ s \in Seq(KVs) /\ ToSet(s) = Found(c, st)
      /\ s = <<>> <=> FoundIn(st, range) = {}
      /\ \A i \in 1 .. Len(s) : s[i].key \in FoundIn(st, range) /\ s[i] = st[s[i].key]
  BY InStoreFacts DEF Found
<1>3. Condition(c, st) <=> s # <<>>
  BY <1>2 DEF Condition
<1>4. reply.store = new /\ reply.revision = rev2 /\ reply.responses[1] = DeleteReply(s)
  BY Alone DEF Deleting
<1> HIDE DEF reply, new, s, rev2
<1>5. Parse(c, reply) =
        IF s = <<>> THEN Error("KEY_NOT_FOUND") ELSE V3Response("OK", s[1], s[1], s, s)
  <2>1. Parse(c, reply) = ParseOne(reply.responses[1], FALSE)
    BY DEF Parse
  <2>2. Parse(c, reply) = ParseOne(DeleteReply(s), FALSE)
    BY <2>1, <1>4, Zenon
  <2>3. ParseOne(DeleteReply(s), FALSE) =
          IF s = <<>> THEN Error("KEY_NOT_FOUND") ELSE V3Response("OK", s[1], s[1], s, s)
    BY ParsedAlone
  <2> QED BY <2>2, <2>3, Zenon
<1>6. CASE s # <<>>
  <2>1. Parse(c, reply) = V3Response("OK", s[1], s[1], s, s)
    BY <1>5, <1>6
  <2>2. resp.error = "OK" /\ resp.prev = s[1] /\ resp.values = s
    BY <2>1 DEF MakeResponse, V3Response
  <2> HIDE DEF resp
  <2>3. Truthful(c, st, new, resp)
    BY <1>1, <1>3, <1>6, <2>2 DEF Truthful
  <2>4. c.fn = "rm" => s[1] = st[c.key]
    <3>1. 1 \in 1 .. Len(s)
      BY <1>2, <1>6
    <3> QED BY <1>2, <3>1
  <2>5. Reported(c, st, new, resp)
    BY <1>2, <2>2, <2>4 DEF Reported, Ranged
  <2>6. Promise(c, st, rev, new, rev2, resp)
    BY <1>1, <2>2, <2>3, <2>5 DEF Promise
  <2> QED BY <1>4, <2>6, Zenon DEF Promised, reply, resp
<1>7. CASE s = <<>>
  <2>1. Parse(c, reply) = Error("KEY_NOT_FOUND")
    BY <1>5, <1>7
  <2>2. resp.error = "KEY_NOT_FOUND"
    BY <2>1, NotFoundMade, ShownFields
  <2> HIDE DEF resp
  <2>3. Truthful(c, st, new, resp)
    BY <1>1, <1>2, <1>3, <1>7, <2>2 DEF Truthful
  <2>4. Promise(c, st, rev, new, rev2, resp)
    BY <1>1, <2>2, <2>3 DEF Promise, Transactions
  <2> QED BY <1>4, <2>4, Zenon DEF Promised, reply, resp
<1> QED BY <1>6, <1>7

\* and so rm() and both forms of rmdir().
LEMMA RemovePromised ==
  ASSUME NEW c \in Calls, c.fn \in {"rm", "rmdir", "rmdir_range"},
         NEW st, NEW rev \in Nat, StoreOK(st, rev)
  PROVE  Promised(c, st, rev)
<1>1. CASE c.fn = "rm"
  <2>1. c.key \in Keys /\ c.to = c.key
    BY <1>1, CallFacts DEF Prefixed, Transactions, Ranged
  <2>2. Selected(c) = {c.key}
    BY <1>1, <2>1, SelectedKeys DEF Prefixed, Ranged
  <2>3. Request(c) = Single(RemoveOf(c.key))
    BY <1>1 DEF Request, RemoveOf
  <2>4. FoundIn(st, RangeOf(c.key, <<>>)) = {k \in Selected(c) : Exists(st[k])}
    BY <2>1, <2>2, KeyFound
  <2>5. Deleting(st, rev, RemoveOf(c.key), RangeOf(c.key, <<>>))
    BY RemovalsReplied
  <2> QED BY <1>1, <2>1, <2>2, <2>3, <2>4, <2>5, DeleteAlonePromised
<1>2. CASE c.fn = "rmdir"
  <2>1. c.key \in String
    <3>1. <<>> \in String
      BY DEF String
    <3> QED BY <3>1, CallFacts, KeyNotEmpty
  <2>2. Selected(c) = {k \in Keys : IsPrefix(c.key, k)}
    BY <1>2, SelectedKeys DEF Prefixed
  <2>3. Request(c) = Single(RemoveDirOf(c.key))
    BY <1>2 DEF Request, RemoveDirOf
  <2>4. FoundIn(st, DirOf(c.key)) = {k \in Selected(c) : Exists(st[k])}
    <3>1. FoundIn(st, DirOf(c.key)) = {j \in {k \in Keys : IsPrefix(c.key, k)} : Exists(st[j])}
      BY <2>1, PrefixFound
    <3> QED BY <2>2, <3>1, Zenon
  <2>5. Deleting(st, rev, RemoveDirOf(c.key), DirOf(c.key))
    BY RemovalsReplied
  <2> QED BY <1>2, <2>3, <2>4, <2>5, DeleteAlonePromised
<1>3. CASE c.fn = "rmdir_range"
  <2>1. c.key \in Keys /\ c.to \in Keys
    BY <1>3, CallFacts DEF Prefixed
  <2>2. Selected(c) = KeysFrom(c.key, c.to)
    BY <1>3, SelectedKeys DEF Ranged
  <2>3. Request(c) = Single(RemoveRangeOf(c.key, c.to))
    BY <1>3 DEF Request, RemoveRangeOf
  <2>4. FoundIn(st, RangeOf(c.key, c.to)) = {k \in Selected(c) : Exists(st[k])}
    BY <2>1, <2>2, RangeFound
  <2>5. Deleting(st, rev, RemoveRangeOf(c.key, c.to), RangeOf(c.key, c.to))
    BY RemovalsReplied
  <2> QED BY <1>3, <2>3, <2>4, <2>5, DeleteAlonePromised
<1> QED BY <1>1, <1>2, <1>3

----------------------------------------------------------------------------
(* Lists of keys. *)

\* What a range request on its own replies.
LEMMA ListExecuted ==
  ASSUME NEW st, NEW rev, NEW request, request.type = "range"
  PROVE  LET reply == Execute(st, rev, Single(request))
         IN  /\ reply.store = st /\ reply.revision = rev
             /\ reply.responses[1] = RangeReply(Returned(InStore(st, request.range), request))
<1> DEFINE reply    == Execute(st, rev, Single(request))
           response == RangeReply(Returned(InStore(st, request.range), request))
<1>1. ExecuteOp(st, st, rev, request) = [store |-> st, response |-> response]
  BY DEF ExecuteOp, ExecuteOne, RangeReply
<1> HIDE DEF response
<1>2. /\ reply.store = st /\ reply.revision = (IF st = st THEN rev ELSE rev + 1)
      /\ reply.responses[1] = response
  BY <1>1, Alone
<1> QED BY <1>2 DEF response

\* What each of them is to return.
Listed(c, st, s) ==
  /\ c.fn \in {"ls", "ls_range"} => ToSet(s) = Found(c, st)
  /\ c.fn = "keys" => ToSet(s) = {[kv EXCEPT !.value = ""] : kv \in Found(c, st)}
  /\ c.fn = "ls_limit" => ToSet(s) = FirstFound(c, st)

\* ls(), keys() and ls() with a limit.
LEMMA ListPromised ==
  ASSUME NEW c \in Calls, c.fn \in {"ls", "ls_limit", "keys", "ls_range"},
         NEW st, NEW rev \in Nat, StoreOK(st, rev), NEW request, request.type = "range",
         Request(c) = Single(request),
         NEW s, s = Returned(InStore(st, request.range), request),
         Listed(c, st, s)
  PROVE  Promised(c, st, rev)
<1> DEFINE reply == Execute(st, rev, Single(request))
           resp  == MakeResponse(Parse(c, reply))
<1>1. reply.store = st /\ reply.revision = rev /\ reply.responses[1] = RangeReply(s)
  <2>1. /\ reply.store = st /\ reply.revision = rev
        /\ reply.responses[1] = RangeReply(Returned(InStore(st, request.range), request))
    BY ListExecuted
  <2> QED BY <2>1, Zenon
<1> HIDE DEF reply
<1>2. Parse(c, reply) = V3Response("OK", NoKV, NoKV, s, <<>>)
  <2>1. Parse(c, reply) = ParseRange(reply.responses[1], TRUE)
    BY DEF Parse
  <2>2. Parse(c, reply) = ParseRange(RangeReply(s), TRUE)
    BY <2>1, <1>1, Zenon
  <2>3. ParseRange(RangeReply(s), TRUE) = V3Response("OK", NoKV, NoKV, s, <<>>)
    BY ParsedAlone
  <2> QED BY <2>2, <2>3, Zenon
<1>3. resp.error = "OK" /\ resp.values = s
  <2> DEFINE v3 == Parse(c, reply)
  <2>1. v3.error = "OK" /\ v3.values = s
    <3> HIDE DEF v3
    <3>1. v3 = V3Response("OK", NoKV, NoKV, s, <<>>)
      BY <1>2 DEF v3
    <3> QED BY <3>1 DEF V3Response
  <2> HIDE DEF v3
  <2>2. MakeResponse(v3).error = v3.error /\ MakeResponse(v3).values = v3.values
    BY DEF MakeResponse
  <2>3. resp = MakeResponse(v3)
    BY DEF v3
  <2> HIDE DEF resp
  <2> QED BY <2>1, <2>2, <2>3
<1> HIDE DEF resp
<1>4. Truthful(c, st, st, resp)
  <2>1. \A j \in Keys : st[j].value = Intended(c, st, j)
    BY DEF Intended, Puts, Deletes, UserDeletes
  <2>2. Condition(c, st)
    BY DEF Condition
  <2> QED BY <1>3, <2>1, <2>2 DEF Truthful
<1>5. Reported(c, st, st, resp)
  BY <1>3, Zenon DEF Reported, Listed, Ranged
<1>6. Promise(c, st, rev, st, rev, resp)
  BY <1>3, <1>4, <1>5, NothingFacts DEF Promise
<1> QED BY <1>1, <1>6, Zenon DEF Promised, reply, resp

\* A range that selects the keys of the call.
LEMMA SelectedFound ==
  ASSUME NEW c \in Calls, c.fn \in {"ls", "ls_limit", "keys", "ls_range"}, NEW st
  PROVE  LET range == IF c.fn = "ls_range" THEN RangeOf(c.key, c.to) ELSE DirOf(c.key)
         IN  FoundIn(st, range) = {k \in Selected(c) : Exists(st[k])}
<1>1. CASE c.fn = "ls_range"
  <2>1. c.key \in Keys /\ c.to \in Keys
    BY <1>1, CallFacts DEF Prefixed
  <2>2. Selected(c) = KeysFrom(c.key, c.to)
    BY <1>1, SelectedKeys DEF Ranged
  <2> QED BY <1>1, <2>1, <2>2, RangeFound
<1>2. CASE c.fn # "ls_range"
  <2>1. c.key \in String
    <3>1. <<>> \in String
      BY DEF String
    <3> QED BY <3>1, CallFacts, KeyNotEmpty
  <2>2. Selected(c) = {k \in Keys : IsPrefix(c.key, k)}
    BY <1>2, SelectedKeys DEF Prefixed
  <2>3. FoundIn(st, DirOf(c.key)) = {j \in {k \in Keys : IsPrefix(c.key, k)} : Exists(st[j])}
    BY <2>1, PrefixFound
  <2>4. FoundIn(st, DirOf(c.key)) = {k \in Selected(c) : Exists(st[k])}
    BY <2>2, <2>3, Zenon
  <2> QED BY <1>2, <2>4
<1> QED BY <1>1, <1>2

\* The pairs found are those of the store, in order.
LEMMA FoundPairs ==
  ASSUME NEW c, NEW st, NEW rev \in Nat, StoreOK(st, rev), NEW range,
         FoundIn(st, range) = {k \in Selected(c) : Exists(st[k])}
  PROVE  LET s == InStore(st, range)
         IN  /\ s \in Seq(KVs) /\ ToSet(s) = Found(c, st) /\ IsFiniteSet(Found(c, st))
             /\ \A i \in 1 .. Len(s) : s[i].key \in String
             /\ \A i, j \in 1 .. Len(s) : i < j => Less(s[i].key, s[j].key)
<1> DEFINE s == InStore(st, range)
<1>1. /\ s \in Seq(KVs) /\ IsFiniteSet(FoundIn(st, range))
      /\ ToSet(s) = {st[k] : k \in FoundIn(st, range)}
      /\ \A i \in 1 .. Len(s) : s[i].key \in FoundIn(st, range)
      /\ \A i, j \in 1 .. Len(s) : i < j => Less(s[i].key, s[j].key)
  BY InStoreFacts
<1>2. Found(c, st) = {st[k] : k \in FoundIn(st, range)}
  BY Zenon DEF Found
<1>3. IsFiniteSet({st[k] : k \in FoundIn(st, range)})
  <2> DEFINE F == FoundIn(st, range)
             f == [k \in F |-> st[k]]
  <2>1. f \in Surjection(F, {st[k] : k \in F})
    <3> HIDE DEF F
    <3> QED BY DEF Surjection
  <2> HIDE DEF f
  <2> QED BY <1>1, <2>1, FS_Surjection
<1>4. \A i \in 1 .. Len(s) : s[i].key \in String
  BY <1>1, KeyNotEmpty DEF FoundIn
<1> HIDE DEF s
<1>5. /\ s \in Seq(KVs) /\ ToSet(s) = Found(c, st) /\ IsFiniteSet(Found(c, st))
      /\ \A i \in 1 .. Len(s) : s[i].key \in String
      /\ \A i, j \in 1 .. Len(s) : i < j => Less(s[i].key, s[j].key)
  BY <1>1, <1>2, <1>3, <1>4, Zenon
<1> QED BY <1>5 DEF s

\* Two requests that differ from the plain one in a field.
LEMMA OtherRequest ==
  ASSUME NEW range, NEW limit, NEW flag, NEW all,
         all = [type |-> "range", range |-> range, limit |-> limit, keys_only |-> flag]
  PROVE  /\ \A n : [all EXCEPT !.limit = n] =
                 [type |-> "range", range |-> range, limit |-> n, keys_only |-> flag]
         /\ \A b : [all EXCEPT !.keys_only = b] =
                 [type |-> "range", range |-> range, limit |-> limit, keys_only |-> b]
OBVIOUS

\* ls() of a prefix and of a range,
LEMMA RangeListed ==
  ASSUME NEW c \in Calls, c.fn \in {"ls", "ls_range"}, NEW st, NEW rev \in Nat, StoreOK(st, rev)
  PROVE  Promised(c, st, rev)
<1> DEFINE request == IF c.fn = "ls_range" THEN RangeRequest(c.key, c.to, FALSE)
                      ELSE RangeRequest(c.key, <<>>, TRUE)
           range   == IF c.fn = "ls_range" THEN RangeOf(c.key, c.to) ELSE DirOf(c.key)
           s       == Returned(InStore(st, request.range), request)
<1>1. request = [type |-> "range", range |-> range, limit |-> 0, keys_only |-> FALSE]
  BY DEF RangeRequest, RangeOf, DirOf
<1>2. Request(c) = Single(request)
  BY DEF Request
<1>3. FoundIn(st, range) = {k \in Selected(c) : Exists(st[k])}
  BY SelectedFound
<1> HIDE DEF request, range
<1>4. /\ request.type = "range" /\ request.range = range /\ request.limit = 0
      /\ request.keys_only = FALSE
  BY <1>1
<1>5. s = InStore(st, range)
  BY <1>4 DEF Returned
<1>6. ToSet(InStore(st, range)) = Found(c, st)
  BY <1>3, FoundPairs
<1>7. Listed(c, st, s)
  BY <1>5, <1>6, Zenon DEF Listed
<1> QED BY <1>2, <1>4, <1>7, ListPromised

\* keys(),
LEMMA KeysListed ==
  ASSUME NEW c \in Calls, c.fn = "keys", NEW st, NEW rev \in Nat, StoreOK(st, rev)
  PROVE  Promised(c, st, rev)
<1> DEFINE all     == RangeRequest(c.key, <<>>, TRUE)
           request == [all EXCEPT !.keys_only = TRUE]
           range   == DirOf(c.key)
           kvs     == InStore(st, range)
           s       == Returned(InStore(st, request.range), request)
<1>1. all = [type |-> "range", range |-> range, limit |-> 0, keys_only |-> FALSE]
  BY DEF RangeRequest, DirOf
<1>2. Request(c) = Single(request)
  BY DEF Request
<1>3. FoundIn(st, range) = {k \in Selected(c) : Exists(st[k])}
  BY SelectedFound
<1> HIDE DEF all, range
<1>4. request = [type |-> "range", range |-> range, limit |-> 0, keys_only |-> TRUE]
  <2> DEFINE no == FALSE
             yes == TRUE
             one == [all EXCEPT !.keys_only = yes]
  <2>1. all = [type |-> "range", range |-> range, limit |-> 0, keys_only |-> no]
    BY <1>1, Zenon DEF no
  <2>2. request = one
    BY Zenon DEF one, yes
  <2> HIDE DEF no, yes
  <2>3. one = [type |-> "range", range |-> range, limit |-> 0, keys_only |-> yes]
    BY <2>1, OtherRequest
  <2> HIDE DEF one
  <2> QED BY <2>2, <2>3, Zenon DEF yes
<1> HIDE DEF request
<1>5. /\ request.type = "range" /\ request.range = range /\ request.limit = 0
      /\ request.keys_only = TRUE
  BY <1>4
<1>6. kvs \in Seq(KVs) /\ ToSet(kvs) = Found(c, st)
  BY <1>3, FoundPairs
<1> HIDE DEF kvs
<1> DEFINE Keyed(kv) == [kv EXCEPT !.value = ""]
<1>7. s = [i \in DOMAIN kvs |-> Keyed(kvs[i])]
  <2>1. s = Returned(kvs, request)
    BY <1>5, Zenon DEF kvs
  <2> HIDE DEF s
  <2>2. Returned(kvs, request) = [i \in DOMAIN kvs |-> [kvs[i] EXCEPT !.value = ""]]
    BY <1>5 DEF Returned
  <2> QED BY <2>1, <2>2
<1> HIDE DEF Keyed
<1>8. ToSet(s) = {Keyed(kv) : kv \in ToSet(kvs)}
  <2> HIDE DEF s
  <2>1. DOMAIN s = DOMAIN kvs /\ \A i \in DOMAIN kvs : s[i] = Keyed(kvs[i])
    BY <1>7
  <2> QED BY <2>1 DEF ToSet
<1>9. Listed(c, st, s)
  <2>1. ToSet(s) = {Keyed(kv) : kv \in Found(c, st)}
    BY <1>6, <1>8
  <2> QED BY <2>1, Zenon DEF Listed, Keyed
<1> QED BY <1>2, <1>5, <1>9, ListPromised

\* and ls() with a limit, which returns the first.
LEMMA LimitListed ==
  ASSUME NEW c \in Calls, c.fn = "ls_limit", NEW st, NEW rev \in Nat, StoreOK(st, rev)
  PROVE  Promised(c, st, rev)
<1> DEFINE all     == RangeRequest(c.key, <<>>, TRUE)
           request == [all EXCEPT !.limit = Limit]
           range   == DirOf(c.key)
           kvs     == InStore(st, range)
           s       == Returned(InStore(st, request.range), request)
<1>1. all = [type |-> "range", range |-> range, limit |-> 0, keys_only |-> FALSE]
  BY DEF RangeRequest, DirOf
<1>2. Request(c) = Single(request)
  BY DEF Request
<1>3. FoundIn(st, range) = {k \in Selected(c) : Exists(st[k])}
  BY SelectedFound
<1> HIDE DEF all, range
<1>4. request = [type |-> "range", range |-> range, limit |-> Limit, keys_only |-> FALSE]
  <2> DEFINE no == FALSE
  <2>1. all = [type |-> "range", range |-> range, limit |-> 0, keys_only |-> no]
    BY <1>1, Zenon DEF no
  <2> HIDE DEF no
  <2>2. request = [type |-> "range", range |-> range, limit |-> Limit, keys_only |-> no]
    BY <2>1, OtherRequest
  <2> HIDE DEF request
  <2> QED BY <2>2, Zenon DEF no
<1> HIDE DEF request
<1>5. /\ request.type = "range" /\ request.range = range /\ request.limit = 1
      /\ request.keys_only = FALSE
  BY <1>4 DEF Limit
<1>6. /\ kvs \in Seq(KVs) /\ ToSet(kvs) = Found(c, st) /\ IsFiniteSet(Found(c, st))
      /\ \A i \in 1 .. Len(kvs) : kvs[i].key \in String
      /\ \A i, j \in 1 .. Len(kvs) : i < j => Less(kvs[i].key, kvs[j].key)
  BY <1>3, FoundPairs
<1> HIDE DEF kvs
<1>7. s = SubSeq(kvs, 1, IF Len(kvs) < 1 THEN Len(kvs) ELSE 1)
  <2>1. s = Returned(kvs, request)
    BY <1>5, Zenon DEF kvs
  <2> HIDE DEF s
  <2>2. Returned(kvs, request) = SubSeq(kvs, 1, IF Len(kvs) < 1 THEN Len(kvs) ELSE 1)
    <3> DEFINE few == IF request.limit = 0 THEN kvs
                      ELSE SubSeq(kvs, 1,
                                  IF Len(kvs) < request.limit THEN Len(kvs) ELSE request.limit)
    <3>1. Returned(kvs, request) =
            IF request.keys_only THEN [i \in DOMAIN few |-> [few[i] EXCEPT !.value = ""]] ELSE few
      BY Zenon DEF Returned
    <3>2. few = SubSeq(kvs, 1, IF Len(kvs) < 1 THEN Len(kvs) ELSE 1)
      BY <1>5
    <3> HIDE DEF few
    <3>3. ~request.keys_only
      BY <1>5, Zenon
    <3>4. Returned(kvs, request) = few
      BY <3>1, <3>3, Zenon
    <3> QED BY <3>2, <3>4
  <2> QED BY <2>1, <2>2
<1> HIDE DEF s
<1> DEFINE found == Found(c, st)
           Below(kv) == {o \in found : Less(o.key, kv.key)}
<1>8. FirstFound(c, st) = {kv \in found : Below(kv) = {}}
  <2>1. FirstFound(c, st) = {kv \in found : Cardinality(Below(kv)) < 1}
    BY DEF FirstFound, Limit
  <2>2. ASSUME NEW kv \in found PROVE Cardinality(Below(kv)) < 1 <=> Below(kv) = {}
    <3>1. IsFiniteSet(Below(kv))
      <4>1. Below(kv) \subseteq found
        OBVIOUS
      <4> QED BY <1>6, <4>1, FS_Subset
    <3>2. Cardinality(Below(kv)) \in Nat /\ (Cardinality(Below(kv)) = 0 <=> Below(kv) = {})
      BY <3>1, FS_CardinalityType, FS_EmptySet
    <3> HIDE DEF Below
    <3> QED BY <3>2
  <2> HIDE DEF Below, found
  <2> QED BY <2>1, <2>2
<1>9. found = {kvs[i] : i \in 1 .. Len(kvs)}
  BY <1>6 DEF ToSet
<1>10. CASE Len(kvs) = 0
  <2>1. found = {}
    BY <1>9, <1>10
  <2>2. ToSet(s) = {}
    <3>1. s = SubSeq(kvs, 1, 0)
      BY <1>7, <1>10
    <3>2. Len(s) = 0 /\ s \in Seq(KVs)
      BY <1>6, <3>1
    <3> QED BY <3>2 DEF ToSet
  <2>3. FirstFound(c, st) = {}
    BY <1>8, <2>1
  <2>4. Listed(c, st, s)
    BY <2>2, <2>3, Zenon DEF Listed
  <2> QED BY <1>2, <1>5, <2>4, ListPromised DEF s
<1>11. CASE Len(kvs) # 0
  <2>0. Len(kvs) \in Nat /\ 1 \in 1 .. Len(kvs)
    BY <1>6, <1>11
  <2>1. ToSet(s) = {kvs[1]}
    <3>1. s = SubSeq(kvs, 1, 1)
      BY <1>7, <1>11, <2>0
    <3>2. s \in Seq(KVs) /\ Len(s) = 1 /\ s[1] = kvs[1]
      BY <1>6, <2>0, <3>1
    <3> QED BY <3>2 DEF ToSet
  <2>2. kvs[1] \in found /\ Below(kvs[1]) = {}
    <3>1. ASSUME NEW i \in 1 .. Len(kvs) PROVE ~Less(kvs[i].key, kvs[1].key)
      <4>1. CASE i = 1
        <5>1. kvs[1].key \in String
          BY <1>6, <2>0
        <5> QED BY <4>1, <5>1, LessIsStrict
      <4>2. CASE i # 1
        <5>1. 1 < i
          BY <4>2
        <5>2. Less(kvs[1].key, kvs[i].key)
          BY <1>6, <2>0, <5>1
        <5>3. kvs[1].key \in String /\ kvs[i].key \in String
          BY <1>6, <2>0
        <5> QED BY <5>2, <5>3, LessIsStrict
      <4> QED BY <4>1, <4>2
    <3> QED BY <1>9, <2>0, <3>1
  <2>3. ASSUME NEW kv \in found, kv # kvs[1] PROVE Below(kv) # {}
    <3>1. PICK i \in 1 .. Len(kvs) : kv = kvs[i]
      BY <1>9
    <3>2. 1 < i
      BY <2>3, <3>1
    <3>3. Less(kvs[1].key, kv.key)
      BY <1>6, <2>0, <3>1, <3>2
    <3> QED BY <2>2, <3>3
  <2>4. FirstFound(c, st) = {kvs[1]}
    <3> HIDE DEF Below, found
    <3> QED BY <1>8, <2>2, <2>3
  <2>5. Listed(c, st, s)
    BY <2>1, <2>4, Zenon DEF Listed
  <2> QED BY <1>2, <1>5, <2>5, ListPromised DEF s
<1> QED BY <1>10, <1>11

\* Every function keeps its promise, whatever its arguments, on every store that
\* etcd can hold: the request it builds, executed there, and the reply as it is
\* parsed make a response that says truly what was found and changed.
THEOREM EveryCallPromised ==
  ASSUME NEW c \in Calls, NEW st, NEW rev \in Nat, StoreOK(st, rev)
  PROVE  Promised(c, st, rev)
<1>1. CASE c.fn \in Simple
  BY <1>1, GetPromised, PutPromised, AddPromised, ModifyPromised, RemovePromised DEF Simple
<1>2. CASE c.fn \in Prefixed \cup Ranged
  BY <1>2, RangeListed, KeysListed, LimitListed, RemovePromised DEF Prefixed, Ranged
<1>3. CASE c.fn \in Conditional
  BY <1>3, ModifyIfPromised, RemoveIfPromised DEF Conditional
<1>4. CASE c.fn \in Transactions
  BY <1>4, IfNonePromised, NestedPromised, SetupPromised
<1> QED BY <1>1, <1>2, <1>3, <1>4, CallFacts

----------------------------------------------------------------------------
(* The invariant. *)

\* What a call that was served is to tell the thread.
Fulfilled(c, before, after, resp) ==
  /\ Truthful(c, before, after, resp)
  /\ resp.error = "OK" => Reported(c, before, after, resp)
  /\ (resp.error # "OK" /\ c.fn \in Transactions) => ShowsCompared(c, before, resp)

\* What Finish() is to make of the reply.
ResponseOf(one) == MakeResponse(Parse(one.call, one.reply))

\* What is known of a thread's call,
CallOK(one) ==
  /\ one.at \in {"idle", "sent", "served", "done"}
  /\ one.at # "idle" => one.call \in Calls
  /\ one.at = "served" => Fulfilled(one.call, one.before, one.after, ResponseOf(one))
  /\ one.at = "done" => Fulfilled(one.call, one.before, one.after, one.response)

\* of etcd, of the requests under way
StoreInv == revision \in Nat /\ StoreOK(store, revision)
CallsInv == /\ DOMAIN calls = Threads /\ calls = [t \in Threads |-> calls[t]]
            /\ \A t \in Threads : CallOK(calls[t])
LateInv  == late \subseteq Calls /\ IsFiniteSet(late) /\ Cardinality(late) <= MaxLate

\* A modify_if() on revision r of key k that is to be told that it succeeded.
Winner(one, k, r) ==
  /\ one.at = "served" /\ one.call.fn = "modify_if"
  /\ one.call.old.target = "mod" /\ one.call.old.operand = r /\ one.call.key = k
  /\ ResponseOf(one).error = "OK"

\* Revision r of key k has been replaced, and no write makes it again.
Past(k, r) == r <= revision /\ store[k].mod # r

\* A modify_if() succeeds on a revision that the key still has, and leaves
\* another one: there is at most one winner, told or not.
Exclusive(k, r) ==
  /\ wins[<<k, r>>] <= 1
  /\ wins[<<k, r>>] = 1 => Past(k, r) /\ \A t \in Threads : ~Winner(calls[t], k, r)
  /\ \A t \in Threads : Winner(calls[t], k, r) => Past(k, r)
  /\ \A t, u \in Threads : Winner(calls[t], k, r) /\ Winner(calls[u], k, r) => t = u

\* and of the modify_if() calls that were told that they succeeded.
WinsInv == /\ wins \in [Keys \X Revisions -> Nat]
           /\ \A k \in Keys, r \in Revisions \ {0} : Exclusive(k, r)

\* The inductive invariant.
IInv == StoreInv /\ CallsInv /\ LateInv /\ WinsInv

\* The store before any call.
LEMMA NothingStored == StoreOK([k \in Keys |-> NoKV], 0)
<1> DEFINE st == [k \in Keys |-> NoKV]
<1>1. NoKV \in KVs /\ ~Exists(NoKV)
  BY NoKVFacts
<1>2. Present(st) = {}
  BY <1>1 DEF Present
<1>3. st \in [Keys -> KVs] /\ \A k \in Keys : st[k] = NoKV
  BY <1>1
<1>4. IsFiniteSet(Present(st))
  BY <1>2, FS_EmptySet
<1> QED BY <1>2, <1>3, <1>4 DEF StoreOK

\* It holds at first.
LEMMA InitInv == Init => IInv
<1> SUFFICES ASSUME Init PROVE IInv
  OBVIOUS
<1> USE DEF Init
<1>1. StoreInv
  BY NothingStored DEF StoreInv
<1>2. \A t \in Threads : calls[t].at = "idle"
  BY DEF Idle
<1>3. CallsInv
  BY <1>2 DEF CallsInv, CallOK
<1>4. LateInv
  BY FS_EmptySet, BoundsAreNat DEF LateInv
<1>5. WinsInv
  <2>1. \A k \in Keys, r \in Revisions : wins[<<k, r>>] = 0
    OBVIOUS
  <2>2. \A t \in Threads, k \in Keys, r \in Revisions : ~Winner(calls[t], k, r)
    BY <1>2 DEF Winner
  <2>3. wins \in [Keys \X Revisions -> Nat]
    OBVIOUS
  <2> QED BY <2>1, <2>2, <2>3 DEF WinsInv, Exclusive
<1> QED BY <1>1, <1>3, <1>4, <1>5 DEF IInv

\* etcd executes a request: the call is fulfilled, and the keys change as
\* Changes says.
LEMMA Served ==
  ASSUME StoreInv, NEW c \in Calls, NEW reply, reply = Execute(store, revision, Request(c)),
         store' = reply.store, revision' = reply.revision
  PROVE  Promise(c, store, revision, store', revision', MakeResponse(Parse(c, reply)))
<1>1. Promised(c, store, revision)
  BY EveryCallPromised DEF StoreInv
<1> QED BY <1>1, Zenon DEF Promised

\* No pair is newer than the store.
LEMMA NotNewer ==
  ASSUME NEW st, NEW rev \in Nat, StoreOK(st, rev), NEW k \in Keys
  PROVE  st[k].mod \in 0 .. rev
<1>1. NoKV.mod = 0
  BY DEF NoKV, KV
<1> HIDE DEF NoKV
<1>2. CASE k \in Present(st)
  BY <1>2 DEF StoreOK
<1>3. CASE k \notin Present(st)
  <2>1. st[k] = NoKV
    BY <1>3 DEF StoreOK
  <2> QED BY <1>1, <2>1
<1> QED BY <1>2, <1>3

\* What follows from that for the invariant: revisions that are past stay past,
\* and a modify_if() that succeeds finds its revision and makes it past.
LEMMA PromiseKept ==
  ASSUME StoreInv, NEW c \in Calls, NEW resp,
         Promise(c, store, revision, store', revision', resp)
  PROVE  /\ StoreInv'
         /\ Fulfilled(c, store, store', resp)
         /\ \A k \in Keys, r \in Nat \ {0} : Past(k, r) => Past(k, r)'
         /\ (resp.error = "OK" /\ c.fn = "modify_if" /\ c.old.target = "mod") =>
              /\ store[c.key].mod = c.old.operand
              /\ c.key \in Keys /\ (c.old.operand \in Nat \ {0} => Past(c.key, c.old.operand)')
<1>1. Changes(store, revision, store', revision') /\ revision \in Nat /\ StoreOK(store, revision)
  BY DEF Promise, StoreInv
<1>2. StoreInv' /\ revision' \in {revision, revision + 1}
  BY <1>1 DEF Changes, StoreInv
<1>3. Fulfilled(c, store, store', resp)
  BY Zenon DEF Promise, Fulfilled
<1>4. ASSUME NEW k \in Keys, NEW r \in Nat \ {0}, Past(k, r) PROVE Past(k, r)'
  <2>1. store'[k].mod \in {store[k].mod, 0, revision + 1}
    BY <1>1 DEF Changes
  <2> QED BY <1>1, <1>2, <1>4, <2>1 DEF Past
<1>5. ASSUME resp.error = "OK", c.fn = "modify_if", c.old.target = "mod"
      PROVE  /\ store[c.key].mod = c.old.operand
             /\ c.key \in Keys /\ (c.old.operand \in Nat \ {0} => Past(c.key, c.old.operand)')
  <2>1. Condition(c, store)
    BY <1>5, Zenon DEF Promise, Truthful
  <2>2. store[c.key].mod = c.old.operand
    BY <1>5, <2>1 DEF Condition, Matches
  <2>3. c.key \in Keys
    BY <1>5, CallFacts DEF Prefixed
  <2>4. store'[c.key].mod = revision + 1
    BY <1>5, Zenon DEF Promise
  <2>5. c.old.operand \in Nat \ {0} => c.old.operand <= revision
    BY <1>1, <2>2, <2>3, NotNewer
  <2>6. revision' = revision + 1
    <3>1. StoreOK(store', revision') /\ revision' \in Nat
      BY <1>2 DEF StoreInv
    <3>2. store'[c.key].mod \in 0 .. revision'
      BY <2>3, <3>1, NotNewer
    <3> QED BY <1>1, <1>2, <2>4, <3>2
  <2> QED BY <1>1, <2>2, <2>3, <2>4, <2>5, <2>6 DEF Past
<1> QED BY <1>2, <1>3, <1>4, <1>5

----------------------------------------------------------------------------
(* The steps. *)

\* A thread whose call changes is the only one.
LEMMA OneCall ==
  ASSUME CallsInv, NEW t \in Threads, NEW one, calls' = [calls EXCEPT ![t] = one], CallOK(one)
  PROVE  /\ CallsInv'
         /\ calls'[t] = one /\ \A u \in Threads \ {t} : calls'[u] = calls[u]
<1>1. calls'[t] = one /\ \A u \in Threads \ {t} : calls'[u] = calls[u]
  BY DEF CallsInv
<1>2. DOMAIN calls' = Threads /\ calls' = [u \in Threads |-> calls'[u]]
  BY DEF CallsInv
<1>3. ASSUME NEW u \in Threads PROVE CallOK(calls'[u])
  <2>1. CASE u = t
    BY <1>1, <2>1
  <2>2. CASE u # t
    BY <1>1, <2>2 DEF CallsInv
  <2> QED BY <2>1, <2>2
<1> QED BY <1>1, <1>2, <1>3 DEF CallsInv

\* Without a new winner, revisions that are past stay past.
LEMMA NoNewWinner ==
  ASSUME WinsInv, wins' = wins,
         \A k \in Keys, r \in Nat \ {0} : Past(k, r) => Past(k, r)',
         \A u \in Threads, k \in Keys, r \in Nat \ {0} :
           Winner(calls'[u], k, r) => Winner(calls[u], k, r)
  PROVE  WinsInv'
<1>1. ASSUME NEW k \in Keys, NEW r \in Revisions \ {0} PROVE Exclusive(k, r)'
  <2>1. Exclusive(k, r)
    BY DEF WinsInv
  <2>2. r \in Nat \ {0}
    BY BoundsAreNat DEF Revisions
  <2>3. Past(k, r) => Past(k, r)'
    BY <2>2
  <2>4. \A u \in Threads : Winner(calls[u], k, r)' => Winner(calls[u], k, r)
    BY <2>2
  <2> QED BY <2>1, <2>3, <2>4 DEF Exclusive
<1> QED BY <1>1 DEF WinsInv

\* A step of a thread leaves the store alone.
LEMMA StoreSame ==
  ASSUME StoreInv, UNCHANGED <<store, revision>>
  PROVE  StoreInv' /\ \A k \in Keys, r \in Nat \ {0} : Past(k, r) => Past(k, r)'
BY DEF StoreInv, Past

\* Every action keeps the invariant: a thread calls,
LEMMA BeginInv ==
  ASSUME IInv, NEW t \in Threads, NEW c \in Calls, Begin(t, c)
  PROVE  IInv'
<1> DEFINE one == [at |-> "sent", call |-> c]
<1>1. CallOK(one)
  BY DEF CallOK
<1>2. one.at = "sent"
  OBVIOUS
<1>3. /\ calls' = [calls EXCEPT ![t] = one]
      /\ UNCHANGED <<store, revision>> /\ late' = late /\ wins' = wins
  BY DEF Begin
<1> HIDE DEF one
<1>4. CallsInv' /\ calls'[t] = one /\ \A u \in Threads \ {t} : calls'[u] = calls[u]
  BY <1>1, <1>3, OneCall DEF IInv
<1>5. \A u \in Threads, k \in Keys, r \in Nat \ {0} :
        Winner(calls'[u], k, r) => Winner(calls[u], k, r)
  BY <1>2, <1>4 DEF Winner
<1>6. StoreInv' /\ \A k \in Keys, r \in Nat \ {0} : Past(k, r) => Past(k, r)'
  BY <1>3, StoreSame DEF IInv
<1>7. WinsInv'
  BY <1>3, <1>5, <1>6, NoNewWinner DEF IInv
<1>8. LateInv'
  BY <1>3 DEF IInv, LateInv
<1> QED BY <1>4, <1>6, <1>7, <1>8 DEF IInv

\* gives up,
LEMMA GiveUpInv ==
  ASSUME IInv, NEW t \in Threads, GiveUp(t)
  PROVE  IInv'
<1>1. CallOK(Idle) /\ Idle.at = "idle"
  BY DEF CallOK, Idle
<1>2. /\ calls' = [calls EXCEPT ![t] = Idle]
      /\ UNCHANGED <<store, revision>> /\ wins' = wins
  BY DEF GiveUp
<1>3. CallsInv' /\ calls'[t] = Idle /\ \A u \in Threads \ {t} : calls'[u] = calls[u]
  BY <1>1, <1>2, OneCall DEF IInv
<1>4. \A u \in Threads, k \in Keys, r \in Nat \ {0} :
        Winner(calls'[u], k, r) => Winner(calls[u], k, r)
  BY <1>1, <1>3 DEF Winner
<1>5. StoreInv' /\ \A k \in Keys, r \in Nat \ {0} : Past(k, r) => Past(k, r)'
  BY <1>2, StoreSame DEF IInv
<1>6. WinsInv'
  BY <1>2, <1>4, <1>5, NoNewWinner DEF IInv
<1>7. LateInv'
  <2>1. CASE late' = late
    BY <2>1 DEF IInv, LateInv
  <2>2. CASE late' # late
    <3>1. /\ calls[t].at = "sent" /\ Cardinality(late) < MaxLate
          /\ late' = late \cup {calls[t].call}
      BY <2>2 DEF GiveUp
    <3>2. calls[t].call \in Calls
      BY <3>1 DEF IInv, CallsInv, CallOK
    <3>3. PICK c : c = calls[t].call
      OBVIOUS
    <3>4. IsFiniteSet(late) /\ Cardinality(late) \in Nat
      BY FS_CardinalityType DEF IInv, LateInv
    <3>5. /\ IsFiniteSet(late \cup {c})
          /\ Cardinality(late \cup {c}) \in {Cardinality(late), Cardinality(late) + 1}
      BY <3>4, FS_AddElement
    <3>6. late' = late \cup {c}
      BY <3>1, <3>3
    <3>7. IsFiniteSet(late') /\ Cardinality(late') <= MaxLate
      BY <3>1, <3>4, <3>5, <3>6, BoundsAreNat
    <3> QED BY <3>2, <3>3, <3>6, <3>7 DEF IInv, LateInv
  <2> QED BY <2>1, <2>2
<1> QED BY <1>3, <1>5, <1>6, <1>7 DEF IInv

\* etcd serves the request,
LEMMA ServeInv ==
  ASSUME IInv, NEW t \in Threads, Serve(t)
  PROVE  IInv'
<1>0. calls[t].at = "sent" /\ calls[t].call \in Calls
  BY DEF Serve, IInv, CallsInv, CallOK
<1>2. PICK c \in Calls : c = calls[t].call
  BY <1>0
<1>a. PICK reply : reply = Execute(store, revision, Request(c))
  OBVIOUS
<1>b. PICK one : one = [at |-> "served", call |-> c, reply |-> reply,
                        before |-> store, after |-> store']
  OBVIOUS
<1>c. PICK resp : resp = MakeResponse(Parse(c, reply))
  OBVIOUS
<1>1. /\ store' = reply.store /\ revision' = reply.revision
      /\ calls' = [calls EXCEPT ![t] = one] /\ late' = late /\ wins' = wins
  <2>1. reply = Execute(store, revision, Request(calls[t].call))
    BY <1>2, <1>a
  <2>2. /\ reply.store = store' /\ revision' = reply.revision
        /\ calls' = [calls EXCEPT ![t] = [at |-> "served", call |-> @.call, reply |-> reply,
                                         before |-> store, after |-> reply.store]]
        /\ late' = late /\ wins' = wins
    BY <2>1 DEF Serve
  <2> QED BY <2>2, <1>2, <1>b
<1>3. Promise(c, store, revision, store', revision', resp)
  BY <1>1, <1>a, <1>c, Served DEF IInv
<1>4. /\ one.at = "served" /\ one.call = c /\ one.before = store /\ one.after = store'
      /\ ResponseOf(one) = resp
  <2>1. /\ one.at = "served" /\ one.call = c /\ one.before = store /\ one.after = store'
        /\ one.reply = reply
    BY <1>b
  <2> QED BY <2>1, <1>c DEF ResponseOf
<1>6. /\ StoreInv' /\ Fulfilled(c, store, store', resp)
      /\ \A k \in Keys, r \in Nat \ {0} : Past(k, r) => Past(k, r)'
      /\ (resp.error = "OK" /\ c.fn = "modify_if" /\ c.old.target = "mod") =>
           /\ store[c.key].mod = c.old.operand
           /\ c.key \in Keys /\ (c.old.operand \in Nat \ {0} => Past(c.key, c.old.operand)')
  BY <1>3, PromiseKept DEF IInv
<1>7. CallOK(one)
  BY <1>4, <1>6 DEF CallOK
<1>8. CallsInv' /\ calls'[t] = one /\ \A u \in Threads \ {t} : calls'[u] = calls[u]
  BY <1>1, <1>7, OneCall DEF IInv
<1>9. ASSUME NEW k \in Keys, NEW r \in Revisions \ {0} PROVE Exclusive(k, r)'
  <2>1. Exclusive(k, r) /\ r \in Nat \ {0}
    BY BoundsAreNat DEF IInv, WinsInv, Revisions
  <2>2. wins[<<k, r>>] \in Nat
    BY DEF IInv, WinsInv
  <2>3. Past(k, r) => Past(k, r)'
    BY <1>6, <2>1
  <2>4. \A u \in Threads \ {t} : Winner(calls[u], k, r)' <=> Winner(calls[u], k, r)
    BY <1>8 DEF Winner, ResponseOf
  <2>5. Winner(calls[t], k, r)' => store[k].mod = r /\ Past(k, r)'
    BY <1>4, <1>6, <1>8, <2>1 DEF Winner, ResponseOf
  <2>6. store[k].mod = r => wins[<<k, r>>] = 0 /\ \A u \in Threads : ~Winner(calls[u], k, r)
    BY <2>1, <2>2 DEF Exclusive, Past
  <2> QED BY <1>1, <2>1, <2>2, <2>3, <2>4, <2>5, <2>6 DEF Exclusive
<1>10. WinsInv'
  BY <1>1, <1>9 DEF IInv, WinsInv
<1>11. LateInv'
  BY <1>1 DEF IInv, LateInv
<1> QED BY <1>6, <1>8, <1>10, <1>11 DEF IInv

\* the thread reads the reply,
LEMMA FinishInv ==
  ASSUME IInv, NEW t \in Threads, Finish(t)
  PROVE  IInv'
<1>0. calls[t].at = "served" /\ calls[t].call \in Calls
  BY DEF Finish, IInv, CallsInv, CallOK
<1>1. PICK c \in Calls : c = calls[t].call
  BY <1>0
<1>2. PICK resp : resp = MakeResponse(Parse(c, calls[t].reply))
  OBVIOUS
<1>3. PICK one : one = [at |-> "done", call |-> c, response |-> resp,
                        before |-> calls[t].before, after |-> calls[t].after]
  OBVIOUS
<1> DEFINE won == c.fn = "modify_if" /\ c.old.target = "mod" /\ resp.error = "OK"
<1>4. /\ calls' = [calls EXCEPT ![t] = one]
      /\ wins' = IF won THEN [wins EXCEPT ![<<c.key, c.old.operand>>] = @ + 1] ELSE wins
      /\ UNCHANGED <<store, revision>> /\ late' = late
  BY <1>1, <1>2, <1>3 DEF Finish
<1>5. /\ one.at = "done" /\ one.call = c /\ one.response = resp
      /\ one.before = calls[t].before /\ one.after = calls[t].after
  BY <1>3
<1>6. ResponseOf(calls[t]) = resp
  BY <1>1, <1>2 DEF ResponseOf
<1>7. CallOK(one)
  <2>1. Fulfilled(c, calls[t].before, calls[t].after, resp)
    BY <1>0, <1>1, <1>6 DEF IInv, CallsInv, CallOK
  <2> QED BY <1>5, <2>1 DEF CallOK
<1>8. CallsInv' /\ calls'[t] = one /\ \A u \in Threads \ {t} : calls'[u] = calls[u]
  BY <1>4, <1>7, OneCall DEF IInv
<1>9. StoreInv' /\ \A k \in Keys, r \in Nat \ {0} : Past(k, r) => Past(k, r)'
  BY <1>4, StoreSame DEF IInv
<1>10. LateInv'
  BY <1>4 DEF IInv, LateInv
<1>11. \A u \in Threads, k \in Keys, r \in Nat \ {0} :
         Winner(calls[u], k, r)' => u # t /\ Winner(calls[u], k, r)
  BY <1>5, <1>8 DEF Winner, ResponseOf
<1>12. CASE ~won
  <2>1. wins' = wins
    BY <1>4, <1>12
  <2>2. WinsInv'
    BY <1>9, <1>11, <2>1, NoNewWinner DEF IInv
  <2> QED BY <1>8, <1>9, <1>10, <2>2 DEF IInv
<1>13. CASE won
  <2>1. c.key \in Keys /\ c.old.operand \in Revisions
    <3>1. c.key \in Keys /\ c.old \in Olds
      BY <1>13, CallFacts DEF Prefixed
    <3> QED BY <1>13, <3>1 DEF Olds
  <2>2. wins' = [wins EXCEPT ![<<c.key, c.old.operand>>] = @ + 1]
    BY <1>4, <1>13
  <2>3. wins \in [Keys \X Revisions -> Nat]
    BY DEF IInv, WinsInv
  <2>4. wins' \in [Keys \X Revisions -> Nat]
    BY <2>1, <2>2, <2>3
  <2>5. ASSUME NEW k \in Keys, NEW r \in Revisions \ {0} PROVE Exclusive(k, r)'
    <3>1. Exclusive(k, r) /\ r \in Nat \ {0} /\ wins[<<k, r>>] \in Nat
      BY <2>3, BoundsAreNat DEF IInv, WinsInv, Revisions
    <3>2. Past(k, r) => Past(k, r)'
      BY <1>9, <3>1
    <3>3. \A u \in Threads : Winner(calls[u], k, r)' => u # t /\ Winner(calls[u], k, r)
      BY <1>11, <3>1
    <3>4. CASE c.key = k /\ c.old.operand = r
      <4>1. Winner(calls[t], k, r)
        BY <1>0, <1>1, <1>6, <1>13, <3>4 DEF Winner
      <4>2. wins[<<k, r>>] = 0 /\ Past(k, r) /\ \A u \in Threads \ {t} : ~Winner(calls[u], k, r)
        BY <3>1, <4>1 DEF Exclusive
      <4>3. wins'[<<k, r>>] = 1
        BY <2>1, <2>2, <2>3, <3>4, <4>2
      <4> QED BY <3>2, <3>3, <4>2, <4>3 DEF Exclusive
    <3>5. CASE ~(c.key = k /\ c.old.operand = r)
      <4>1. <<c.key, c.old.operand>> # <<k, r>>
        BY <3>5
      <4>2. wins'[<<k, r>>] = wins[<<k, r>>]
        BY <2>2, <2>3, <4>1
      <4> QED BY <3>1, <3>2, <3>3, <4>2 DEF Exclusive
    <3> QED BY <3>4, <3>5
  <2>6. WinsInv'
    BY <2>4, <2>5 DEF WinsInv
  <2> QED BY <1>8, <1>9, <1>10, <2>6 DEF IInv
<1> QED BY <1>12, <1>13

\* etcd serves a request that nobody waits for,
LEMMA ServeLateInv ==
  ASSUME IInv, ServeLate
  PROVE  IInv'
<1>1. PICK c \in late :
        /\ store' = Execute(store, revision, Request(c)).store
        /\ revision' = Execute(store, revision, Request(c)).revision
        /\ late' = late \ {c} /\ calls' = calls /\ wins' = wins
  BY DEF ServeLate
<1>2. c \in Calls
  BY DEF IInv, LateInv
<1>3. PICK reply : reply = Execute(store, revision, Request(c))
  OBVIOUS
<1>4. PICK resp : resp = MakeResponse(Parse(c, reply))
  OBVIOUS
<1>5. Promise(c, store, revision, store', revision', resp)
  BY <1>1, <1>2, <1>3, <1>4, Served DEF IInv
<1>6. StoreInv' /\ \A k \in Keys, r \in Nat \ {0} : Past(k, r) => Past(k, r)'
  BY <1>2, <1>5, PromiseKept DEF IInv
<1>7. CallsInv'
  BY <1>1 DEF IInv, CallsInv, CallOK, ResponseOf
<1>8. WinsInv'
  BY <1>1, <1>6, NoNewWinner DEF IInv
<1>9. LateInv'
  <2>1. IsFiniteSet(late) /\ Cardinality(late) \in Nat
    BY FS_CardinalityType DEF IInv, LateInv
  <2>2. IsFiniteSet(late \ {c}) /\ Cardinality(late \ {c}) = Cardinality(late) - 1
    BY <2>1, FS_RemoveElement
  <2>3. IsFiniteSet(late') /\ Cardinality(late') = Cardinality(late) - 1
    BY <1>1, <2>2
  <2> QED BY <1>1, <2>1, <2>3, BoundsAreNat DEF IInv, LateInv
<1> QED BY <1>6, <1>7, <1>8, <1>9 DEF IInv

\* or nothing happens.
LEMMA StutterInv ==
  ASSUME IInv, UNCHANGED vars
  PROVE  IInv'
<1> USE DEF vars
<1>1. StoreInv'
  BY StoreSame DEF IInv
<1>2. CallsInv'
  BY DEF IInv, CallsInv, CallOK, ResponseOf
<1>3. LateInv'
  BY DEF IInv, LateInv
<1>4. WinsInv'
  BY DEF IInv, WinsInv, Exclusive, Past, Winner, ResponseOf
<1> QED BY <1>1, <1>2, <1>3, <1>4 DEF IInv

\* The invariant holds in every state, for any threads, keys and values and any
\* mixture of functions, with callers that give up and requests served late.
THEOREM Invariance == Spec => []IInv
<1>1. Init => IInv
  BY InitInv
<1>2. IInv /\ [Next]_vars => IInv'
  <2> SUFFICES ASSUME IInv, [Next]_vars PROVE IInv'
    OBVIOUS
  <2>1. ASSUME NEW t \in Threads, NEW c \in Calls, Begin(t, c) PROVE IInv'
    BY <2>1, BeginInv
  <2>2. ASSUME NEW t \in Threads, Serve(t) PROVE IInv'
    BY <2>2, ServeInv
  <2>3. ASSUME NEW t \in Threads, Finish(t) PROVE IInv'
    BY <2>3, FinishInv
  <2>4. ASSUME NEW t \in Threads, GiveUp(t) PROVE IInv'
    BY <2>4, GiveUpInv
  <2>5. CASE ServeLate
    BY <2>5, ServeLateInv
  <2>6. CASE UNCHANGED vars
    BY <2>6, StutterInv
  <2> QED BY <2>1, <2>2, <2>3, <2>4, <2>5, <2>6 DEF Next
<1> QED BY <1>1, <1>2, PTL DEF Spec

\* The type invariant: every key has the pair of that key or none.
THEOREM TypeCorrect == Spec => []TypeOK
<1>1. IInv => TypeOK
  <2> SUFFICES ASSUME IInv PROVE TypeOK
    OBVIOUS
  <2>1. DOMAIN store = Keys /\ revision \in Nat
    BY DEF IInv, StoreInv, StoreOK
  <2>2. ASSUME NEW k \in Keys PROVE store[k] = NoKV \/ (store[k].key = k /\ Exists(store[k]))
    <3>1. CASE k \in Present(store)
      BY <3>1 DEF IInv, StoreInv, StoreOK, Present
    <3>2. CASE k \notin Present(store)
      BY <3>2 DEF IInv, StoreInv, StoreOK
    <3> QED BY <3>1, <3>2
  <2>3. /\ DOMAIN calls = Threads
        /\ \A t \in Threads : calls[t].at \in {"idle", "sent", "served", "done"}
    BY DEF IInv, CallsInv, CallOK
  <2>4. late \subseteq Calls /\ Cardinality(late) <= MaxLate
    BY DEF IInv, LateInv
  <2>5. wins \in [Keys \X Revisions -> Nat]
    BY DEF IInv, WinsInv
  <2> QED BY <2>1, <2>2, <2>3, <2>4, <2>5 DEF TypeOK
<1> QED BY <1>1, Invariance, PTL

\* A success has met the function's condition and done exactly what it is
\* documented to do; a failure found the condition unmet and changed nothing.
THEOREM ResponseIsTrueHolds == Spec => []ResponseIsTrue
<1>1. IInv => ResponseIsTrue
  <2> SUFFICES ASSUME IInv, NEW t \in Threads, Done(t)
      PROVE Truthful(calls[t].call, calls[t].before, calls[t].after, calls[t].response)
    BY Zenon DEF ResponseIsTrue
  <2>1. CallOK(calls[t]) /\ calls[t].at = "done"
    BY Zenon DEF IInv, CallsInv, Done
  <2> QED BY <2>1 DEF CallOK, Fulfilled
<1> QED BY <1>1, Invariance, PTL

\* value(), prev_value() and values() of a success are those of the moment when
\* etcd executed the request, in each function that returns them.
THEOREM ValuesReportedHolds == Spec => []ValuesReported
<1>1. IInv => ValuesReported
  <2> SUFFICES ASSUME IInv, NEW t \in Threads, Ok(t)
      PROVE Reported(calls[t].call, calls[t].before, calls[t].after, calls[t].response)
    BY Zenon DEF ValuesReported
  <2>1. CallOK(calls[t]) /\ calls[t].at = "done" /\ calls[t].response.error = "OK"
    BY Zenon DEF IInv, CallsInv, Done, Ok
  <2> QED BY <2>1 DEF CallOK, Fulfilled
<1> QED BY <1>1, Invariance, PTL

\* Transaction.hpp line 97: values() of a transaction whose comparison failed are
\* the keys compared, of one key and of a range.
THEOREM FailureShowsPreviousHolds == Spec => []FailureShowsPrevious
<1>1. IInv => FailureShowsPrevious
  <2> SUFFICES ASSUME IInv, NEW t \in Threads,
                      Done(t) /\ ~Ok(t) /\ calls[t].call.fn \in Transactions
      PROVE ShowsCompared(calls[t].call, calls[t].before, calls[t].response)
    BY Zenon DEF FailureShowsPrevious
  <2>1. CallOK(calls[t]) /\ calls[t].at = "done" /\ calls[t].response.error # "OK"
    BY Zenon DEF IInv, CallsInv, Done, Ok
  <2> QED BY <2>1 DEF CallOK, Fulfilled
<1> QED BY <1>1, Invariance, PTL

\* At most one modify_if() is told that it replaced a revision of a key.
THEOREM OneWinnerHolds == Spec => []OneWinner
<1>1. IInv => OneWinner
  BY DEF IInv, WinsInv, Exclusive, OneWinner
<1> QED BY <1>1, Invariance, PTL
=============================================================================
