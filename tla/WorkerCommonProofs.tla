------------------------- MODULE WorkerCommonProofs --------------------------
(***************************************************************************)
(* What the proofs about the two workers share: the operations on the      *)
(* waiting queue, the steps of WorkerCommon, and the fact that these steps *)
(* use the pool and the cache as KvAccounting allows.                      *)
(***************************************************************************)
EXTENDS WorkerCommon, SequenceTheorems, TLAPS

-----------------------------------------------------------------------------
(* The queue without its item at i: those behind it move up.               *)
LEMMA RemoveAtItems ==
    ASSUME NEW S, NEW q \in Seq(S), NEW i \in DOMAIN q
    PROVE  /\ RemoveAt(q, i) \in Seq(S)
           /\ Len(RemoveAt(q, i)) = Len(q) - 1
           /\ \A j \in 1 .. Len(q) - 1 :
                 RemoveAt(q, i)[j] = IF j < i THEN q[j] ELSE q[j + 1]
<1> DEFINE front == SubSeq(q, 1, i - 1)
           back  == SubSeq(q, i + 1, Len(q))
<1>0. Len(q) \in Nat /\ DOMAIN q = 1 .. Len(q) /\ i \in 1 .. Len(q)
  BY LenProperties
<1>1. \A j \in 1 .. Len(q) : q[j] \in S
  BY ElementOfSeq
<1>2. /\ front \in Seq(S) /\ Len(front) = i - 1
      /\ \A j \in 1 .. i - 1 : front[j] = q[j]
  <2>1. /\ front \in Seq(S) /\ Len(front) = IF 1 <= i - 1 THEN i - 1 - 1 + 1 ELSE 0
        /\ \A j \in 1 .. i - 1 - 1 + 1 : front[j] = q[1 + j - 1]
    BY <1>0, <1>1, SubSeqProperties
  <2> HIDE DEF front
  <2> QED BY <1>0, <2>1
<1>3. /\ back \in Seq(S) /\ Len(back) = Len(q) - i
      /\ \A j \in 1 .. Len(q) - i : back[j] = q[i + j]
  <2>1. /\ back \in Seq(S)
        /\ Len(back) = IF i + 1 <= Len(q) THEN Len(q) - (i + 1) + 1 ELSE 0
        /\ \A j \in 1 .. Len(q) - (i + 1) + 1 : back[j] = q[(i + 1) + j - 1]
    BY <1>0, <1>1, SubSeqProperties
  <2> HIDE DEF back
  <2>2. Len(back) = Len(q) - i
    BY <1>0, <2>1
  <2>3. ASSUME NEW j \in 1 .. Len(q) - i
        PROVE  back[j] = q[i + j]
    <3>1. j \in 1 .. Len(q) - (i + 1) + 1 /\ (i + 1) + j - 1 = i + j
      BY <1>0
    <3> QED BY <2>1, <3>1
  <2> QED BY <2>1, <2>2, <2>3
<1> HIDE DEF front, back
<1>4. /\ front \o back \in Seq(S) /\ Len(front \o back) = Len(front) + Len(back)
      /\ \A j \in 1 .. Len(front) + Len(back) :
            (front \o back)[j] = IF j <= Len(front) THEN front[j] ELSE back[j - Len(front)]
  BY <1>2, <1>3, ConcatProperties
<1>5. RemoveAt(q, i) = front \o back
  BY DEF RemoveAt, front, back
<1>6. ASSUME NEW j \in 1 .. Len(q) - 1
      PROVE  (front \o back)[j] = IF j < i THEN q[j] ELSE q[j + 1]
  <2>1. CASE j < i
    BY <1>0, <1>2, <1>3, <1>4, <2>1
  <2>2. CASE ~(j < i)
    <3>1. j \in 1 .. Len(front) + Len(back) /\ ~(j <= Len(front))
      BY <1>0, <1>2, <1>3, <2>2
    <3>2. j - Len(front) \in 1 .. Len(q) - i /\ i + (j - Len(front)) = j + 1
      BY <1>0, <1>2, <2>2
    <3>3. (front \o back)[j] = back[j - Len(front)]
      BY <1>4, <3>1
    <3>4. back[j - Len(front)] = q[i + (j - Len(front))]
      BY <1>3, <3>2
    <3> QED BY <2>2, <3>2, <3>3, <3>4
  <2> QED BY <2>1, <2>2
<1>7. Len(front) + Len(back) = Len(q) - 1
  BY <1>0, <1>2, <1>3
<1> QED BY <1>4, <1>5, <1>6, <1>7

(* Removing takes one item out of a queue that has every item once.        *)
LEMMA RemoveAtElements ==
    ASSUME NEW S, NEW q \in Seq(S), NEW i \in DOMAIN q, IsInjective(q)
    PROVE  /\ RemoveAt(q, i) \in Seq(S)
           /\ Len(RemoveAt(q, i)) = Len(q) - 1
           /\ IsInjective(RemoveAt(q, i))
           /\ ToSet(RemoveAt(q, i)) = ToSet(q) \ {q[i]}
<1>1. PICK r : r = RemoveAt(q, i)
  OBVIOUS
<1>2. /\ r \in Seq(S) /\ Len(r) = Len(q) - 1
      /\ \A j \in 1 .. Len(q) - 1 : r[j] = IF j < i THEN q[j] ELSE q[j + 1]
  BY <1>1, RemoveAtItems
<1>3. Len(q) \in Nat /\ DOMAIN q = 1 .. Len(q) /\ i \in 1 .. Len(q)
      /\ DOMAIN r = 1 .. Len(q) - 1
  BY <1>2, LenProperties
<1>4. IsInjective(r)
  <2> SUFFICES ASSUME NEW j \in 1 .. Len(q) - 1, NEW k \in 1 .. Len(q) - 1, r[j] = r[k]
               PROVE  j = k
    BY <1>3 DEF IsInjective
  <2>1. PICK jj \in 1 .. Len(q) : r[j] = q[jj] /\ jj = IF j < i THEN j ELSE j + 1
    BY <1>2, <1>3, SMTT(20)
  <2>2. PICK kk \in 1 .. Len(q) : r[k] = q[kk] /\ kk = IF k < i THEN k ELSE k + 1
    BY <1>2, <1>3
  <2>3. jj = kk
    BY <1>3, <2>1, <2>2 DEF IsInjective
  <2> QED BY <1>3, <2>1, <2>2, <2>3
<1>5. ASSUME NEW x \in ToSet(r)
      PROVE  x \in ToSet(q) /\ x # q[i]
  <2>1. PICK j \in 1 .. Len(q) - 1 : x = r[j]
    BY <1>3 DEF ToSet
  <2>2. PICK jj \in 1 .. Len(q) : x = q[jj] /\ jj = IF j < i THEN j ELSE j + 1
    BY <1>2, <1>3, <2>1
  <2>3. jj # i
    BY <1>3, <2>2
  <2> QED BY <1>3, <2>2, <2>3 DEF ToSet, IsInjective
<1>6. ASSUME NEW x \in ToSet(q), x # q[i]
      PROVE  x \in ToSet(r)
  <2>1. PICK j \in 1 .. Len(q) : x = q[j]
    BY <1>3 DEF ToSet
  <2>2. PICK k \in 1 .. Len(q) - 1 : k = IF j < i THEN j ELSE j - 1
    BY <1>3, <1>6, <2>1
  <2>3. r[k] = q[j]
    BY <1>2, <1>3, <1>6, <2>1, <2>2
  <2> QED BY <1>3, <2>1, <2>3 DEF ToSet
<1> QED BY <1>1, <1>2, <1>4, <1>5, <1>6

(* append: one more item, at the end.                                      *)
LEMMA AppendElements ==
    ASSUME NEW S, NEW q \in Seq(S), NEW x \in S
    PROVE  /\ Append(q, x) \in Seq(S) /\ Len(Append(q, x)) = Len(q) + 1
           /\ ToSet(Append(q, x)) = ToSet(q) \cup {x}
           /\ IsInjective(q) /\ x \notin ToSet(q) => IsInjective(Append(q, x))
<1>1. PICK r : r = Append(q, x)
  OBVIOUS
<1>2. /\ r \in Seq(S) /\ Len(r) = Len(q) + 1
      /\ \A j \in 1 .. Len(q) : r[j] = q[j]
      /\ r[Len(q) + 1] = x
  BY <1>1, AppendProperties
<1>3. /\ Len(q) \in Nat /\ DOMAIN q = 1 .. Len(q) /\ DOMAIN r = 1 .. Len(q) + 1
  BY <1>2, LenProperties
<1>4. ToSet(r) = ToSet(q) \cup {x}
  <2>1. ASSUME NEW y \in ToSet(r)
        PROVE  y \in ToSet(q) \cup {x}
    <3>1. PICK j \in 1 .. Len(q) + 1 : y = r[j]
      BY <1>3 DEF ToSet
    <3>2. j \in 1 .. Len(q) \/ j = Len(q) + 1
      BY <1>3
    <3> QED BY <1>2, <1>3, <3>1, <3>2 DEF ToSet
  <2>2. ASSUME NEW y \in ToSet(q)
        PROVE  y \in ToSet(r)
    <3>1. PICK j \in 1 .. Len(q) : y = q[j]
      BY <1>3 DEF ToSet
    <3>2. j \in DOMAIN r /\ r[j] = y
      BY <1>2, <1>3, <3>1
    <3> QED BY <3>2 DEF ToSet
  <2>3. x \in ToSet(r)
    <3>1. Len(q) + 1 \in DOMAIN r /\ r[Len(q) + 1] = x
      BY <1>2, <1>3
    <3> QED BY <3>1 DEF ToSet
  <2> QED BY <2>1, <2>2, <2>3
<1>5. ASSUME IsInjective(q), x \notin ToSet(q)
      PROVE  IsInjective(r)
  <2> SUFFICES ASSUME NEW j \in 1 .. Len(q) + 1, NEW k \in 1 .. Len(q) + 1, r[j] = r[k]
               PROVE  j = k
    BY <1>3 DEF IsInjective
  <2>1. /\ j \in 1 .. Len(q) \/ j = Len(q) + 1
        /\ k \in 1 .. Len(q) \/ k = Len(q) + 1
    BY <1>3
  <2>2. \A m \in 1 .. Len(q) : r[m] \in ToSet(q) /\ r[m] # x
    BY <1>2, <1>3, <1>5 DEF ToSet
  <2> QED BY <1>2, <1>3, <1>5, <2>1, <2>2 DEF IsInjective
<1> QED BY <1>1, <1>2, <1>4, <1>5

(* appendleft of what has been popped: nobody is lost, nobody is twice.    *)
LEMMA PushFrontElements ==
    ASSUME NEW S, NEW q \in Seq(S), NEW x \in S
    PROVE  /\ Cons(x, q) \in Seq(S) /\ Len(Cons(x, q)) = Len(q) + 1
           /\ ToSet(Cons(x, q)) = ToSet(q) \cup {x}
           /\ IsInjective(q) /\ x \notin ToSet(q) => IsInjective(Cons(x, q))
<1>1. PICK r : r = Cons(x, q)
  OBVIOUS
<1>0. <<x>> \in Seq(S) /\ Len(<<x>>) = 1 /\ <<x>>[1] = x
  OBVIOUS
<1>2. /\ r \in Seq(S) /\ Len(r) = Len(q) + 1
      /\ r[1] = x /\ \A j \in 1 .. Len(q) : r[j + 1] = q[j]
  <2>1. /\ r \in Seq(S) /\ Len(r) = Len(<<x>>) + Len(q)
        /\ \A j \in 1 .. Len(<<x>>) + Len(q) :
              r[j] = IF j <= Len(<<x>>) THEN <<x>>[j] ELSE q[j - Len(<<x>>)]
    BY <1>0, <1>1, ConcatProperties DEF Cons
  <2>2. Len(q) \in Nat
    BY LenProperties
  <2>3. \A j \in 1 .. 1 + Len(q) : r[j] = IF j <= 1 THEN x ELSE q[j - 1]
    BY <1>0, <2>1, <2>2
  <2> QED BY <1>0, <2>1, <2>2, <2>3
<1>3. /\ Len(q) \in Nat /\ DOMAIN q = 1 .. Len(q) /\ DOMAIN r = 1 .. Len(q) + 1
  BY <1>2, LenProperties
<1>4. ToSet(r) = ToSet(q) \cup {x}
  <2>1. ASSUME NEW y \in ToSet(r)
        PROVE  y \in ToSet(q) \cup {x}
    <3>1. PICK j \in 1 .. Len(q) + 1 : y = r[j]
      BY <1>3 DEF ToSet
    <3>2. j = 1 \/ (j - 1 \in 1 .. Len(q) /\ r[(j - 1) + 1] = q[j - 1])
      BY <1>2, <1>3
    <3>3. (j - 1) + 1 = j
      BY <1>3
    <3> QED BY <1>2, <1>3, <3>1, <3>2, <3>3 DEF ToSet
  <2>2. ASSUME NEW y \in ToSet(q)
        PROVE  y \in ToSet(r)
    <3>1. PICK j \in 1 .. Len(q) : y = q[j]
      BY <1>3 DEF ToSet
    <3>2. j + 1 \in DOMAIN r /\ r[j + 1] = y
      BY <1>2, <1>3, <3>1
    <3> QED BY <3>2 DEF ToSet
  <2>3. x \in ToSet(r)
    <3>1. 1 \in DOMAIN r /\ r[1] = x
      BY <1>2, <1>3
    <3> QED BY <3>1 DEF ToSet
  <2> QED BY <2>1, <2>2, <2>3
<1>5. ASSUME IsInjective(q), x \notin ToSet(q)
      PROVE  IsInjective(r)
  <2> SUFFICES ASSUME NEW j \in 1 .. Len(q) + 1, NEW k \in 1 .. Len(q) + 1, r[j] = r[k]
               PROVE  j = k
    BY <1>3 DEF IsInjective
  <2>1. ASSUME NEW m \in 1 .. Len(q) + 1, m # 1
        PROVE  m - 1 \in 1 .. Len(q) /\ r[m] = q[m - 1] /\ r[m] # x
    <3>1. m - 1 \in 1 .. Len(q) /\ (m - 1) + 1 = m
      BY <1>3, <2>1
    <3>2. r[(m - 1) + 1] = q[m - 1]
      BY <1>2, <3>1
    <3> QED BY <1>3, <1>5, <3>1, <3>2 DEF ToSet
  <2>2. CASE j = 1 \/ k = 1
    BY <1>2, <2>1, <2>2
  <2>3. CASE j # 1 /\ k # 1
    <3>1. j - 1 = k - 1
      BY <1>3, <1>5, <2>1, <2>3 DEF IsInjective
    <3> QED BY <1>3, <3>1
  <2> QED BY <2>2, <2>3
<1> QED BY <1>1, <1>2, <1>4, <1>5

(* popleft of a queue with somebody in it.                                 *)
LEMMA TailElements ==
    ASSUME NEW S, NEW q \in Seq(S), q # << >>, IsInjective(q)
    PROVE  /\ Head(q) \in ToSet(q)
           /\ Tail(q) \in Seq(S) /\ Len(Tail(q)) = Len(q) - 1 /\ IsInjective(Tail(q))
           /\ ToSet(Tail(q)) = ToSet(q) \ {Head(q)}
<1>1. PICK r : r = Tail(q)
  OBVIOUS
<1>2. /\ r \in Seq(S) /\ Len(r) = Len(q) - 1
      /\ \A j \in 1 .. Len(r) : r[j] = q[j + 1]
  BY <1>1, HeadTailProperties
<1>3. /\ Len(q) \in Nat \ {0} /\ DOMAIN q = 1 .. Len(q) /\ DOMAIN r = 1 .. Len(q) - 1
      /\ Head(q) = q[1]
  BY <1>2, LenProperties, EmptySeq
<1>4. IsInjective(r)
  <2> SUFFICES ASSUME NEW j \in 1 .. Len(q) - 1, NEW k \in 1 .. Len(q) - 1, r[j] = r[k]
               PROVE  j = k
    BY <1>3 DEF IsInjective
  <2>1. q[j + 1] = q[k + 1] /\ j + 1 \in DOMAIN q /\ k + 1 \in DOMAIN q
    BY <1>2, <1>3
  <2>2. j + 1 = k + 1
    BY <2>1 DEF IsInjective
  <2> QED BY <1>3, <2>2
<1>5. ASSUME NEW x \in ToSet(r)
      PROVE  x \in ToSet(q) /\ x # q[1]
  <2>1. PICK j \in 1 .. Len(q) - 1 : x = r[j]
    BY <1>3 DEF ToSet
  <2>2. x = q[j + 1] /\ j + 1 \in DOMAIN q /\ 1 \in DOMAIN q /\ j + 1 # 1
    BY <1>2, <1>3, <2>1
  <2> QED BY <2>2 DEF ToSet, IsInjective
<1>6. ASSUME NEW x \in ToSet(q), x # q[1]
      PROVE  x \in ToSet(r)
  <2>1. PICK j \in 1 .. Len(q) : x = q[j]
    BY <1>3 DEF ToSet
  <2>2. j - 1 \in 1 .. Len(q) - 1 /\ (j - 1) + 1 = j
    BY <1>3, <1>6, <2>1
  <2>3. r[j - 1] = q[(j - 1) + 1] /\ j - 1 \in DOMAIN r
    BY <1>2, <1>3, <2>2
  <2> QED BY <2>1, <2>2, <2>3 DEF ToSet
<1>7. Head(q) \in ToSet(q)
  <2>1. 1 \in DOMAIN q
    BY <1>3
  <2> QED BY <1>3, <2>1 DEF ToSet
<1>8. ToSet(r) = ToSet(q) \ {Head(q)}
  BY <1>3, <1>5, <1>6
<1> QED BY <1>1, <1>2, <1>4, <1>7, <1>8

-----------------------------------------------------------------------------
(* KvAccounting as the worker uses it, with its theorems.                  *)
Done == {s \in Seqs : status[s] \in Over}

Acc == INSTANCE KvAccountingProofs WITH held <- Active, done <- Done

(* The operations of the instance of KvAccounting are those of the worker. *)
LEMMA SameOperators ==
    ASSUME NEW K, NEW s, NEW n
    PROVE  /\ Accounting!InitKv = InitKv
           /\ Accounting!Admitted(K, s) = Admitted(K, s)
           /\ Accounting!Refused(K, s) = Refused(K, s)
           /\ Accounting!LateBind(K, s) = LateBind(K, s)
           /\ Accounting!CandidateLengths(s) = CandidateLengths(s)
           /\ Accounting!Insert(K, s, n) = Insert(K, s, n)
           /\ Accounting!Adopt(K, s) = Adopt(K, s)
           /\ Accounting!ReleaseSeq(K, s) = ReleaseSeq(K, s)
<1>1. Accounting!InitKv = InitKv
  BY DEF InitKv, Accounting!InitKv, NoKey, Accounting!NoKey, Keys,
         Accounting!Keys, PrefixOf, Accounting!PrefixOf
<1>2. Accounting!Admitted(K, s) = Admitted(K, s)
  BY DEF Admitted, Accounting!Admitted, Reservations,
         Accounting!Reservations, BlocksNeeded, Accounting!BlocksNeeded,
         kSubset, Accounting!kSubset, Cardinality, Accounting!Cardinality,
         Allocate, Accounting!Allocate, LookedUp, Accounting!LookedUp, Hits,
         Accounting!Hits, IsPrefix, Accounting!IsPrefix, Lookup,
         Accounting!Lookup, Acquire, Accounting!Acquire, Reserve,
         Accounting!Reserve, AddRef, Accounting!AddRef, Pin, Accounting!Pin,
         Donors, Accounting!Donors, Shares, Accounting!Shares, AtMost,
         Accounting!AtMost, Touch, Accounting!Touch, OwnTokens,
         Accounting!OwnTokens, ReservationTokens,
         Accounting!ReservationTokens
<1>3. Accounting!Refused(K, s) = Refused(K, s)
  BY DEF Refused, Accounting!Refused, CanAllocate, Accounting!CanAllocate,
         BlocksNeeded, Accounting!BlocksNeeded, Cardinality,
         Accounting!Cardinality, NoKey, Accounting!NoKey, ReleaseKey,
         Accounting!ReleaseKey, Unpin, Accounting!Unpin, Release,
         Accounting!Release, LookedUp, Accounting!LookedUp, Hits,
         Accounting!Hits, IsPrefix, Accounting!IsPrefix, Lookup,
         Accounting!Lookup, Acquire, Accounting!Acquire, Reservations,
         Accounting!Reservations, kSubset, Accounting!kSubset, Reserve,
         Accounting!Reserve, AddRef, Accounting!AddRef, Pin, Accounting!Pin,
         Donors, Accounting!Donors, Shares, Accounting!Shares, AtMost,
         Accounting!AtMost, Touch, Accounting!Touch, OwnTokens,
         Accounting!OwnTokens, ReservationTokens,
         Accounting!ReservationTokens
<1>4. Accounting!LateBind(K, s) = LateBind(K, s)
  BY DEF LateBind, Accounting!LateBind, BlocksNeeded,
         Accounting!BlocksNeeded, Release, Accounting!Release, Detachable,
         Accounting!Detachable, AtMost, Accounting!AtMost, kSubset,
         Accounting!kSubset, Cardinality, Accounting!Cardinality, Detach,
         Accounting!Detach, NoKey, Accounting!NoKey, LookedUp,
         Accounting!LookedUp, Hits, Accounting!Hits, IsPrefix,
         Accounting!IsPrefix, Lookup, Accounting!Lookup, Acquire,
         Accounting!Acquire, Reservations, Accounting!Reservations, Reserve,
         Accounting!Reserve, AddRef, Accounting!AddRef, Pin, Accounting!Pin,
         Donors, Accounting!Donors, Shares, Accounting!Shares, Touch,
         Accounting!Touch
<1>5. Accounting!CandidateLengths(s) = CandidateLengths(s)
  BY DEF CandidateLengths, Accounting!CandidateLengths
<1>6. Accounting!Insert(K, s, n) = Insert(K, s, n)
  BY DEF Insert, Accounting!Insert, PrefixOf, Accounting!PrefixOf, Unused,
         Accounting!Unused, Victims, Accounting!Victims, Full,
         Accounting!Full, Cardinality, Accounting!Cardinality, DropEntry,
         Accounting!DropEntry, Unpin, Accounting!Unpin, Release,
         Accounting!Release, AddEntry, Accounting!AddEntry, Touch,
         Accounting!Touch
<1>7. Accounting!Adopt(K, s) = Adopt(K, s)
  BY DEF Adopt, Accounting!Adopt, BlocksNeeded, Accounting!BlocksNeeded,
         Detachable, Accounting!Detachable, AtMost, Accounting!AtMost,
         kSubset, Accounting!kSubset, Cardinality, Accounting!Cardinality,
         Detach, Accounting!Detach, NoKey, Accounting!NoKey, AddRef,
         Accounting!AddRef, Pin, Accounting!Pin, Acquire,
         Accounting!Acquire, Reservations, Accounting!Reservations, Reserve,
         Accounting!Reserve, Donors, Accounting!Donors, IsPrefix,
         Accounting!IsPrefix, Shares, Accounting!Shares, Touch,
         Accounting!Touch
<1>8. Accounting!ReleaseSeq(K, s) = ReleaseSeq(K, s)
  BY DEF ReleaseSeq, Accounting!ReleaseSeq, Free, Accounting!Free,
         ReleaseKey, Accounting!ReleaseKey, Unpin, Accounting!Unpin,
         Release, Accounting!Release
<1> QED BY <1>1, <1>2, <1>3, <1>4, <1>5, <1>6, <1>7, <1>8

(* So are those of the instance whose theorems are used below.             *)
LEMMA SameInTheorems ==
    ASSUME NEW K, NEW s, NEW n
    PROVE  /\ Acc!InitKv = InitKv
           /\ Acc!Admitted(K, s) = Admitted(K, s)
           /\ Acc!Refused(K, s) = Refused(K, s)
           /\ Acc!LateBind(K, s) = LateBind(K, s)
           /\ Acc!CandidateLengths(s) = CandidateLengths(s)
           /\ Acc!Insert(K, s, n) = Insert(K, s, n)
           /\ Acc!Adopt(K, s) = Adopt(K, s)
           /\ Acc!ReleaseSeq(K, s) = ReleaseSeq(K, s)
<1>1. Acc!InitKv = InitKv
  BY DEF InitKv, Acc!InitKv, NoKey, Acc!NoKey, Keys, Acc!Keys, PrefixOf,
         Acc!PrefixOf
<1>2. Acc!Admitted(K, s) = Admitted(K, s)
  BY DEF Admitted, Acc!Admitted, Reservations, Acc!Reservations,
         BlocksNeeded, Acc!BlocksNeeded, kSubset, Acc!kSubset, Cardinality,
         Acc!Cardinality, Allocate, Acc!Allocate, LookedUp, Acc!LookedUp,
         Hits, Acc!Hits, IsPrefix, Acc!IsPrefix, Lookup, Acc!Lookup,
         Acquire, Acc!Acquire, Reserve, Acc!Reserve, AddRef, Acc!AddRef,
         Pin, Acc!Pin, Donors, Acc!Donors, Shares, Acc!Shares, AtMost,
         Acc!AtMost, Touch, Acc!Touch, OwnTokens, Acc!OwnTokens,
         ReservationTokens, Acc!ReservationTokens
<1>3. Acc!Refused(K, s) = Refused(K, s)
  BY DEF Refused, Acc!Refused, CanAllocate, Acc!CanAllocate, BlocksNeeded,
         Acc!BlocksNeeded, Cardinality, Acc!Cardinality, NoKey, Acc!NoKey,
         ReleaseKey, Acc!ReleaseKey, Unpin, Acc!Unpin, Release, Acc!Release,
         LookedUp, Acc!LookedUp, Hits, Acc!Hits, IsPrefix, Acc!IsPrefix,
         Lookup, Acc!Lookup, Acquire, Acc!Acquire, Reservations,
         Acc!Reservations, kSubset, Acc!kSubset, Reserve, Acc!Reserve,
         AddRef, Acc!AddRef, Pin, Acc!Pin, Donors, Acc!Donors, Shares,
         Acc!Shares, AtMost, Acc!AtMost, Touch, Acc!Touch, OwnTokens,
         Acc!OwnTokens, ReservationTokens, Acc!ReservationTokens
<1>4. Acc!LateBind(K, s) = LateBind(K, s)
  BY DEF LateBind, Acc!LateBind, BlocksNeeded, Acc!BlocksNeeded, Release,
         Acc!Release, Detachable, Acc!Detachable, AtMost, Acc!AtMost,
         kSubset, Acc!kSubset, Cardinality, Acc!Cardinality, Detach,
         Acc!Detach, NoKey, Acc!NoKey, LookedUp, Acc!LookedUp, Hits,
         Acc!Hits, IsPrefix, Acc!IsPrefix, Lookup, Acc!Lookup, Acquire,
         Acc!Acquire, Reservations, Acc!Reservations, Reserve, Acc!Reserve,
         AddRef, Acc!AddRef, Pin, Acc!Pin, Donors, Acc!Donors, Shares,
         Acc!Shares, Touch, Acc!Touch
<1>5. Acc!CandidateLengths(s) = CandidateLengths(s)
  BY DEF CandidateLengths, Acc!CandidateLengths
<1>6. Acc!Insert(K, s, n) = Insert(K, s, n)
  BY DEF Insert, Acc!Insert, PrefixOf, Acc!PrefixOf, Unused, Acc!Unused,
         Victims, Acc!Victims, Full, Acc!Full, Cardinality, Acc!Cardinality,
         DropEntry, Acc!DropEntry, Unpin, Acc!Unpin, Release, Acc!Release,
         AddEntry, Acc!AddEntry, Touch, Acc!Touch
<1>7. Acc!Adopt(K, s) = Adopt(K, s)
  BY DEF Adopt, Acc!Adopt, BlocksNeeded, Acc!BlocksNeeded, Detachable,
         Acc!Detachable, AtMost, Acc!AtMost, kSubset, Acc!kSubset,
         Cardinality, Acc!Cardinality, Detach, Acc!Detach, NoKey, Acc!NoKey,
         AddRef, Acc!AddRef, Pin, Acc!Pin, Acquire, Acc!Acquire,
         Reservations, Acc!Reservations, Reserve, Acc!Reserve, Donors,
         Acc!Donors, IsPrefix, Acc!IsPrefix, Shares, Acc!Shares, Touch,
         Acc!Touch
<1>8. Acc!ReleaseSeq(K, s) = ReleaseSeq(K, s)
  BY DEF ReleaseSeq, Acc!ReleaseSeq, Free, Acc!Free, ReleaseKey,
         Acc!ReleaseKey, Unpin, Acc!Unpin, Release, Acc!Release
<1> QED BY <1>1, <1>2, <1>3, <1>4, <1>5, <1>6, <1>7, <1>8

(* The two instances are one specification.                                *)
LEMMA TheoremsApply == AccountingSpec <=> Acc!Spec
<1>1. Accounting!Init <=> Acc!Init
  BY SameOperators, SameInTheorems DEF Accounting!Init, Acc!Init, Done
<1>2. Accounting!Next <=> Acc!Next
  <2> SUFFICES ASSUME NEW s \in Seqs
               PROVE  /\ Accounting!Admit(s) <=> Acc!Admit(s)
                      /\ Accounting!Refuse(s) <=> Acc!Refuse(s)
                      /\ Accounting!Bind(s) <=> Acc!Bind(s)
                      /\ Accounting!Store(s) <=> Acc!Store(s)
                      /\ Accounting!AdoptEntry(s) <=> Acc!AdoptEntry(s)
                      /\ Accounting!Retire(s) <=> Acc!Retire(s)
    BY DEF Accounting!Next, Acc!Next
  <2> USE SameOperators, SameInTheorems DEF Done
  <2>1. Accounting!Admit(s) <=> Acc!Admit(s)
    BY DEF Accounting!Admit, Acc!Admit
  <2>2. Accounting!Refuse(s) <=> Acc!Refuse(s)
    BY DEF Accounting!Refuse, Acc!Refuse
  <2>3. Accounting!Bind(s) <=> Acc!Bind(s)
    BY DEF Accounting!Bind, Acc!Bind
  <2>4. Accounting!Store(s) <=> Acc!Store(s)
    BY DEF Accounting!Store, Acc!Store
  <2>5. Accounting!AdoptEntry(s) <=> Acc!AdoptEntry(s)
    BY DEF Accounting!AdoptEntry, Acc!AdoptEntry
  <2>6. Accounting!Retire(s) <=> Acc!Retire(s)
    BY DEF Accounting!Retire, Acc!Retire
  <2> QED BY <2>1, <2>2, <2>3, <2>4, <2>5, <2>6
<1>3. UNCHANGED Accounting!vars <=> UNCHANGED Acc!vars
  BY DEF Accounting!vars, Acc!vars, Done
<1> QED BY <1>1, <1>2, <1>3, PTL DEF AccountingSpec, Accounting!Spec, Acc!Spec

(* So what is proved of KvAccounting holds of the worker's accounting.     *)
LEMMA AccountingIsGood == AccountingSpec => []Acc!Inv
<1>1. Acc!Spec => []Acc!Inv
  BY Acc!InvAlways, BlocksAssumption, BlockSizeAssumption, SeqsAssumption, PromptAssumption,
     LengthAssumption, MinAssumption, EntriesAssumption, CacheAssumption
  DEF IsFiniteSet, Acc!IsFiniteSet
<1> QED BY <1>1, TheoremsApply

(* The reservation a sequence was admitted with covers it to its release.  *)
RoomOf(s) == BlockSize * (Cardinality(kv.alloc[s]) + BlocksNeeded(Len(kv.key[s])))
Covers(s) == ReservationTokens(s) <= RoomOf(s) /\ RoomOf(s) \in Int

(* In a worker that keeps to KvAccounting every admitted sequence has room *)
(* for all the tokens it reserved.                                         *)
LEMMA ReservationsCover == AccountingSpec => [](\A s \in Active : Covers(s))
<1>1. Acc!Spec => []Acc!BlocksSuffice
  BY Acc!ReservationsHold, BlocksAssumption, BlockSizeAssumption, SeqsAssumption,
     PromptAssumption, LengthAssumption, MinAssumption, EntriesAssumption, CacheAssumption
  DEF IsFiniteSet, Acc!IsFiniteSet
<1>2. ASSUME Acc!BlocksSuffice, Acc!Inv, NEW s \in Active
      PROVE  Covers(s)
  <2>1. ReservationTokens(s) <= RoomOf(s)
    BY <1>2 DEF Acc!BlocksSuffice, Acc!Covered, RoomOf, ReservationTokens,
       Acc!ReservationTokens, BlocksNeeded, Acc!BlocksNeeded, Cardinality, Acc!Cardinality
  <2>2. s \in Seqs /\ kv \in Acc!KvType
    BY <1>2 DEF Active, Acc!Inv, Acc!Good
  <2>3. Len(kv.key[s]) \in Nat /\ Acc!Cardinality(kv.alloc[s]) \in Nat
    BY <2>2, Acc!KeyLengths, BlocksAssumption, BlockSizeAssumption, SeqsAssumption,
       PromptAssumption, LengthAssumption, MinAssumption, EntriesAssumption, CacheAssumption
    DEF IsFiniteSet, Acc!IsFiniteSet
  <2>4. Cardinality(kv.alloc[s]) \in Nat
    BY <2>3 DEF Cardinality, Acc!Cardinality
  <2>5. BlocksNeeded(Len(kv.key[s])) \in Int
    BY <2>3, BlockSizeAssumption DEF BlocksNeeded
  <2> QED BY <2>1, <2>4, <2>5, BlockSizeAssumption DEF Covers, RoomOf
<1>3. Acc!BlocksSuffice /\ Acc!Inv => \A s \in Active : Covers(s)
  BY <1>2
<1> QED BY <1>1, <1>3, AccountingIsGood, TheoremsApply, PTL

(* No request loses a block to another: see BlockLedger.                   *)
LEMMA AccountingIsLedger == AccountingSpec => Acc!LedgerSpec
<1>1. Acc!Spec => Acc!LedgerSpec
  BY Acc!ImplementsLedger, BlocksAssumption, BlockSizeAssumption, SeqsAssumption,
     PromptAssumption, LengthAssumption, MinAssumption, EntriesAssumption, CacheAssumption
  DEF IsFiniteSet, Acc!IsFiniteSet
<1> QED BY <1>1, TheoremsApply

(* An accounting has the same type in both.                                *)
LEMMA SameKvType == Acc!KvType = KvType
BY DEF KvType, Acc!KvType, Keys, Acc!Keys, PrefixOf, Acc!PrefixOf, NoKey, Acc!NoKey

-----------------------------------------------------------------------------
(* TypeCommon without the accounting, whose type the theorems of           *)
(* KvAccounting give; and what both workers keep true of the queue.        *)
CommonTypes ==
    /\ queue \in Seq(Seqs) /\ Len(queue) <= MaxWaiting /\ event \in BOOLEAN
    /\ status \in [Seqs -> Live \cup Over \cup {"new", "rejected"}]
    /\ out \in [Seqs -> Nat]
    /\ abort \in [Seqs -> BOOLEAN]
    /\ running \subseteq Seqs
    /\ admitted \in Seq(Seqs)
    /\ cands \subseteq Nat
    /\ stop \in BOOLEAN /\ cancelled \in BOOLEAN
    /\ policy \in Policies

(* The queue holds a sequence once, and only waiting ones.                 *)
QueueInv ==
    /\ IsInjective(queue)
    /\ \A s \in Waiting : status[s] = "waiting"

(* A sequence has no token before its prefill ends.                        *)
Tokenless == \A s \in Seqs :
    status[s] \in {"new", "rejected", "waiting", "prefill"} => out[s] = 0

(* What holds in both workers, whatever else their loop does.             *)
CommonInv == CommonTypes /\ QueueInv /\ Tokenless

(* A step that leaves the accounting as it is.                             *)
Quiet == UNCHANGED <<kv, Active, Done>>

(* The waiting sequences in the terms of the lemmas on sequences.          *)
LEMMA WaitingIsSet == Waiting = ToSet(queue)
BY DEF Waiting, ToSet

(* And after a step.                                                       *)
LEMMA WaitingIsSetNext == Waiting' = ToSet(queue')
BY DEF Waiting, ToSet

(* Everything in the queue is a sequence.                                 *)
LEMMA WaitingAreSequences == CommonTypes => Waiting \subseteq Seqs
<1> SUFFICES ASSUME CommonTypes, NEW i \in DOMAIN queue PROVE queue[i] \in Seqs
  BY DEF Waiting
<1>1. DOMAIN queue = 1 .. Len(queue) /\ queue \in Seq(Seqs)
  BY LenProperties DEF CommonTypes
<1> QED BY <1>1, ElementOfSeq

(* An empty queue, and no token yet.                                       *)
LEMMA InitCommonInv == InitCommon => CommonInv
<1> SUFFICES ASSUME InitCommon PROVE CommonInv
  OBVIOUS
<1>1. CommonTypes
  <2>1. << >> \in Seq(Seqs) /\ Len(<< >>) <= MaxWaiting
    BY WaitingAssumption, EmptySeq
  <2> QED BY <2>1 DEF InitCommon, CommonTypes
<1>2. queue = << >> /\ Waiting = {} /\ IsInjective(queue)
  BY DEF InitCommon, Waiting, IsInjective
<1>3. Tokenless
  BY DEF InitCommon, Tokenless
<1> QED BY <1>1, <1>2, <1>3 DEF CommonInv, QueueInv

-----------------------------------------------------------------------------
(* Scheduler.submit.                                                       *)
LEMMA SubmitAcceptedKeeps ==
    ASSUME CommonInv, NEW s \in Seqs, SubmitAccepted(s)
    PROVE  /\ CommonInv' /\ Quiet
           /\ s \notin Waiting /\ Waiting' = Waiting \cup {s}
<1>1. /\ queue \in Seq(Seqs) /\ IsInjective(queue) /\ status[s] = "new"
      /\ queue' = Append(queue, s) /\ status' = [status EXCEPT ![s] = "waiting"]
      /\ status \in [Seqs -> Live \cup Over \cup {"new", "rejected"}]
      /\ \A t \in Waiting : status[t] = "waiting"
      /\ kv' = kv
  BY DEF CommonInv, CommonTypes, QueueInv, SubmitAccepted
<1>2. s \notin Waiting /\ s \notin ToSet(queue)
  BY <1>1, WaitingIsSet
<1>3. /\ queue' \in Seq(Seqs) /\ Len(queue') = Len(queue) + 1
      /\ Waiting' = Waiting \cup {s} /\ IsInjective(queue')
  BY <1>1, <1>2, WaitingIsSet, WaitingIsSetNext, AppendElements
<1>4. CommonTypes'
  <2>1. Len(queue') <= MaxWaiting
    <3>1. Len(queue) \in Nat /\ ~(Len(queue) >= MaxWaiting)
      BY <1>1, LenProperties DEF SubmitAccepted, QueueFull
    <3> QED BY <1>3, <3>1, WaitingAssumption
  <2>2. event' \in BOOLEAN
    BY DEF SubmitAccepted, SetEvent
  <2>3. status' \in [Seqs -> Live \cup Over \cup {"new", "rejected"}]
    BY <1>1 DEF Live
  <2> QED BY <1>3, <2>1, <2>2, <2>3 DEF CommonInv, CommonTypes, SubmitAccepted, life
<1>5. QueueInv'
  BY <1>1, <1>3, WaitingAreSequences DEF QueueInv, CommonInv
<1>6. Tokenless'
  BY <1>1 DEF CommonInv, Tokenless, SubmitAccepted
<1>7. Active' = Active /\ Done' = Done
  BY <1>1, <1>2, <1>3 DEF Active, Done, Live, Over
<1> QED BY <1>1, <1>2, <1>3, <1>4, <1>5, <1>6, <1>7 DEF CommonInv, Quiet

(* A request turned away leaves no trace in the queue or the pool.         *)
LEMMA SubmitRejectedKeeps ==
    ASSUME CommonInv, NEW s \in Seqs, SubmitRejected(s)
    PROVE  CommonInv' /\ Quiet /\ Waiting' = Waiting
<1>1. /\ status[s] = "new" /\ status' = [status EXCEPT ![s] = "rejected"]
      /\ status \in [Seqs -> Live \cup Over \cup {"new", "rejected"}]
      /\ \A t \in Waiting : status[t] = "waiting"
      /\ kv' = kv /\ queue' = queue /\ Waiting' = Waiting
  BY DEF CommonInv, CommonTypes, QueueInv, SubmitRejected, qvars, Waiting
<1>2. CommonTypes'
  BY <1>1 DEF CommonInv, CommonTypes, SubmitRejected, qvars, life
<1>3. QueueInv'
  BY <1>1, WaitingAreSequences DEF CommonInv, QueueInv
<1>4. Tokenless'
  BY <1>1 DEF CommonInv, Tokenless, SubmitRejected
<1>5. Active' = Active /\ Done' = Done
  BY <1>1 DEF Active, Done, Live, Over
<1> QED BY <1>1, <1>2, <1>3, <1>4, <1>5 DEF CommonInv, Quiet

(* What changes neither the queue nor a status leaves the accounting, too. *)
LEMMA FlagsKeep ==
    ASSUME CommonInv, UNCHANGED <<kv, queue, status>>, CommonTypes', Tokenless'
    PROVE  CommonInv' /\ Quiet /\ Waiting' = Waiting
BY DEF CommonInv, QueueInv, Waiting, Active, Done, Quiet

(* Sequence.request_abort raises a flag and no more.                       *)
LEMMA RequestAbortKeeps ==
    ASSUME CommonInv, NEW s \in Seqs, RequestAbort(s)
    PROVE  CommonInv' /\ Quiet /\ Waiting' = Waiting
<1>1. UNCHANGED <<kv, queue, status>> /\ CommonTypes' /\ Tokenless'
  BY DEF CommonInv, CommonTypes, Tokenless, RequestAbort, qvars, life
<1> QED BY <1>1, FlagsKeep

(* request_stop and the cancellation touch no sequence.                    *)
LEMMA ShutdownKeeps ==
    ASSUME CommonInv, RequestStop \/ CancelTask
    PROVE  CommonInv' /\ Quiet /\ Waiting' = Waiting
<1>1. UNCHANGED <<kv, queue, status>> /\ CommonTypes' /\ Tokenless'
  BY DEF CommonInv, CommonTypes, Tokenless, RequestStop, CancelTask, SetEvent, qvars, reqs, life
<1> QED BY <1>1, FlagsKeep

-----------------------------------------------------------------------------
(* End: the sequence, waiting or admitted, is released once.               *)
LEMMA EndRetires ==
    ASSUME CommonInv, NEW s \in Seqs, NEW final \in Over, status[s] \in Live,
           End(s, final), UNCHANGED out \/ out' \in [Seqs -> Nat],
           \/ s \notin Waiting /\ UNCHANGED queue
           \/ s \in Waiting /\ Waiting' = Waiting \ {s}
    PROVE  /\ Accounting!Retire(s)
           /\ Waiting' = Waiting \ {s}
           /\ Active' = Active \ {s} /\ Done' = Done \cup {s}
<1>1. /\ status' = [status EXCEPT ![s] = final] /\ kv' = ReleaseSeq(kv, s)
      /\ status \in [Seqs -> Live \cup Over \cup {"new", "rejected"}]
      /\ status'[s] = final /\ \A t \in Seqs \ {s} : status'[t] = status[t]
  BY DEF CommonInv, CommonTypes, End
<1>2. Waiting' = Waiting \ {s}
  BY DEF Waiting
<1>3. Active' = Active \ {s} /\ Done' = Done \cup {s} /\ s \notin Done
  BY <1>1, <1>2 DEF Active, Done, Live, Over
<1>4. Accounting!Retire(s)
  BY <1>1, <1>3, SameOperators DEF Accounting!Retire, Done
<1> QED BY <1>2, <1>3, <1>4

(* admin_abort of a waiting sequence.                                      *)
LEMMA AdminAbortKeeps ==
    ASSUME CommonInv, NEW s \in Seqs, AdminAbortWaiting(s)
    PROVE  /\ CommonInv' /\ Accounting!Retire(s)
           /\ s \in Waiting /\ Waiting' = Waiting \ {s}
<1>0. /\ queue \in Seq(Seqs) /\ IsInjective(queue)
      /\ \A t \in Waiting : status[t] = "waiting"
      /\ status \in [Seqs -> Live \cup Over \cup {"new", "rejected"}]
      /\ status' = [status EXCEPT ![s] = "aborted"]
  BY DEF CommonInv, CommonTypes, QueueInv, AdminAbortWaiting, End
<1>1. PICK i \in DOMAIN queue : queue[i] = s /\ queue' = RemoveAt(queue, i)
  BY DEF AdminAbortWaiting
<1>2. /\ queue' \in Seq(Seqs) /\ Len(queue') = Len(queue) - 1 /\ IsInjective(queue')
      /\ Waiting' = Waiting \ {s}
  BY <1>0, <1>1, RemoveAtElements, WaitingIsSet, WaitingIsSetNext
<1>3. s \in Waiting /\ status[s] \in Live
  BY <1>0, <1>1 DEF Waiting, Live
<1>4. Accounting!Retire(s)
  BY <1>2, <1>3, EndRetires DEF AdminAbortWaiting, Over
<1>5. CommonTypes'
  <2>1. Len(queue) \in Nat /\ Len(queue) <= MaxWaiting
    BY <1>0, LenProperties DEF CommonInv, CommonTypes
  <2>2. Len(queue') <= MaxWaiting
    BY <1>2, <2>1, WaitingAssumption
  <2>3. event' \in BOOLEAN /\ status' \in [Seqs -> Live \cup Over \cup {"new", "rejected"}]
    BY <1>0 DEF CommonInv, CommonTypes, AdminAbortWaiting, EventAfterRemoval, Over
  <2> QED BY <1>2, <2>2, <2>3 DEF CommonInv, CommonTypes, AdminAbortWaiting, life
<1>6. QueueInv'
  BY <1>0, <1>2, WaitingAreSequences DEF QueueInv, CommonInv
<1>7. Tokenless'
  BY <1>0, <1>3 DEF CommonInv, Tokenless, AdminAbortWaiting
<1> QED BY <1>2, <1>3, <1>4, <1>5, <1>6, <1>7 DEF CommonInv

(* _abort_leftovers takes the queue from its head.                         *)
LEMMA LeftoverWaitingKeeps ==
    ASSUME CommonInv, LeftoverWaiting
    PROVE  \E s \in Waiting :
              /\ CommonInv' /\ Accounting!Retire(s)
              /\ s = Head(queue) /\ s \in Seqs /\ Waiting' = Waiting \ {s}
<1>1. PICK s : s = Head(queue)
  OBVIOUS
<1>2. /\ queue \in Seq(Seqs) /\ IsInjective(queue) /\ queue # << >>
      /\ \A t \in Waiting : status[t] = "waiting"
      /\ status \in [Seqs -> Live \cup Over \cup {"new", "rejected"}]
      /\ End(s, "aborted") /\ status' = [status EXCEPT ![s] = "aborted"]
      /\ queue' = Tail(queue)
  BY <1>1 DEF CommonInv, CommonTypes, QueueInv, LeftoverWaiting, End
<1>3. /\ queue' \in Seq(Seqs) /\ Len(queue') = Len(queue) - 1 /\ IsInjective(queue')
      /\ Waiting' = Waiting \ {s} /\ s \in Waiting
  BY <1>1, <1>2, TailElements, WaitingIsSet, WaitingIsSetNext
<1>4. s \in Seqs /\ status[s] \in Live
  BY <1>2, <1>3, WaitingAreSequences DEF Live, CommonInv
<1>5. Accounting!Retire(s)
  BY <1>2, <1>3, <1>4, EndRetires DEF LeftoverWaiting, Over
<1>6. CommonTypes'
  <2>1. Len(queue) \in Nat /\ Len(queue) <= MaxWaiting
    BY <1>2, LenProperties DEF CommonInv, CommonTypes
  <2>2. Len(queue') <= MaxWaiting
    BY <1>3, <2>1, WaitingAssumption
  <2>3. event' \in BOOLEAN /\ status' \in [Seqs -> Live \cup Over \cup {"new", "rejected"}]
    BY <1>2, <1>4 DEF CommonInv, CommonTypes, LeftoverWaiting, EventAfterRemoval, Over
  <2> QED BY <1>3, <2>2, <2>3 DEF CommonInv, CommonTypes, LeftoverWaiting, life
<1>7. QueueInv'
  BY <1>2, <1>3, <1>4, WaitingAreSequences DEF QueueInv, CommonInv
<1>8. Tokenless'
  BY <1>2, <1>3, <1>4 DEF CommonInv, Tokenless, LeftoverWaiting
<1> QED BY <1>1, <1>3, <1>4, <1>5, <1>6, <1>7, <1>8 DEF CommonInv

-----------------------------------------------------------------------------
(* Scheduler.admit.                                                        *)
LEMMA AdmitOneKeeps ==
    ASSUME CommonInv, NEW room, AdmitOne(room)
    PROVE  \E s \in Waiting :
              /\ CommonInv' /\ Accounting!Admit(s)
              /\ s \in Seqs /\ Waiting' = Waiting \ {s} /\ admitted' = Append(admitted, s)
<1>0. /\ queue \in Seq(Seqs) /\ IsInjective(queue)
      /\ \A t \in Waiting : status[t] = "waiting"
      /\ status' = status
  BY DEF CommonInv, CommonTypes, QueueInv, AdmitOne, reqs
<1>1. PICK i \in DOMAIN queue : /\ kv' \in Admitted(kv, queue[i])
                                /\ queue' = RemoveAt(queue, i)
                                /\ admitted' = Append(admitted, queue[i])
  BY DEF AdmitOne, Choosable
<1>2. PICK s : s = queue[i]
  OBVIOUS
<1>3. /\ queue' \in Seq(Seqs) /\ Len(queue') = Len(queue) - 1 /\ IsInjective(queue')
      /\ Waiting' = Waiting \ {s}
  BY <1>0, <1>1, <1>2, RemoveAtElements, WaitingIsSet, WaitingIsSetNext
<1>4. s \in Waiting /\ s \in Seqs /\ status[s] = "waiting"
  BY <1>0, <1>2, WaitingAreSequences DEF Waiting, CommonInv
<1>5. Active' = Active \cup {s} /\ Done' = Done /\ s \notin Active /\ s \notin Done
  BY <1>0, <1>3, <1>4 DEF Active, Done, Live, Over
<1>6. Accounting!Admit(s)
  BY <1>1, <1>2, <1>5, SameOperators DEF Accounting!Admit, Done
<1>7. CommonTypes'
  <2>1. Len(queue) \in Nat /\ Len(queue) <= MaxWaiting
    BY <1>0, LenProperties DEF CommonInv, CommonTypes
  <2>2. Len(queue') <= MaxWaiting
    BY <1>3, <2>1, WaitingAssumption
  <2>3. event' \in BOOLEAN
    BY DEF CommonInv, CommonTypes, AdmitOne, EventAfterRemoval
  <2>4. admitted' \in Seq(Seqs)
    BY <1>1, <1>2, <1>4, AppendProperties DEF CommonInv, CommonTypes
  <2> QED BY <1>3, <2>2, <2>3, <2>4 DEF CommonInv, CommonTypes, AdmitOne, reqs, life
<1>8. QueueInv'
  BY <1>0, <1>3 DEF QueueInv
<1>9. Tokenless'
  BY DEF CommonInv, Tokenless, AdmitOne, reqs
<1> QED BY <1>1, <1>2, <1>3, <1>4, <1>6, <1>7, <1>8, <1>9 DEF CommonInv

(* A head that fits but whose prefix left too few blocks is put back: the  *)
(* same sequences wait, and the accounting is back where it was.           *)
LEMMA AdmitRefusedKeeps ==
    ASSUME CommonInv, NEW room, AdmitRefused(room)
    PROVE  \E s \in Seqs : CommonInv' /\ Accounting!Refuse(s) /\ Waiting' = Waiting
<1>0. /\ queue \in Seq(Seqs) /\ IsInjective(queue)
      /\ \A t \in Waiting : status[t] = "waiting"
      /\ status' = status
  BY DEF CommonInv, CommonTypes, QueueInv, AdmitRefused, reqs
<1>1. PICK i \in DOMAIN queue : /\ kv' \in Refused(kv, queue[i])
                                /\ queue' = Cons(queue[i], RemoveAt(queue, i))
  BY DEF AdmitRefused, Choosable
<1>2. PICK s : s = queue[i]
  OBVIOUS
<1>3. PICK r : r = RemoveAt(queue, i)
  OBVIOUS
<1>4. s \in Waiting /\ s \in Seqs /\ status[s] = "waiting"
  BY <1>0, <1>2, WaitingAreSequences DEF Waiting, CommonInv
<1>5. /\ r \in Seq(Seqs) /\ Len(r) = Len(queue) - 1 /\ IsInjective(r)
      /\ ToSet(r) = Waiting \ {s}
  BY <1>0, <1>2, <1>3, RemoveAtElements, WaitingIsSet
<1>6. /\ queue' \in Seq(Seqs) /\ Len(queue') = Len(r) + 1 /\ IsInjective(queue')
      /\ ToSet(queue') = ToSet(r) \cup {s}
  <2>1. queue' = Cons(s, r) /\ s \notin ToSet(r)
    BY <1>1, <1>2, <1>3, <1>5
  <2>2. r \in Seq(Seqs) /\ s \in Seqs /\ IsInjective(r)
    BY <1>4, <1>5
  <2>3. /\ Cons(s, r) \in Seq(Seqs) /\ Len(Cons(s, r)) = Len(r) + 1
        /\ ToSet(Cons(s, r)) = ToSet(r) \cup {s}
        /\ IsInjective(Cons(s, r))
    BY <2>1, <2>2, PushFrontElements, ZenonT(60)
  <2> QED BY <2>1, <2>3
<1>7. Waiting' = Waiting
  BY <1>4, <1>5, <1>6, WaitingIsSetNext
<1>8. Active' = Active /\ Done' = Done /\ s \notin Active /\ s \notin Done
  BY <1>0, <1>4, <1>7 DEF Active, Done, Over
<1>9. Accounting!Refuse(s)
  BY <1>1, <1>2, <1>8, SameOperators DEF Accounting!Refuse, Done
<1>10. CommonTypes'
  <2>1. Len(queue) \in Nat /\ Len(queue) <= MaxWaiting
    BY <1>0, LenProperties DEF CommonInv, CommonTypes
  <2>2. Len(queue') <= MaxWaiting
    BY <1>5, <1>6, <2>1
  <2> QED BY <1>6, <2>2 DEF CommonInv, CommonTypes, AdmitRefused, reqs, life
<1>11. QueueInv'
  BY <1>0, <1>6, <1>7 DEF QueueInv
<1>12. Tokenless'
  BY DEF CommonInv, Tokenless, AdmitRefused, reqs
<1> QED BY <1>4, <1>7, <1>9, <1>10, <1>11, <1>12 DEF CommonInv

(* The end of an admission round changes nothing but pc.                   *)
LEMMA AdmitDoneKeeps ==
    ASSUME CommonInv, NEW room, AdmitDone(room)
    PROVE  CommonInv' /\ Quiet /\ Waiting' = Waiting
<1>1. UNCHANGED <<kv, queue, status>> /\ CommonTypes' /\ Tokenless'
  BY DEF CommonInv, CommonTypes, Tokenless, AdmitDone, qvars, reqs, life
<1> QED BY <1>1, FlagsKeep

-----------------------------------------------------------------------------
(* The order of the queue, under fcfs.                                     *)
OrderKept ==
    /\ \A s \in Waiting : s \in Active' => s = Head(queue)
    /\ \A s, t \in Waiting \cap Waiting' :
          Position(queue, s) < Position(queue, t)
             <=> Position(queue', s) < Position(queue', t)

(* The steps of the handlers and of run() that change the queue.           *)
QueueStep ==
    \/ UNCHANGED queue
    \/ \E s \in Seqs : SubmitAccepted(s) \/ AdminAbortWaiting(s)
    \/ \E room : AdmitOne(room) \/ AdmitRefused(room)
    \/ LeftoverWaiting

(* In a queue that has every item once an item has one position.           *)
LEMMA PositionOfItem ==
    ASSUME NEW S, NEW q \in Seq(S), IsInjective(q), NEW i \in 1 .. Len(q)
    PROVE  Position(q, q[i]) = i
<1>1. DOMAIN q = 1 .. Len(q)
  BY LenProperties
<1> QED BY <1>1 DEF Position, IsInjective

(* Items that keep their place, or all move up behind a gap, keep order.   *)
LEMMA ShiftKeepsOrder ==
    ASSUME NEW q \in Seq(Seqs), IsInjective(q), NEW r \in Seq(Seqs), IsInjective(r),
           NEW gap \in Nat,
           \A j \in 1 .. Len(q) : q[j] \in ToSet(r) =>
              /\ j # gap
              /\ (IF j < gap THEN j ELSE j - 1) \in 1 .. Len(r)
              /\ r[IF j < gap THEN j ELSE j - 1] = q[j],
           NEW s \in ToSet(q) \cap ToSet(r), NEW t \in ToSet(q) \cap ToSet(r)
    PROVE  Position(q, s) < Position(q, t) <=> Position(r, s) < Position(r, t)
<1>1. DOMAIN q = 1 .. Len(q) /\ Len(q) \in Nat
  BY LenProperties
<1>2. PICK i \in 1 .. Len(q) : q[i] = s
  BY <1>1 DEF ToSet
<1>3. PICK j \in 1 .. Len(q) : q[j] = t
  BY <1>1 DEF ToSet
<1>4. Position(q, s) = i /\ Position(q, t) = j
  BY <1>2, <1>3, PositionOfItem
<1>5. PICK m \in 1 .. Len(r) : m = (IF i < gap THEN i ELSE i - 1) /\ r[m] = s /\ i # gap
  BY <1>2
<1>6. PICK n \in 1 .. Len(r) : n = (IF j < gap THEN j ELSE j - 1) /\ r[n] = t /\ j # gap
  BY <1>3
<1>7. Position(r, s) = m /\ Position(r, t) = n
  BY <1>5, <1>6, PositionOfItem
<1>8. i < j <=> m < n
  BY <1>1, <1>5, <1>6
<1> QED BY <1>4, <1>7, <1>8

(* The same for items none of which moves.                                 *)
LEMMA SamePlaceKeepsOrder ==
    ASSUME NEW q \in Seq(Seqs), IsInjective(q), NEW r \in Seq(Seqs), IsInjective(r),
           Len(q) <= Len(r), \A j \in 1 .. Len(q) : r[j] = q[j],
           NEW s \in ToSet(q) \cap ToSet(r), NEW t \in ToSet(q) \cap ToSet(r)
    PROVE  Position(q, s) < Position(q, t) <=> Position(r, s) < Position(r, t)
<1>1. DOMAIN q = 1 .. Len(q) /\ Len(q) \in Nat /\ Len(r) \in Nat
  BY LenProperties
<1>2. ASSUME NEW x \in ToSet(q)
      PROVE  Position(r, x) = Position(q, x)
  <2>1. PICK i \in 1 .. Len(q) : q[i] = x
    BY <1>1 DEF ToSet
  <2>2. i \in 1 .. Len(r) /\ r[i] = x
    BY <1>1, <2>1
  <2> QED BY <2>1, <2>2, PositionOfItem
<1> QED BY <1>2

(* A removal closes the gap it leaves.                                     *)
LEMMA RemovalKeepsOrder ==
    ASSUME NEW q \in Seq(Seqs), IsInjective(q), NEW i \in DOMAIN q,
           NEW s \in ToSet(q) \cap ToSet(RemoveAt(q, i)),
           NEW t \in ToSet(q) \cap ToSet(RemoveAt(q, i))
    PROVE  Position(q, s) < Position(q, t)
              <=> Position(RemoveAt(q, i), s) < Position(RemoveAt(q, i), t)
<1>1. PICK r : r = RemoveAt(q, i)
  OBVIOUS
<1>2. /\ r \in Seq(Seqs) /\ Len(r) = Len(q) - 1
      /\ \A j \in 1 .. Len(q) - 1 : r[j] = IF j < i THEN q[j] ELSE q[j + 1]
  BY <1>1, RemoveAtItems
<1>3. IsInjective(r) /\ ToSet(r) = ToSet(q) \ {q[i]}
  BY <1>1, RemoveAtElements
<1>4. DOMAIN q = 1 .. Len(q) /\ Len(q) \in Nat /\ i \in 1 .. Len(q)
  BY LenProperties
<1>5. ASSUME NEW j \in 1 .. Len(q), q[j] \in ToSet(r)
      PROVE  /\ j # i
             /\ (IF j < i THEN j ELSE j - 1) \in 1 .. Len(r)
             /\ r[IF j < i THEN j ELSE j - 1] = q[j]
  <2>1. j # i
    BY <1>3, <1>5
  <2>2. CASE j < i
    BY <1>2, <1>4, <2>1, <2>2
  <2>3. CASE ~(j < i)
    <3>1. j - 1 \in 1 .. Len(q) - 1 /\ ~(j - 1 < i) /\ (j - 1) + 1 = j
      BY <1>4, <2>1, <2>3
    <3>2. r[j - 1] = q[(j - 1) + 1]
      BY <1>2, <3>1
    <3> QED BY <1>2, <2>1, <2>3, <3>1, <3>2
  <2> QED BY <2>2, <2>3
<1>6. i \in Nat
  BY <1>4
<1>7. s \in ToSet(q) \cap ToSet(r) /\ t \in ToSet(q) \cap ToSet(r)
  BY <1>1
<1>8. Position(q, s) < Position(q, t) <=> Position(r, s) < Position(r, t)
  BY <1>2, <1>3, <1>5, <1>6, <1>7, ShiftKeepsOrder
<1> QED BY <1>1, <1>8

(* Whoever leaves the queue for the batch was its head, and nobody passes  *)
(* anybody.                                                                *)
LEMMA QueueStepKeepsOrder ==
    ASSUME CommonInv, CommonInv', Policies = {"fcfs"}, QueueStep
    PROVE  OrderKept
<1>0. /\ queue \in Seq(Seqs) /\ IsInjective(queue) /\ queue' \in Seq(Seqs) /\ IsInjective(queue')
      /\ Waiting = ToSet(queue) /\ Waiting' = ToSet(queue') /\ policy = "fcfs"
  BY WaitingIsSet, WaitingIsSetNext DEF CommonInv, CommonTypes, QueueInv
<1>1. CASE UNCHANGED queue
  <2>1. Waiting' = Waiting
    BY <1>1 DEF Waiting
  <2> QED BY <1>1, <2>1 DEF OrderKept, Active
<1>2. ASSUME NEW s \in Seqs, SubmitAccepted(s)
      PROVE  OrderKept
  <2>1. Waiting' = Waiting \cup {s}
    BY <1>2, SubmitAcceptedKeeps
  <2>2. /\ Len(queue') = Len(queue) + 1
        /\ \A j \in 1 .. Len(queue) : queue'[j] = queue[j]
    BY <1>0, <1>2, AppendProperties DEF SubmitAccepted
  <2>3. Len(queue) <= Len(queue')
    BY <1>0, <2>2, LenProperties
  <2>4. \A a, b \in Waiting \cap Waiting' :
           Position(queue, a) < Position(queue, b) <=> Position(queue', a) < Position(queue', b)
    BY <1>0, <2>2, <2>3, SamePlaceKeepsOrder
  <2>5. \A a \in Waiting : a \notin Active'
    BY <2>1 DEF Active
  <2> QED BY <2>4, <2>5 DEF OrderKept
<1>3. ASSUME NEW s \in Seqs, AdminAbortWaiting(s)
      PROVE  OrderKept
  <2>1. PICK i \in DOMAIN queue : queue' = RemoveAt(queue, i)
    BY <1>3 DEF AdminAbortWaiting
  <2>2. \A a, b \in Waiting \cap Waiting' :
           Position(queue, a) < Position(queue, b) <=> Position(queue', a) < Position(queue', b)
    BY <1>0, <2>1, RemovalKeepsOrder
  <2>3. Waiting' = Waiting \ {s} /\ s \notin Active'
    <3>1. status' = [status EXCEPT ![s] = "aborted"] /\ DOMAIN status = Seqs
      BY <1>3 DEF AdminAbortWaiting, End, CommonInv, CommonTypes
    <3>2. s \notin Active'
      BY <3>1 DEF Active, Live
    <3> QED BY <1>3, <3>2, AdminAbortKeeps
  <2>4. \A a \in Waiting : a \notin Active'
    BY <2>3 DEF Active
  <2> QED BY <2>2, <2>4 DEF OrderKept
<1>4. ASSUME NEW room, AdmitOne(room)
      PROVE  OrderKept
  <2>1. PICK i \in Choosable(kv, queue, policy) : queue' = RemoveAt(queue, i)
    BY <1>4 DEF AdmitOne
  <2>2. i \in 1 .. Len(queue) /\ i \in DOMAIN queue
    BY <1>0, <2>1, LenProperties DEF Choosable
  <2>3. i = 1
    BY <1>0, <2>1, <2>2, LenProperties DEF Choosable
  <2>4. Waiting' = Waiting \ {Head(queue)}
    BY <1>0, <2>1, <2>2, <2>3, RemoveAtElements
  <2>5. \A a, b \in Waiting \cap Waiting' :
           Position(queue, a) < Position(queue, b) <=> Position(queue', a) < Position(queue', b)
    BY <1>0, <2>1, <2>2, RemovalKeepsOrder
  <2> QED BY <2>4, <2>5 DEF OrderKept, Active
<1>5. ASSUME NEW room, AdmitRefused(room)
      PROVE  OrderKept
  <2>1. PICK i \in Choosable(kv, queue, policy) : queue' = Cons(queue[i], RemoveAt(queue, i))
    BY <1>5 DEF AdmitRefused
  <2>2. i \in 1 .. Len(queue) /\ i \in DOMAIN queue /\ Len(queue) \in Nat
    BY <1>0, <2>1, LenProperties DEF Choosable
  <2>3. i = 1
    BY <1>0, <2>1, <2>2 DEF Choosable
  <2>4. PICK r : r = RemoveAt(queue, 1)
    OBVIOUS
  <2>5. /\ r \in Seq(Seqs) /\ Len(r) = Len(queue) - 1
        /\ \A j \in 1 .. Len(queue) - 1 : r[j] = queue[j + 1]
    <3>1. \A j \in 1 .. Len(queue) - 1 : r[j] = IF j < 1 THEN queue[j] ELSE queue[j + 1]
      BY <1>0, <2>2, <2>3, <2>4, RemoveAtItems
    <3>2. r \in Seq(Seqs) /\ Len(r) = Len(queue) - 1
      BY <1>0, <2>2, <2>3, <2>4, RemoveAtItems
    <3> QED BY <2>2, <3>1, <3>2
  <2>6. PICK x : x = queue[1]
    OBVIOUS
  <2>7. queue' = <<x>> \o r
    BY <2>1, <2>3, <2>4, <2>6 DEF Cons
  <2>8. x \in Seqs
    BY <1>0, <2>2, <2>3, <2>6, ElementOfSeq
  <2>9. <<x>> \in Seq(Seqs) /\ Len(<<x>>) = 1 /\ <<x>>[1] = x
    BY <2>8
  <2>10. /\ Len(queue') = 1 + Len(r)
         /\ \A j \in 1 .. 1 + Len(r) : queue'[j] = IF j <= 1 THEN <<x>>[j] ELSE r[j - 1]
    <3>1. /\ Len(<<x>> \o r) = Len(<<x>>) + Len(r)
          /\ \A j \in 1 .. Len(<<x>>) + Len(r) : (<<x>> \o r)[j] =
                IF j <= Len(<<x>>) THEN <<x>>[j] ELSE r[j - Len(<<x>>)]
      BY <2>5, <2>9, ConcatProperties
    <3> QED BY <2>7, <2>9, <3>1
  <2>11. ASSUME NEW j \in 1 .. Len(queue)
         PROVE  queue'[j] = queue[j]
    <3>1. CASE j = 1
      BY <2>2, <2>5, <2>6, <2>9, <2>10, <3>1
    <3>2. CASE j # 1
      <4>1. j - 1 \in 1 .. Len(queue) - 1 /\ (j - 1) + 1 = j /\ j \in 1 .. 1 + Len(r) /\ ~(j <= 1)
        BY <2>2, <2>5, <3>2
      <4>2. queue'[j] = r[j - 1] /\ r[j - 1] = queue[(j - 1) + 1]
        BY <2>5, <2>10, <4>1
      <4> QED BY <4>1, <4>2
    <3> QED BY <3>1, <3>2
  <2>12. Len(queue) <= Len(queue')
    BY <2>2, <2>5, <2>10
  <2>13. \A a, b \in Waiting \cap Waiting' :
            Position(queue, a) < Position(queue, b) <=> Position(queue', a) < Position(queue', b)
    BY <1>0, <2>11, <2>12, SamePlaceKeepsOrder
  <2>14. Waiting' = Waiting
    BY <1>5, AdmitRefusedKeeps
  <2> QED BY <2>13, <2>14 DEF OrderKept, Active
<1>6. ASSUME LeftoverWaiting
      PROVE  OrderKept
  <2>1. PICK s \in Waiting : s = Head(queue) /\ s \in Seqs /\ Waiting' = Waiting \ {s}
    BY <1>6, LeftoverWaitingKeeps
  <2>2. queue # << >> /\ queue' = Tail(queue)
    BY <1>6 DEF LeftoverWaiting
  <2>3. /\ Len(queue') = Len(queue) - 1 /\ Head(queue) = queue[1]
        /\ \A j \in 1 .. Len(queue') : queue'[j] = queue[j + 1]
    BY <1>0, <2>2, HeadTailProperties
  <2>4. Len(queue) \in Nat
    BY <1>0, LenProperties
  <2>5. ASSUME NEW j \in 1 .. Len(queue), queue[j] \in ToSet(queue')
        PROVE  /\ j # 1 /\ (IF j < 1 THEN j ELSE j - 1) \in 1 .. Len(queue')
               /\ queue'[IF j < 1 THEN j ELSE j - 1] = queue[j]
    <3>1. j # 1
      BY <1>0, <2>1, <2>3, <2>5
    <3>2. j - 1 \in 1 .. Len(queue') /\ (j - 1) + 1 = j /\ ~(j < 1)
      BY <2>3, <2>4, <3>1
    <3>3. queue'[j - 1] = queue[(j - 1) + 1]
      BY <2>3, <3>2
    <3> QED BY <3>1, <3>2, <3>3
  <2>6. \A a, b \in Waiting \cap Waiting' :
           Position(queue, a) < Position(queue, b) <=> Position(queue', a) < Position(queue', b)
    BY <1>0, <2>5, ShiftKeepsOrder
  <2>7. s \notin Active'
    <3>1. status' = [status EXCEPT ![s] = "aborted"] /\ DOMAIN status = Seqs
      BY <1>6, <2>1 DEF LeftoverWaiting, End, CommonInv, CommonTypes
    <3> QED BY <2>1, <3>1 DEF Active, Live
  <2> QED BY <2>1, <2>6, <2>7 DEF OrderKept, Active
<1> QED BY <1>1, <1>2, <1>3, <1>4, <1>5, <1>6 DEF QueueStep

-----------------------------------------------------------------------------
(* The event of the queue, on which run() sleeps.                          *)

(* The event is set while somebody waits, and only the shutdown sets it    *)
(* for an empty queue.                                                     *)
EventTells ==
    /\ queue # << >> => event
    /\ event => queue # << >> \/ stop

(* run() sleeps only where nothing is to be done, and ends only when it is *)
(* told to, with nobody left in the queue.                                 *)
LoopInv ==
    /\ EventTells
    /\ pc = "wait" => queue = << >> /\ ~event /\ ~stop
    /\ pc \in {"leftovers", "stopped"} => stop
    /\ pc = "stopped" => queue = << >>

(* A sequence appended to a queue, or put back at its front, is in it.     *)
LEMMA NeverEmpty ==
    ASSUME NEW q \in Seq(Seqs), NEW s \in Seqs
    PROVE  Append(q, s) # << >> /\ Cons(s, q) # << >>
<1>1. Append(q, s) \in Seq(Seqs) /\ Len(Append(q, s)) = Len(q) + 1
  BY AppendProperties
<1>2. /\ <<s>> \in Seq(Seqs) /\ Len(<<s>>) = 1
      /\ <<s>> \o q \in Seq(Seqs) /\ Len(<<s>> \o q) = Len(<<s>>) + Len(q)
  BY ConcatProperties
<1>3. Len(q) \in Nat /\ Len(<< >>) = 0
  BY LenProperties
<1>4. Append(q, s) # << >>
  BY <1>1, <1>3
<1>5. <<s>> \o q # << >>
  BY <1>2, <1>3
<1> QED BY <1>4, <1>5 DEF Cons

(* The steps that change the queue, the event or stop.                     *)
LEMMA QueueStepsKeepLoopInv ==
    ASSUME CommonInv, LoopInv, NEW room,
           Environment \/ Admit(room) \/ LeftoverWaiting
    PROVE  LoopInv'
<1>0. queue \in Seq(Seqs) /\ event \in BOOLEAN /\ stop \in BOOLEAN
  BY DEF CommonInv, CommonTypes
<1> USE DEF LoopInv, EventTells, SetEvent, Goto, EventAfterRemoval, LoopFree, LoopPcs, qvars, life
<1>1. ASSUME NEW s \in Seqs, SubmitAccepted(s)
      PROVE  LoopInv'
  <2>1. queue' # << >>
    BY <1>0, <1>1, NeverEmpty DEF SubmitAccepted
  <2> QED BY <1>1, <2>1 DEF SubmitAccepted
<1>2. ASSUME NEW s \in Seqs, SubmitRejected(s) \/ RequestAbort(s)
      PROVE  LoopInv'
  BY <1>2 DEF SubmitRejected, RequestAbort
<1>3. ASSUME NEW s \in Seqs, AdminAbortWaiting(s)
      PROVE  LoopInv'
  <2>1. queue # << >> /\ event
    BY <1>0, <1>3 DEF AdminAbortWaiting
  <2> QED BY <1>3, <2>1 DEF AdminAbortWaiting
<1>4. CASE RequestStop \/ CancelTask
  BY <1>4 DEF RequestStop, CancelTask
<1>5. CASE AdmitOne(room)
  <2>1. queue # << >> /\ event
    BY <1>0, <1>5 DEF AdmitOne, Choosable
  <2> QED BY <1>5, <2>1 DEF AdmitOne
<1>6. CASE AdmitRefused(room)
  <2>1. PICK i \in DOMAIN queue : queue' = Cons(queue[i], RemoveAt(queue, i))
    BY <1>6 DEF AdmitRefused, Choosable
  <2>2. RemoveAt(queue, i) \in Seq(Seqs) /\ queue[i] \in Seqs
    <3>1. DOMAIN queue = 1 .. Len(queue)
      BY <1>0, LenProperties
    <3> QED BY <1>0, <3>1, ElementOfSeq, RemoveAtItems
  <2>3. queue' # << >>
    BY <2>1, <2>2, NeverEmpty
  <2> QED BY <1>6, <2>3 DEF AdmitRefused
<1>7. CASE AdmitDone(room)
  BY <1>7 DEF AdmitDone
<1>8. CASE LeftoverWaiting
  BY <1>8 DEF LeftoverWaiting
<1> QED BY <1>1, <1>2, <1>3, <1>4, <1>5, <1>6, <1>7, <1>8 DEF Environment, Admit
=============================================================================
