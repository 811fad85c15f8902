-------------------------- MODULE AdminAbortProofs ---------------------------
(***************************************************************************)
(* What admin_abort and run() keep between them, for any number of calls   *)
(* and requests and every capacity of the queue and the batch.             *)
(***************************************************************************)
EXTENDS AdminAbort, SequenceTheorems, FiniteSetTheorems, WellFoundedInduction, TLAPS

-----------------------------------------------------------------------------
(* The deque.  A list and its numbers.                                     *)
LEMMA ListFacts ==
    ASSUME NEW S, NEW q \in Seq(S)
    PROVE  /\ Len(q) \in Nat /\ DOMAIN q = 1 .. Len(q)
           /\ \A i \in 1 .. Len(q) : q[i] \in S /\ q[i] \in Elements(q)
           /\ \A x \in Elements(q) : \E i \in 1 .. Len(q) : q[i] = x
           /\ Elements(q) \subseteq S
           /\ (q = << >>) <=> (Len(q) = 0)
           /\ q # << >> => Len(q) >= 1 /\ Head(q) = q[1] /\ Head(q) \in Elements(q)
           /\ q = << >> <=> Elements(q) = {}
<1>1. Len(q) \in Nat /\ DOMAIN q = 1 .. Len(q)
  BY LenProperties
<1>2. \A i \in 1 .. Len(q) : q[i] \in S /\ q[i] \in Elements(q)
  BY <1>1, ElementOfSeq DEF Elements
<1>3. \A x \in Elements(q) : \E i \in 1 .. Len(q) : q[i] = x
  BY <1>1 DEF Elements
<1>4. q = << >> <=> Len(q) = 0
  BY <1>1, EmptySeq
<1>5. q # << >> => Len(q) >= 1 /\ Head(q) = q[1] /\ Head(q) \in Elements(q)
  BY <1>1, <1>2, <1>4
<1>6. Elements(q) \subseteq S
  BY <1>2, <1>3
<1>7. q = << >> <=> Elements(q) = {}
  BY <1>1, <1>3, <1>4, <1>5
<1> QED BY <1>1, <1>2, <1>3, <1>4, <1>5, <1>6, <1>7

(* Where the indices of one list go to different indices of another with   *)
(* the same items, what was there once is there once.                      *)
LEMMA OnceAgain ==
    ASSUME NEW S, NEW q \in Seq(S), NEW r \in Seq(S),
           NEW place \in [1 .. Len(r) -> 1 .. Len(q)],
           \A i \in 1 .. Len(r) : r[i] = q[place[i]],
           \A i, j \in 1 .. Len(r) : place[i] = place[j] => i = j
    PROVE  /\ Elements(r) \subseteq Elements(q)
           /\ \A s : Once(q, s) => Once(r, s)
<1>1. /\ DOMAIN q = 1 .. Len(q) /\ DOMAIN r = 1 .. Len(r)
      /\ \A i \in 1 .. Len(q) : q[i] \in Elements(q)
      /\ \A x \in Elements(r) : \E i \in 1 .. Len(r) : r[i] = x
  BY ListFacts
<1>2. \A i \in 1 .. Len(r) : place[i] \in 1 .. Len(q)
  OBVIOUS
<1>3. ASSUME NEW x \in Elements(r)
      PROVE  x \in Elements(q)
  BY <1>1, <1>2
<1>4. ASSUME NEW s, Once(q, s), NEW i \in 1 .. Len(r), NEW j \in 1 .. Len(r), r[i] = s, r[j] = s
      PROVE  i = j
  BY <1>1, <1>2, <1>4 DEF Once
<1> QED BY <1>1, <1>3, <1>4 DEF Once

(* append.                                                                 *)
LEMMA AppendOnce ==
    ASSUME NEW S, NEW q \in Seq(S), NEW x \in S
    PROVE  /\ Append(q, x) \in Seq(S) /\ Append(q, x) # << >>
           /\ Len(Append(q, x)) = Len(q) + 1
           /\ Elements(Append(q, x)) = Elements(q) \cup {x}
           /\ \A s : Once(q, s) /\ (s = x => x \notin Elements(q)) => Once(Append(q, x), s)
           /\ q # << >> => Head(Append(q, x)) = Head(q)
<1>1. PICK r : r = Append(q, x)
  OBVIOUS
<1>2. /\ r \in Seq(S) /\ Len(r) = Len(q) + 1 /\ r # << >>
      /\ \A i \in 1 .. Len(q) : r[i] = q[i]
      /\ r[Len(q) + 1] = x
  BY <1>1, AppendProperties
<1>3. /\ Len(q) \in Nat /\ DOMAIN q = 1 .. Len(q)
      /\ \A i \in 1 .. Len(q) : q[i] \in Elements(q)
      /\ \A y \in Elements(q) : \E i \in 1 .. Len(q) : q[i] = y
  BY ListFacts
<1>4. /\ DOMAIN r = 1 .. Len(q) + 1
      /\ \A i \in 1 .. Len(q) + 1 : r[i] \in Elements(r)
      /\ \A y \in Elements(r) : \E i \in 1 .. Len(q) + 1 : r[i] = y
  BY <1>2, ListFacts
<1>5. \A i \in 1 .. Len(q) + 1 : i \in 1 .. Len(q) \/ i = Len(q) + 1
  BY <1>3
<1>6. \A i \in 1 .. Len(q) : i \in 1 .. Len(q) + 1
  BY <1>3
<1>7. Elements(r) = Elements(q) \cup {x}
  <2>1. Elements(r) \subseteq Elements(q) \cup {x}
    BY <1>2, <1>3, <1>4, <1>5
  <2>2. Elements(q) \subseteq Elements(r)
    BY <1>2, <1>3, <1>4, <1>6
  <2>3. Len(q) + 1 \in 1 .. Len(q) + 1
    BY <1>3
  <2> QED BY <1>2, <1>4, <2>1, <2>2, <2>3
<1>8. ASSUME NEW s, Once(q, s), s = x => x \notin Elements(q),
             NEW i \in 1 .. Len(q) + 1, NEW j \in 1 .. Len(q) + 1, r[i] = s, r[j] = s
      PROVE  i = j
  BY <1>2, <1>3, <1>5, <1>8 DEF Once
<1>9. \A s : Once(q, s) /\ (s = x => x \notin Elements(q)) => Once(r, s)
  BY <1>4, <1>8 DEF Once
<1>10. q # << >> => Head(r) = Head(q)
  <2>1. q # << >> => Head(q) = q[1] /\ Len(q) >= 1
    BY ListFacts
  <2>2. Head(r) = r[1]
    BY <1>2, ListFacts
  <2> QED BY <1>2, <1>3, <2>1, <2>2
<1> QED BY <1>1, <1>2, <1>7, <1>9, <1>10

(* appendleft.                                                             *)
LEMMA ConsOnce ==
    ASSUME NEW S, NEW q \in Seq(S), NEW x \in S
    PROVE  /\ Cons(x, q) \in Seq(S) /\ Cons(x, q) # << >>
           /\ Elements(Cons(x, q)) = Elements(q) \cup {x}
           /\ \A s : Once(q, s) /\ (s = x => x \notin Elements(q)) => Once(Cons(x, q), s)
<1>1. PICK r : r = Cons(x, q)
  OBVIOUS
<1>2. /\ Len(q) \in Nat /\ DOMAIN q = 1 .. Len(q)
      /\ \A i \in 1 .. Len(q) : q[i] \in Elements(q)
      /\ \A y \in Elements(q) : \E i \in 1 .. Len(q) : q[i] = y
  BY ListFacts
<1>3. /\ r \in Seq(S) /\ Len(r) = Len(q) + 1
      /\ r[1] = x /\ \A i \in 1 .. Len(q) : r[i + 1] = q[i]
  <2>1. <<x>> \in Seq(S) /\ Len(<<x>>) = 1 /\ <<x>>[1] = x
    OBVIOUS
  <2>2. /\ r \in Seq(S) /\ Len(r) = Len(<<x>>) + Len(q)
        /\ \A i \in 1 .. Len(<<x>>) + Len(q) :
              r[i] = IF i <= Len(<<x>>) THEN <<x>>[i] ELSE q[i - Len(<<x>>)]
    BY <1>1, <2>1, ConcatProperties DEF Cons
  <2>3. \A i \in 1 .. 1 + Len(q) : r[i] = IF i <= 1 THEN x ELSE q[i - 1]
    BY <1>2, <2>1, <2>2
  <2>4. 1 \in 1 .. 1 + Len(q)
    BY <1>2
  <2>5. \A i \in 1 .. Len(q) : i + 1 \in 1 .. 1 + Len(q) /\ ~ (i + 1 <= 1) /\ (i + 1) - 1 = i
    BY <1>2
  <2>6. Len(r) = Len(q) + 1
    BY <1>2, <2>1, <2>2
  <2> QED BY <2>2, <2>3, <2>4, <2>5, <2>6
<1>4. /\ DOMAIN r = 1 .. Len(q) + 1 /\ r # << >>
      /\ \A i \in 1 .. Len(q) + 1 : r[i] \in Elements(r)
      /\ \A y \in Elements(r) : \E i \in 1 .. Len(q) + 1 : r[i] = y
  BY <1>2, <1>3, ListFacts
<1>5. \A i \in 1 .. Len(q) + 1 : i = 1 \/ \E k \in 1 .. Len(q) : i = k + 1
  <2> SUFFICES ASSUME NEW i \in 1 .. Len(q) + 1, i # 1
               PROVE  \E k \in 1 .. Len(q) : i = k + 1
    OBVIOUS
  <2>1. i - 1 \in 1 .. Len(q) /\ i = (i - 1) + 1
    BY <1>2
  <2> QED BY <2>1
<1>6. \A k \in 1 .. Len(q) : k + 1 \in 1 .. Len(q) + 1
  BY <1>2
<1>7. Elements(r) = Elements(q) \cup {x}
  <2>1. Elements(r) \subseteq Elements(q) \cup {x}
    BY <1>2, <1>3, <1>4, <1>5
  <2>2. Elements(q) \subseteq Elements(r)
    BY <1>2, <1>3, <1>4, <1>6
  <2>3. 1 \in 1 .. Len(q) + 1
    BY <1>2
  <2> QED BY <1>3, <1>4, <2>1, <2>2, <2>3
<1>8. ASSUME NEW s, Once(q, s), s = x => x \notin Elements(q),
             NEW i \in 1 .. Len(q) + 1, NEW j \in 1 .. Len(q) + 1, r[i] = s, r[j] = s
      PROVE  i = j
  <2>1. ASSUME NEW k \in 1 .. Len(q), r[k + 1] = s
        PROVE  s \in Elements(q) /\ s # x /\ q[k] = s
    BY <1>2, <1>3, <1>8, <2>1
  <2>2. CASE i = 1
    BY <1>3, <1>5, <1>8, <2>1, <2>2
  <2>3. CASE j = 1
    BY <1>3, <1>5, <1>8, <2>1, <2>3
  <2>4. CASE i # 1 /\ j # 1
    <3>1. PICK k \in 1 .. Len(q) : i = k + 1
      BY <1>5, <2>4
    <3>2. PICK m \in 1 .. Len(q) : j = m + 1
      BY <1>5, <2>4
    <3>3. q[k] = s /\ q[m] = s
      BY <1>8, <2>1, <3>1, <3>2
    <3> QED BY <1>2, <1>8, <3>1, <3>2, <3>3 DEF Once
  <2> QED BY <2>2, <2>3, <2>4
<1>9. \A s : Once(q, s) /\ (s = x => x \notin Elements(q)) => Once(r, s)
  BY <1>4, <1>8 DEF Once
<1> QED BY <1>1, <1>3, <1>4, <1>7, <1>9

(* popleft, and the rest of the list of admitted sequences.                *)
LEMMA TailOnce ==
    ASSUME NEW S, NEW q \in Seq(S), q # << >>
    PROVE  /\ Tail(q) \in Seq(S) /\ Len(Tail(q)) = Len(q) - 1
           /\ Elements(q) = Elements(Tail(q)) \cup {Head(q)}
           /\ \A s : Once(q, s) => Once(Tail(q), s)
           /\ Once(q, Head(q)) => Head(q) \notin Elements(Tail(q))
<1>1. PICK r : r = Tail(q)
  OBVIOUS
<1>2. /\ r \in Seq(S) /\ Len(r) = Len(q) - 1
      /\ \A i \in 1 .. Len(r) : r[i] = q[i + 1]
  BY <1>1, HeadTailProperties
<1>3. /\ Len(q) \in Nat /\ Len(q) >= 1 /\ DOMAIN q = 1 .. Len(q) /\ Head(q) = q[1]
      /\ \A i \in 1 .. Len(q) : q[i] \in Elements(q)
      /\ \A y \in Elements(q) : \E i \in 1 .. Len(q) : q[i] = y
  BY ListFacts
<1>4. /\ DOMAIN r = 1 .. Len(q) - 1
      /\ \A i \in 1 .. Len(q) - 1 : r[i] = q[i + 1] /\ r[i] \in Elements(r)
      /\ \A y \in Elements(r) : \E i \in 1 .. Len(q) - 1 : r[i] = y
  BY <1>2, ListFacts
<1>5. \A i \in 1 .. Len(q) - 1 : i + 1 \in 1 .. Len(q) /\ i + 1 # 1
  BY <1>3
<1>6. \A i \in 1 .. Len(q) : i = 1 \/ \E k \in 1 .. Len(q) - 1 : i = k + 1
  <2> SUFFICES ASSUME NEW i \in 1 .. Len(q), i # 1
               PROVE  \E k \in 1 .. Len(q) - 1 : i = k + 1
    OBVIOUS
  <2>1. i - 1 \in 1 .. Len(q) - 1 /\ i = (i - 1) + 1
    BY <1>3
  <2> QED BY <2>1
<1>7. 1 \in 1 .. Len(q)
  BY <1>3
<1>8. Elements(q) = Elements(r) \cup {Head(q)}
  <2>1. Elements(r) \cup {Head(q)} \subseteq Elements(q)
    BY <1>3, <1>4, <1>5, <1>7
  <2>2. Elements(q) \subseteq Elements(r) \cup {Head(q)}
    <3> SUFFICES ASSUME NEW y \in Elements(q), y # Head(q)
                 PROVE  y \in Elements(r)
      OBVIOUS
    <3>1. PICK i \in 1 .. Len(q) : q[i] = y
      BY <1>3
    <3>2. PICK k \in 1 .. Len(q) - 1 : i = k + 1
      BY <1>3, <1>6, <3>1
    <3> QED BY <1>4, <3>1, <3>2
  <2> QED BY <2>1, <2>2
<1>9. ASSUME NEW s, Once(q, s), NEW i \in 1 .. Len(q) - 1, NEW j \in 1 .. Len(q) - 1,
             r[i] = s, r[j] = s
      PROVE  i = j
  <2>1. i + 1 = j + 1
    <3>1. q[i + 1] = s /\ q[j + 1] = s
      BY <1>4, <1>9
    <3>2. i + 1 \in DOMAIN q /\ j + 1 \in DOMAIN q
      BY <1>3, <1>5
    <3> QED BY <1>9, <3>1, <3>2 DEF Once
  <2> QED BY <1>3, <2>1
<1>10. \A s : Once(q, s) => Once(r, s)
  BY <1>4, <1>9 DEF Once
<1>11. Once(q, Head(q)) => Head(q) \notin Elements(r)
  BY <1>3, <1>4, <1>5, <1>7 DEF Once
<1> QED BY <1>1, <1>2, <1>8, <1>10, <1>11

(* A list without its item at i: those behind it move up.                  *)
LEMMA RemoveAtItems ==
    ASSUME NEW S, NEW q \in Seq(S), NEW i \in DOMAIN q
    PROVE  /\ RemoveAt(q, i) \in Seq(S)
           /\ Len(RemoveAt(q, i)) = Len(q) - 1
           /\ \A j \in 1 .. Len(q) - 1 :
                 RemoveAt(q, i)[j] = IF j < i THEN q[j] ELSE q[j + 1]
<1> DEFINE front == SubSeq(q, 1, i - 1)
           back  == SubSeq(q, i + 1, Len(q))
<1>0. Len(q) \in Nat /\ DOMAIN q = 1 .. Len(q) /\ i \in 1 .. Len(q)
  BY LenProperties
<1>1. \A j \in 1 .. Len(q) : q[j] \in S
  BY ElementOfSeq
<1>2. /\ front \in Seq(S) /\ Len(front) = i - 1
      /\ \A j \in 1 .. i - 1 : front[j] = q[j]
  <2>1. /\ front \in Seq(S) /\ Len(front) = IF 1 <= i - 1 THEN i - 1 - 1 + 1 ELSE 0
        /\ \A j \in 1 .. i - 1 - 1 + 1 : front[j] = q[1 + j - 1]
    BY <1>0, <1>1, SubSeqProperties
  <2> HIDE DEF front
  <2> QED BY <1>0, <2>1
<1>3. /\ back \in Seq(S) /\ Len(back) = Len(q) - i
      /\ \A j \in 1 .. Len(q) - i : back[j] = q[i + j]
  <2>1. /\ back \in Seq(S)
        /\ Len(back) = IF i + 1 <= Len(q) THEN Len(q) - (i + 1) + 1 ELSE 0
        /\ \A j \in 1 .. Len(q) - (i + 1) + 1 : back[j] = q[(i + 1) + j - 1]
    BY <1>0, <1>1, SubSeqProperties
  <2> HIDE DEF back
  <2>2. Len(back) = Len(q) - i
    BY <1>0, <2>1
  <2>3. ASSUME NEW j \in 1 .. Len(q) - i
        PROVE  back[j] = q[i + j]
    <3>1. j \in 1 .. Len(q) - (i + 1) + 1 /\ (i + 1) + j - 1 = i + j
      BY <1>0
    <3> QED BY <2>1, <3>1
  <2> QED BY <2>1, <2>2, <2>3
<1> HIDE DEF front, back
<1>4. /\ front \o back \in Seq(S) /\ Len(front \o back) = Len(front) + Len(back)
      /\ \A j \in 1 .. Len(front) + Len(back) :
            (front \o back)[j] = IF j <= Len(front) THEN front[j] ELSE back[j - Len(front)]
  BY <1>2, <1>3, ConcatProperties
<1>5. RemoveAt(q, i) = front \o back
  BY DEF RemoveAt, front, back
<1>6. ASSUME NEW j \in 1 .. Len(q) - 1
      PROVE  (front \o back)[j] = IF j < i THEN q[j] ELSE q[j + 1]
  <2>1. CASE j < i
    BY <1>0, <1>2, <1>3, <1>4, <2>1
  <2>2. CASE ~(j < i)
    <3>1. j \in 1 .. Len(front) + Len(back) /\ ~(j <= Len(front))
      BY <1>0, <1>2, <1>3, <2>2
    <3>2. j - Len(front) \in 1 .. Len(q) - i /\ i + (j - Len(front)) = j + 1
      BY <1>0, <1>2, <2>2
    <3>3. (front \o back)[j] = back[j - Len(front)]
      BY <1>4, <3>1
    <3>4. back[j - Len(front)] = q[i + (j - Len(front))]
      BY <1>3, <3>2
    <3> QED BY <2>2, <3>2, <3>3, <3>4
  <2> QED BY <2>1, <2>2
<1>7. Len(front) + Len(back) = Len(q) - 1
  BY <1>0, <1>2, <1>3
<1> QED BY <1>4, <1>5, <1>6, <1>7

(* remove() takes out one occurrence.                                      *)
LEMMA LeastIndex ==
    ASSUME NEW I \in SUBSET Nat, I # {}
    PROVE  Min(I) \in I
<1> DEFINE R == OpToRel(<, Nat)
<1>1. IsWellFoundedOn(R, Nat)
  BY NatLessThanWellFounded, Zenon
<1>2. \A x, y \in Nat : <<x, y>> \notin R => y <= x
  BY DEF OpToRel
<1> HIDE DEF R
<1>3. PICK m \in I : \A k \in I : <<k, m>> \notin R
  BY <1>1, WFMin, Zenon
<1>4. \E x \in I : \A y \in I : x <= y
  BY <1>2, <1>3
<1> QED BY <1>4, Zenon DEF Min

(* RemoveFirst takes out the item at some index, or finds nothing.         *)
LEMMA RemovedIndex ==
    ASSUME NEW S, NEW q \in Seq(S), NEW e
    PROVE  \/ e \notin Elements(q) /\ RemoveFirst(q, e) = q
           \/ \E k \in 1 .. Len(q) : q[k] = e /\ RemoveFirst(q, e) = RemoveAt(q, k)
<1>1. Len(q) \in Nat /\ DOMAIN q = 1 .. Len(q)
  BY ListFacts
<1>2. CASE \E i \in 1 .. Len(q) : q[i] = e
  <2> DEFINE I == {i \in 1 .. Len(q) : q[i] = e}
             k == Min(I)
  <2>1. I \in SUBSET Nat /\ I # {}
    BY <1>1, <1>2
  <2>2. SelectInSeq(q, LAMBDA v : v = e) = k
    BY <2>1 DEF SelectInSeq
  <2>3. k \in I
    BY <2>1, LeastIndex
  <2>4. RemoveFirst(q, e) = RemoveAt(q, k)
    BY <1>2, <2>2 DEF RemoveFirst
  <2> HIDE DEF k
  <2> QED BY <2>3, <2>4
<1>3. CASE ~ \E i \in 1 .. Len(q) : q[i] = e
  BY <1>1, <1>3 DEF RemoveFirst, Elements
<1> QED BY <1>2, <1>3

(* Hence remove() loses nothing else, and nothing that was there once is   *)
(* there afterwards when it is what it was called for.                     *)
LEMMA RemoveOnce ==
    ASSUME NEW S, NEW q \in Seq(S), NEW e
    PROVE  /\ RemoveFirst(q, e) \in Seq(S)
           /\ Elements(RemoveFirst(q, e)) \subseteq Elements(q)
           /\ Elements(q) \ {e} \subseteq Elements(RemoveFirst(q, e))
           /\ \A s : Once(q, s) => Once(RemoveFirst(q, e), s)
           /\ Once(q, e) => e \notin Elements(RemoveFirst(q, e))
           /\ q # << >> /\ Head(q) # e =>
                 RemoveFirst(q, e) # << >> /\ Head(RemoveFirst(q, e)) = Head(q)
<1>1. PICK r : r = RemoveFirst(q, e)
  OBVIOUS
<1>2. CASE e \notin Elements(q) /\ r = q
  BY <1>1, <1>2
<1>3. ASSUME NEW k \in 1 .. Len(q), q[k] = e, r = RemoveAt(q, k)
      PROVE  /\ r \in Seq(S)
             /\ Elements(r) \subseteq Elements(q)
             /\ Elements(q) \ {e} \subseteq Elements(r)
             /\ \A s : Once(q, s) => Once(r, s)
             /\ Once(q, e) => e \notin Elements(r)
             /\ q # << >> /\ Head(q) # e => r # << >> /\ Head(r) = Head(q)
  <2>1. /\ Len(q) \in Nat /\ DOMAIN q = 1 .. Len(q)
        /\ \A i \in 1 .. Len(q) : q[i] \in Elements(q)
        /\ \A y \in Elements(q) : \E i \in 1 .. Len(q) : q[i] = y
    BY ListFacts
  <2>2. /\ r \in Seq(S) /\ Len(r) = Len(q) - 1
        /\ \A i \in 1 .. Len(q) - 1 : r[i] = IF i < k THEN q[i] ELSE q[i + 1]
    <3>1. k \in DOMAIN q
      BY <2>1
    <3>2. /\ RemoveAt(q, k) \in Seq(S) /\ Len(RemoveAt(q, k)) = Len(q) - 1
          /\ \A i \in 1 .. Len(q) - 1 :
                RemoveAt(q, k)[i] = IF i < k THEN q[i] ELSE q[i + 1]
      BY <3>1, RemoveAtItems
    <3> QED BY <1>3, <3>2
  <2>3. /\ DOMAIN r = 1 .. Len(q) - 1
        /\ \A i \in 1 .. Len(q) - 1 : r[i] \in Elements(r)
        /\ \A y \in Elements(r) : \E i \in 1 .. Len(q) - 1 : r[i] = y
    BY <2>2, ListFacts
  <2> DEFINE place == [i \in 1 .. Len(q) - 1 |-> IF i < k THEN i ELSE i + 1]
  <2>4. place \in [1 .. Len(r) -> 1 .. Len(q)]
    BY <2>1, <2>2
  <2>5. \A i \in 1 .. Len(r) : r[i] = q[place[i]] /\ place[i] # k
    BY <2>1, <2>2
  <2>6. \A i, j \in 1 .. Len(r) : place[i] = place[j] => i = j
    <3>1. \A i \in 1 .. Len(r) : place[i] = IF i < k THEN i ELSE i + 1
      BY <2>2
    <3> HIDE DEF place
    <3>2. Len(r) \in Nat /\ k \in Nat
      BY <2>1, <2>2
    <3> QED BY <3>1, <3>2
  <2>7. Elements(r) \subseteq Elements(q) /\ \A s : Once(q, s) => Once(r, s)
    <3> HIDE DEF place
    <3>1. \A i \in 1 .. Len(r) : r[i] = q[place[i]]
      BY <2>5
    <3>2. r \in Seq(S)
      BY <2>2
    <3> QED BY <2>4, <2>6, <3>1, <3>2, OnceAgain, ZenonT(20)
  <2>8. ASSUME NEW y \in Elements(q), y # e
        PROVE  y \in Elements(r)
    <3>1. PICK i \in 1 .. Len(q) : q[i] = y
      BY <2>1
    <3>2. CASE i < k
      <4>1. i \in 1 .. Len(q) - 1 /\ r[i] = y
        BY <2>1, <2>2, <3>1, <3>2
      <4> QED BY <2>3, <4>1
    <3>3. CASE k < i
      <4>1. i - 1 \in 1 .. Len(q) - 1 /\ ~(i - 1 < k) /\ (i - 1) + 1 = i
        BY <2>1, <3>3
      <4>2. r[i - 1] = y
        BY <2>2, <3>1, <4>1
      <4> QED BY <2>3, <4>1, <4>2
    <3> QED BY <1>3, <2>1, <2>8, <3>1, <3>2, <3>3
  <2>9. ASSUME Once(q, e), e \in Elements(r)
        PROVE  FALSE
    <3>1. PICK i \in 1 .. Len(r) : r[i] = e
      BY <2>2, <2>3, <2>9
    <3>2. q[place[i]] = e /\ place[i] # k /\ place[i] \in 1 .. Len(q)
      <4>1. place[i] \in 1 .. Len(q)
        BY <2>4, <3>1
      <4> HIDE DEF place
      <4> QED BY <2>5, <3>1, <4>1
    <3> HIDE DEF place
    <3> QED BY <1>3, <2>1, <2>9, <3>2 DEF Once
  <2>10. ASSUME q # << >>, Head(q) # e
         PROVE  r # << >> /\ Head(r) = Head(q)
    <3>1. Len(q) >= 1 /\ Head(q) = q[1]
      BY <2>10, ListFacts
    <3>2. 1 < k
      BY <1>3, <2>10, <3>1
    <3>3. 1 \in 1 .. Len(q) - 1 /\ r[1] = q[1]
      BY <2>1, <2>2, <3>2
    <3>4. Len(r) # 0
      BY <2>1, <2>2, <3>3
    <3>5. r # << >>
      BY <2>2, <3>4, ListFacts
    <3>6. Head(r) = r[1]
      BY <2>2, <3>5, ListFacts
    <3> QED BY <3>1, <3>3, <3>5, <3>6
  <2> QED BY <2>2, <2>7, <2>8, <2>9, <2>10
<1>4. r = RemoveFirst(q, e) /\ (\/ e \notin Elements(q) /\ r = q
                               \/ \E k \in 1 .. Len(q) : q[k] = e /\ r = RemoveAt(q, k))
  BY <1>1, RemovedIndex
<1> QED BY <1>1, <1>2, <1>3, <1>4

-----------------------------------------------------------------------------
(* The parts of the inductive invariant.  The types, with the batch finite *)
(* and one sequence at a time in the hands of the admission and of a call. *)
Types ==
    /\ TypeOK /\ IsFiniteSet(batch)
    /\ \A s, u \in chosen : s = u
    /\ \A a \in Admins : \A s, u \in target[a] : s = u

(* What has a place anywhere has been submitted.                           *)
Known ==
    /\ \A s \in Waiting \cup chosen \cup Elements(admitted) \cup batch : status[s] # "new"
    /\ \A t \in Threads : \A s \in Elements(walk[t]) : status[s] # "new"
    /\ \A a \in Admins : \A s \in target[a] : status[s] # "new"

(* An iterator is there while its thread is in the loop of remove().       *)
Iterators ==
    /\ \A t \in Threads : iter[t] = "current" => walk[t] = queue
    /\ \A a \in Admins : iter[a] # "none" <=> at[a] = "remove"
    /\ iter[Loop] # "none" <=> pc = "copied"
    /\ iter[Loop] # "changed"
    /\ pc = "copied" => policy = "memory_fit"

(* What a call of admin_abort has done by the time it is somewhere.        *)
Calls ==
    \A a \in Admins :
        /\ at[a] # "idle" => target[a] # {}
        /\ at[a] = "abort" => Removed(a)
        /\ at[a] = "flagged" => \A s \in target[a] : abort[s]

(* A prefill is of the first of those admitted, and they are through with  *)
(* it when the iteration goes on.                                          *)
Admission ==
    /\ pc = "prefill" => admitted # << >>
    /\ pc \in {"top", "asleep", "woken", "thread"} => admitted = << >>

(* The places of a request, besides the queue, the list of the admitted    *)
(* and the batch.  The first of the admitted may be in its prefill.        *)
InPrefill(s) == pc = "prefill" /\ s = Head(admitted)

(* Taken from the queue by the admission, not allocated yet.               *)
InHand(s) == pc \in InHands /\ s \in chosen

(* Taken from the queue by admin_abort, not aborted yet.                   *)
TakenBy(a, s) == at[a] \in {"clear", "abort"} /\ s \in target[a] /\ s \in Elements(walk[a])

(* No list has it twice, the copies of the walks included.                 *)
OnceEverywhere(s) ==
    /\ Once(queue, s) /\ Once(admitted, s)
    /\ \A t \in Threads : Once(walk[t], s)

(* No two of them at a time.                                               *)
Apart(s) ==
    /\ s \in Waiting => ~ InHand(s) /\ s \notin Elements(admitted)
    /\ InHand(s) => s \notin Elements(admitted)
    /\ s \in batch => s \notin Waiting /\ ~ InHand(s) /\ s \notin Elements(admitted)
    /\ \A a \in Admins : TakenBy(a, s) =>
          /\ s \notin Waiting /\ ~ InHand(s) /\ s \notin Elements(admitted) /\ s \notin batch
          /\ \A b \in Admins : TakenBy(b, s) => a = b

(* And the status it has there.                                            *)
StatusFits(s) ==
    /\ s \in Waiting \/ InHand(s) \/ (\E a \in Admins : TakenBy(a, s)) => status[s] = "waiting"
    /\ s \in Elements(admitted) =>
          status[s] = IF InPrefill(s) THEN "running" ELSE "waiting"
    /\ s \in batch => status[s] = "running"
    /\ status[s] = "waiting" =>
          \/ s \in Waiting \/ InHand(s) \/ s \in Elements(admitted)
          \/ \E a \in Admins : TakenBy(a, s)
    /\ \A a \in Admins : at[a] = "aborted" /\ s \in target[a] => status[s] = "aborted"

(* A sequence is where it should be,                                       *)
InPlace(s) == OnceEverywhere(s) /\ Apart(s) /\ StatusFits(s)

(* and all are but those excepted.                                         *)
Placed == \A s \in Seqs \ crossed : InPlace(s)

(* Where operations may come to cross under fcfs: who replaces the deque   *)
(* has gone past the assignment, and does not come back.                   *)
Past(a) == at[a] \in {"clear", "abort", "flag", "aborted", "flagged"}

(* An assignment that another has overtaken knows of one past it.          *)
Overtaken == \A a \in Admins : iter[a] = "replaced" => \E b \in Admins \ {a} : Past(b)

(* What pop_one will take is what was chosen, until two have gone past, or *)
(* the one that aborts what is being admitted.                             *)
Foreseen ==
    \/ queue # << >> /\ chosen = {Head(queue)}
    \/ \E a \in Admins : Past(a) /\ chosen \subseteq target[a]
    \/ \E a, b \in Admins : a # b /\ Past(a) /\ Past(b)

(* Both, under fcfs.                                                       *)
Crossing == policy = "fcfs" => Overtaken /\ (pc = "chosen" => Foreseen)

(* The inductive invariant.                                                *)
IInv ==
    /\ Types /\ Known /\ Iterators /\ Calls /\ Admission /\ Placed /\ Crossing
    /\ EventTellsTheQueue

-----------------------------------------------------------------------------
(* What the operations on the deque do to the types.                       *)
QueueTypes ==
    /\ queue \in Seq(Seqs) /\ walk \in [Threads -> Seq(Seqs)]
    /\ iter \in [Threads -> {"none", "current", "changed", "replaced"}]

(* append, popleft, appendleft.                                            *)
LEMMA MutateTypes ==
    ASSUME QueueTypes, NEW new \in Seq(Seqs), Mutate(new)
    PROVE  QueueTypes'
<1>1. << >> \in Seq(Seqs)
  OBVIOUS
<1>2. iter' \in [Threads -> {"none", "current", "changed", "replaced"}]
  BY DEF QueueTypes, Mutate
<1>3. walk' \in [Threads -> Seq(Seqs)]
  BY <1>1 DEF QueueTypes, Mutate
<1>4. queue' \in Seq(Seqs)
  BY DEF Mutate
<1> QED BY <1>2, <1>3, <1>4 DEF QueueTypes

(* The assignment of remove().                                             *)
LEMMA ReplaceTypes ==
    ASSUME QueueTypes, NEW t \in Threads, NEW s, Replace(t, s)
    PROVE  /\ queue' \in Seq(Seqs)
           /\ iter' \in [Threads -> {"none", "current", "changed", "replaced"}]
<1>1. walk[t] \in Seq(Seqs)
  BY DEF QueueTypes
<1>2. queue' \in Seq(Seqs)
  BY <1>1, RemoveOnce DEF Replace
<1> QED BY <1>2 DEF QueueTypes, Replace

(* The iterators.                                                          *)
LEMMA IterateTypes ==
    ASSUME QueueTypes, NEW t \in Threads, Iterate(t) \/ Forget(t)
    PROVE  /\ walk' \in [Threads -> Seq(Seqs)]
           /\ iter' \in [Threads -> {"none", "current", "changed", "replaced"}]
<1>1. << >> \in Seq(Seqs)
  OBVIOUS
<1>2. CASE Iterate(t)
  BY <1>2 DEF QueueTypes, Iterate
<1>3. CASE Forget(t)
  BY <1>1, <1>3 DEF QueueTypes, Forget
<1> QED BY <1>2, <1>3

(* The types of the rest.                                                  *)
RestTypes ==
    /\ policy \in {"fcfs", "memory_fit"} /\ event \in BOOLEAN
    /\ status \in [Seqs -> {"new", "waiting", "running"} \cup Over]
    /\ abort \in [Seqs -> BOOLEAN]
    /\ setting \in BOOLEAN /\ spurious \in BOOLEAN
    /\ batch \subseteq Seqs /\ crossed \subseteq Seqs
    /\ pc \in {"top", "asleep", "woken", "drop", "admit", "chosen", "copied", "popped",
               "clear", "allocate", "pushing", "admitted", "prefill", "thread"}
    /\ chosen \subseteq Seqs /\ admitted \in Seq(Seqs)
    /\ (chosen # {}) = (pc \in {"chosen", "copied"} \cup InHands)
    /\ at \in [Admins -> {"idle", "found", "remove", "clear", "abort", "flag",
                          "aborted", "flagged"}]
    /\ target \in [Admins -> SUBSET Seqs]
    /\ \A s, u \in chosen : s = u
    /\ \A a \in Admins : \A s, u \in target[a] : s = u

(* The room.                                                               *)
RoomLeft ==
    /\ IsFiniteSet(batch)
    /\ Cardinality(batch) + Len(admitted) + Cardinality(chosen) <= MaxBatch

(* The parts make up the whole.                                            *)
LEMMA TypesParts == Types <=> QueueTypes /\ RestTypes /\ RoomLeft
BY DEF Types, TypeOK, QueueTypes, RestTypes, RoomLeft

(* Every step keeps the types of the deque and its iterators,              *)
LEMMA QueueTypesNext ==
    ASSUME QueueTypes, RestTypes, [Next]_vars
    PROVE  QueueTypes'
<1>0. Loop \in Threads /\ \A a \in Admins : a \in Threads
  BY DEF Threads
<1>1. ASSUME NEW s \in Seqs, Enqueue(s)
      PROVE  QueueTypes'
  <2>1. Append(queue, s) \in Seq(Seqs)
    BY DEF QueueTypes
  <2> QED BY <1>1, <2>1, MutateTypes DEF Enqueue
<1>2. CASE Pop
  <2>1. queue # << >> => Tail(queue) \in Seq(Seqs)
    BY HeadTailProperties DEF QueueTypes
  <2> QED BY <1>2, <2>1, MutateTypes DEF Pop, qvars, iters, QueueTypes
<1>3. CASE RemoveWalk
  BY <1>0, <1>3, IterateTypes DEF RemoveWalk, qvars, QueueTypes
<1>4. CASE RemoveChosen
  <2>1. PICK s \in chosen : Replace(Loop, s)
    BY <1>4 DEF RemoveChosen
  <2>2. << >> \in Seq(Seqs)
    OBVIOUS
  <2>3. walk' \in [Threads -> Seq(Seqs)]
    BY <1>4, <2>2 DEF RemoveChosen, QueueTypes
  <2> QED BY <1>0, <2>1, <2>3, ReplaceTypes DEF QueueTypes
<1>5. CASE Refuse
  <2>1. PICK s \in chosen : Mutate(Cons(s, queue))
    BY <1>5 DEF Refuse
  <2>2. Cons(s, queue) \in Seq(Seqs)
    BY <2>1, ConsOnce DEF QueueTypes, RestTypes
  <2> QED BY <2>1, <2>2, MutateTypes
<1>6. ASSUME NEW a \in Admins, BeginRemove(a)
      PROVE  QueueTypes'
  BY <1>0, <1>6, IterateTypes DEF BeginRemove, qvars, QueueTypes
<1>7. ASSUME NEW a \in Admins, Raise(a) \/ AbortWaiting(a) \/ FlagRunning(a)
      PROVE  QueueTypes'
  BY <1>0, <1>7, IterateTypes DEF Raise, AbortWaiting, FlagRunning, qvars, QueueTypes
<1>8. ASSUME NEW a \in Admins, RemoveWaiting(a)
      PROVE  QueueTypes'
  <2>1. PICK s \in target[a] : Replace(a, s)
    BY <1>8 DEF RemoveWaiting
  <2>2. UNCHANGED walk
    BY <1>8 DEF RemoveWaiting
  <2> QED BY <1>0, <2>1, <2>2, ReplaceTypes DEF QueueTypes
<1>9. CASE UNCHANGED <<queue, iters>>
  BY <1>9 DEF QueueTypes, iters
<1>10. CASE \/ SetEvent \/ Top \/ Woken \/ DropAborted \/ Choose \/ AfterPop \/ ClearEvent
            \/ PushEvent \/ Allocate \/ AdmitDone \/ Skip \/ Prefill \/ Prefilled \/ Decode \/ Step
  BY <1>9, <1>10 DEF SetEvent, Top, Woken, DropAborted, Choose, AfterPop, ClearEvent, PushEvent,
                     Allocate, AdmitDone, Skip, Prefill, Prefilled, Decode, Step, qvars
<1>11. ASSUME NEW a \in Admins, (\E s \in Seqs : Find(a, s)) \/ Clear(a)
       PROVE  QueueTypes'
  BY <1>9, <1>11 DEF Find, Clear, qvars
<1>12. CASE UNCHANGED vars
  BY <1>9, <1>12 DEF vars, qvars
<1> QED BY <1>1, <1>2, <1>3, <1>4, <1>5, <1>6, <1>7, <1>8, <1>10, <1>11, <1>12
        DEF Next, EventLoop, AdminThread

(* those of the rest,                                                      *)
LEMMA RestTypesNext ==
    ASSUME QueueTypes, RestTypes, Admission, [Next]_vars
    PROVE  RestTypes'
<1> USE DEF RestTypes, Over, InHands
<1>1. ASSUME NEW s \in Seqs, Enqueue(s)
      PROVE  RestTypes'
  BY <1>1 DEF Enqueue, run, admin, history
<1>2. CASE SetEvent
  <2>1. spurious' \in BOOLEAN
    BY <1>2, Zenon DEF SetEvent
  <2>2. /\ event' = TRUE /\ setting' = FALSE /\ WakeRun
        /\ UNCHANGED <<policy, reqs, batch, chosen, admitted, admin, crossed>>
    BY <1>2 DEF SetEvent
  <2>3. /\ UNCHANGED <<policy, status, abort, batch, crossed, chosen, admitted, at, target>>
    BY <2>2 DEF reqs, admin
  <2>4. /\ pc' \in {"top", "asleep", "woken", "drop", "admit", "chosen", "copied", "popped",
                   "clear", "allocate", "pushing", "admitted", "prefill", "thread"}
        /\ (pc' \in {"chosen", "copied"} \cup InHands) = (pc \in {"chosen", "copied"} \cup InHands)
    BY <2>2 DEF WakeRun
  <2> QED BY <2>1, <2>2, <2>3, <2>4
<1>3. CASE Top
  BY <1>3 DEF Top, qvars, reqs, admin, history
<1>4. CASE Woken
  BY <1>4 DEF Woken, qvars, reqs, admin, history
<1>5. CASE Choose
  <2>1. PICK i \in DOMAIN queue : chosen' = {queue[i]}
    BY <1>5 DEF Choose
  <2>2. queue[i] \in Seqs
    BY ListFacts DEF QueueTypes
  <2> QED BY <1>5, <2>1, <2>2 DEF Choose, qvars, reqs, admin, history
<1>6. CASE Pop
  <2>1. Popped \subseteq Seqs
    BY HeadTailProperties DEF QueueTypes, Popped
  <2>2. crossed' \subseteq Seqs
    BY <1>6, <2>1 DEF Pop
  <2> QED BY <1>6, <2>2 DEF Pop, reqs, admin
<1>7. CASE RemoveWalk
  BY <1>7 DEF RemoveWalk, qvars, reqs, admin, history
<1>8. CASE RemoveChosen
  <2>1. Undone(Loop) \subseteq Seqs /\ chosen \ Waiting \subseteq Seqs
    <3>1. Loop \in Threads
      BY DEF Threads
    <3>2. Elements(walk[Loop]) \subseteq Seqs /\ Elements(queue) \subseteq Seqs
      BY <3>1, ListFacts DEF QueueTypes
    <3> QED BY <3>2 DEF Undone, Waiting, Elements
  <2>2. crossed' \subseteq Seqs
    BY <1>8, <2>1 DEF RemoveChosen
  <2> QED BY <1>8, <2>2 DEF RemoveChosen, reqs, admin
<1>9. CASE Refuse
  BY <1>9 DEF Refuse, reqs, admin, history
<1>10. CASE Allocate
  <2>1. PICK s \in chosen : admitted' = Append(admitted, s)
    BY <1>10 DEF Allocate
  <2>2. admitted' \in Seq(Seqs)
    BY <2>1, AppendOnce
  <2> QED BY <1>10, <2>2 DEF Allocate, qvars, reqs, admin, history
<1>11. CASE AdmitDone
  BY <1>11 DEF AdmitDone, qvars, reqs, admin, history
<1>12. CASE Skip
  <2>1. admitted' \in Seq(Seqs)
    BY <1>12, HeadTailProperties DEF Skip
  <2> QED BY <1>12, <2>1 DEF Skip, qvars, admin, history
<1>13. CASE Prefill
  BY <1>13 DEF Prefill, qvars, admin, history
<1>14. CASE Prefilled
  <2>1. Head(admitted) \in Seqs /\ admitted' \in Seq(Seqs)
    BY <1>14, HeadTailProperties DEF Prefilled, Admission
  <2>2. /\ status' \in [Seqs -> {"new", "waiting", "running"} \cup Over]
        /\ batch' \subseteq Seqs
    BY <1>14, <2>1 DEF Prefilled
  <2> QED BY <1>14, <2>1, <2>2 DEF Prefilled, qvars, admin, history
<1>15. CASE Decode
  BY <1>15 DEF Decode, qvars, reqs, admin, history
<1>16. CASE Step
  <2>1. /\ status' \in [Seqs -> {"new", "waiting", "running"} \cup Over]
        /\ batch' \subseteq Seqs
    BY <1>16 DEF Step
  <2> QED BY <1>16, <2>1 DEF Step, qvars, admin, history
<1>17. ASSUME NEW a \in Admins, NEW s \in Seqs, Find(a, s)
       PROVE  RestTypes'
  BY <1>17 DEF Find, Goto, qvars, reqs, run, history
<1>18. ASSUME NEW a \in Admins, BeginRemove(a)
       PROVE  RestTypes'
  BY <1>18 DEF BeginRemove, Goto, qvars, reqs, run, history
<1>19. ASSUME NEW a \in Admins, Raise(a)
       PROVE  RestTypes'
  BY <1>19 DEF Raise, Goto, qvars, reqs, run, history
<1>20. ASSUME NEW a \in Admins, RemoveWaiting(a)
       PROVE  RestTypes'
  <2>1. Undone(a) \subseteq Seqs
    <3>1. a \in Threads
      BY DEF Threads
    <3>2. Elements(walk[a]) \subseteq Seqs /\ Elements(queue) \subseteq Seqs
      BY <3>1, ListFacts DEF QueueTypes
    <3> QED BY <3>2 DEF Undone, Waiting, Elements
  <2>2. crossed' \subseteq Seqs
    BY <1>20, <2>1 DEF RemoveWaiting
  <2> QED BY <1>20, <2>2 DEF RemoveWaiting, Goto, reqs, run
<1>21. ASSUME NEW a \in Admins, Clear(a)
       PROVE  RestTypes'
  BY <1>21 DEF Clear, Goto, reqs, run, history
<1>22. ASSUME NEW a \in Admins, AbortWaiting(a)
       PROVE  RestTypes'
  BY <1>22 DEF AbortWaiting, Goto, qvars, run, history
<1>23. ASSUME NEW a \in Admins, FlagRunning(a)
       PROVE  RestTypes'
  BY <1>23 DEF FlagRunning, Goto, qvars, run, history
<1>24. CASE DropAborted
  <2>1. /\ status' \in [Seqs -> {"new", "waiting", "running"} \cup Over]
        /\ batch' \subseteq Seqs
    BY <1>24 DEF DropAborted
  <2> QED BY <1>24, <2>1 DEF DropAborted, qvars, admin, history
<1>25. CASE AfterPop
  BY <1>25 DEF AfterPop, qvars, reqs, admin, history
<1>26. CASE ClearEvent
  BY <1>26 DEF ClearEvent, reqs, admin, history
<1>27. CASE PushEvent
  <2>1. spurious' \in BOOLEAN
    BY <1>27, Zenon DEF PushEvent
  <2>2. /\ event' = TRUE /\ pc = "pushing" /\ pc' = "admitted"
        /\ UNCHANGED <<policy, status, abort, setting, batch, crossed, chosen, admitted, at, target>>
    BY <1>27 DEF PushEvent, reqs, admin
  <2> QED BY <2>1, <2>2
<1>28. CASE UNCHANGED vars
  BY <1>28 DEF vars, qvars, reqs, run, admin, history
<1> QED BY <1>1, <1>2, <1>3, <1>4, <1>5, <1>6, <1>7, <1>8, <1>9, <1>10, <1>11, <1>12, <1>13,
           <1>14, <1>15, <1>16, <1>17, <1>18, <1>19, <1>20, <1>21, <1>22, <1>23, <1>24,
           <1>25, <1>26, <1>27, <1>28
        DEF Next, EventLoop, AdminThread

(* A sequence moves from the queue over the hands of the admission and the *)
(* list of the admitted to the batch: nowhere does the sum grow but where  *)
(* Room was looked at.                                                     *)
LEMMA OneInHand ==
    ASSUME NEW s
    PROVE  /\ IsFiniteSet({s}) /\ Cardinality({s}) = 1
           /\ IsFiniteSet({}) /\ Cardinality({}) = 0
BY FS_Singleton, FS_EmptySet

(* and the room: what is chosen, admitted and in the batch fits.           *)
LEMMA RoomNext ==
    ASSUME QueueTypes, RestTypes, RoomLeft, Admission, [Next]_vars
    PROVE  RoomLeft'
<1>0. /\ Cardinality(batch) \in Nat /\ Len(admitted) \in Nat /\ Len(<< >>) = 0
      /\ MaxBatch \in Nat /\ Cardinality({}) = 0
      /\ chosen # {} => \E s \in Seqs : chosen = {s}
  BY FS_CardinalityType, FS_EmptySet, LenProperties, BatchAssumption DEF RoomLeft, RestTypes
<1>13. Cardinality(chosen) \in Nat /\ (chosen # {} => Cardinality(chosen) = 1)
  <2>1. CASE chosen = {}
    BY <1>0, <2>1
  <2>2. ASSUME NEW s \in Seqs, chosen = {s}
        PROVE  Cardinality(chosen) = 1
    BY <2>2, OneInHand
  <2> QED BY <1>0, <2>1, <2>2
<1>1. CASE Top
  <2>1. admitted' = << >> /\ UNCHANGED <<batch, chosen>>
    BY <1>1 DEF Top
  <2> QED BY <1>0, <1>13, <2>1 DEF RoomLeft
<1>2. CASE Choose
  <2>1. PICK i \in DOMAIN queue : chosen' = {queue[i]}
    BY <1>2 DEF Choose
  <2>2. Cardinality(chosen') = 1
    BY <2>1, OneInHand
  <2>3. chosen = {} /\ Room > 0 /\ UNCHANGED <<batch, admitted>>
    BY <1>2 DEF Choose, RestTypes, InHands
  <2> QED BY <1>0, <2>2, <2>3 DEF RoomLeft, Room
<1>3. CASE Refuse
  <2>1. chosen' = {} /\ UNCHANGED <<batch, admitted>>
    BY <1>3 DEF Refuse
  <2> QED BY <1>0, <1>13, <2>1 DEF RoomLeft
<1>4. CASE Allocate
  <2>1. PICK s \in chosen : admitted' = Append(admitted, s)
    BY <1>4 DEF Allocate
  <2>2. Len(admitted') = Len(admitted) + 1
    BY <2>1, AppendOnce DEF RestTypes
  <2>3. chosen' = {} /\ Cardinality(chosen) = 1 /\ UNCHANGED batch
    BY <1>4, <1>13, <2>1 DEF Allocate
  <2> QED BY <1>0, <2>2, <2>3 DEF RoomLeft
<1>5. CASE Skip
  <2>1. Len(admitted') = Len(admitted) - 1 /\ UNCHANGED <<batch, chosen>>
    BY <1>5, HeadTailProperties DEF Skip, RestTypes
  <2> QED BY <1>0, <1>13, <2>1 DEF RoomLeft
<1>6. CASE Prefilled
  <2>1. Len(admitted') = Len(admitted) - 1 /\ UNCHANGED chosen
    BY <1>6, HeadTailProperties DEF Prefilled, Admission, RestTypes
  <2>2. batch' = batch \/ batch' = batch \cup {Head(admitted)}
    BY <1>6 DEF Prefilled
  <2>3. /\ IsFiniteSet(batch \cup {Head(admitted)})
        /\ \/ Cardinality(batch \cup {Head(admitted)}) = Cardinality(batch)
           \/ Cardinality(batch \cup {Head(admitted)}) = Cardinality(batch) + 1
    BY FS_AddElement DEF RoomLeft
  <2>4. IsFiniteSet(batch') /\ Cardinality(batch') <= Cardinality(batch) + 1
        /\ Cardinality(batch') \in Nat
    <3>1. CASE batch' = batch
      BY <1>0, <3>1 DEF RoomLeft
    <3>2. CASE batch' = batch \cup {Head(admitted)}
      BY <1>0, <2>3, <3>2
    <3> QED BY <2>2, <3>1, <3>2
  <2> QED BY <1>0, <1>13, <2>1, <2>4 DEF RoomLeft
<1>7. CASE Step \/ DropAborted
  <2>1. batch' \subseteq batch /\ UNCHANGED <<chosen, admitted>>
    BY <1>7 DEF Step, DropAborted
  <2>2. IsFiniteSet(batch') /\ Cardinality(batch') <= Cardinality(batch)
    BY <2>1, FS_Subset DEF RoomLeft
  <2>3. Cardinality(batch') \in Nat
    BY <2>2, FS_CardinalityType
  <2> QED BY <1>0, <1>13, <2>1, <2>2, <2>3 DEF RoomLeft
<1>8. CASE UNCHANGED <<batch, admitted, chosen>>
  BY <1>8 DEF RoomLeft
<1>9. CASE \/ SetEvent \/ Woken \/ Pop \/ AfterPop \/ RemoveWalk \/ RemoveChosen \/ ClearEvent
           \/ PushEvent \/ AdmitDone \/ Prefill \/ Decode
  BY <1>8, <1>9 DEF SetEvent, Woken, Pop, AfterPop, RemoveWalk, RemoveChosen, ClearEvent, PushEvent,
                    AdmitDone, Prefill, Decode
<1>10. ASSUME NEW s \in Seqs, Enqueue(s)
       PROVE  RoomLeft'
  BY <1>8, <1>10 DEF Enqueue, run
<1>11. ASSUME NEW a \in Admins, AdminThread(a)
       PROVE  RoomLeft'
  BY <1>8, <1>11 DEF AdminThread, Find, BeginRemove, Raise, RemoveWaiting, Clear, AbortWaiting,
                     FlagRunning, run
<1>12. CASE UNCHANGED vars
  BY <1>8, <1>12 DEF vars, run
<1> QED BY <1>1, <1>2, <1>3, <1>4, <1>5, <1>6, <1>7, <1>9, <1>10, <1>11, <1>12
        DEF Next, EventLoop

(* Hence the types are kept.                                               *)
LEMMA TypesNext == Types /\ Admission /\ [Next]_vars => Types'
BY QueueTypesNext, RestTypesNext, RoomNext, TypesParts DEF QueueTypes, RestTypes, RoomLeft,
   Types, TypeOK

(* Only the thread's part of an iteration goes back to the top.            *)
LEMMA AdmissionNext == Types /\ Admission /\ [Next]_vars => Admission'
<1> SUFFICES ASSUME Types, Admission, [Next]_vars PROVE Admission'
  OBVIOUS
<1> USE DEF Admission
<1>1. CASE Prefill
  BY <1>1 DEF Prefill
<1>2. CASE UNCHANGED <<pc, admitted>>
  BY <1>2
<1>3. CASE UNCHANGED run
  BY <1>3 DEF run
<1>4. CASE Skip
  BY <1>4 DEF Skip
<1>5. CASE SetEvent
  BY <1>5 DEF SetEvent, WakeRun
<1>6. CASE Top \/ Decode
  BY <1>6 DEF Top, Decode
<1>7. CASE Step
  BY <1>7 DEF Step
<1>8. CASE \/ Woken \/ DropAborted \/ Choose \/ Pop \/ AfterPop \/ RemoveWalk \/ RemoveChosen
           \/ ClearEvent \/ Refuse \/ PushEvent \/ Allocate \/ AdmitDone \/ Prefilled
  <2>1. pc' \in {"drop", "admit", "chosen", "copied", "popped", "clear", "allocate", "pushing",
                 "admitted"}
    BY <1>8 DEF Woken, DropAborted, Choose, Pop, AfterPop, RemoveWalk, RemoveChosen, ClearEvent,
                Refuse, PushEvent, Allocate, AdmitDone, Prefilled
  <2> QED BY <2>1
<1>9. ASSUME NEW s \in Seqs, Enqueue(s)
      PROVE  Admission'
  BY <1>3, <1>9 DEF Enqueue
<1>10. ASSUME NEW a \in Admins, AdminThread(a)
       PROVE  Admission'
  BY <1>3, <1>10 DEF AdminThread, Find, BeginRemove, Raise, RemoveWaiting, Clear, AbortWaiting,
                     FlagRunning
<1>11. CASE UNCHANGED vars
  BY <1>3, <1>11 DEF vars
<1> QED BY <1>1, <1>4, <1>5, <1>6, <1>7, <1>8, <1>9, <1>10, <1>11 DEF Next, EventLoop

-----------------------------------------------------------------------------
(* No step makes a request new again.                                      *)
LEMMA NotNewAgain ==
    ASSUME Types, [Next]_vars, NEW s \in Seqs, status[s] # "new"
    PROVE  status'[s] # "new"
<1> USE DEF Types, TypeOK, Over
<1>1. CASE UNCHANGED status
  BY <1>1
<1>2. ASSUME NEW u \in Seqs, Enqueue(u)
      PROVE  status'[s] # "new"
  BY <1>2 DEF Enqueue
<1>3. CASE Skip
  BY <1>3 DEF Skip
<1>4. CASE Prefill
  BY <1>4 DEF Prefill
<1>5. CASE Prefilled
  BY <1>5 DEF Prefilled
<1>6. CASE Step \/ DropAborted
  BY <1>6 DEF Step, DropAborted
<1>7. CASE \/ SetEvent \/ Top \/ Woken \/ Choose \/ Pop \/ AfterPop \/ RemoveWalk \/ RemoveChosen
           \/ ClearEvent \/ Refuse \/ PushEvent \/ Allocate \/ AdmitDone \/ Decode
  BY <1>1, <1>7 DEF SetEvent, Top, Woken, Choose, Pop, AfterPop, RemoveWalk, RemoveChosen, ClearEvent,
                    Refuse, PushEvent, Allocate, AdmitDone, Decode, reqs
<1>8. ASSUME NEW a \in Admins, AbortWaiting(a)
      PROVE  status'[s] # "new"
  BY <1>8 DEF AbortWaiting
<1>9. ASSUME NEW a \in Admins, \/ \E u \in Seqs : Find(a, u)
                               \/ BeginRemove(a) \/ Raise(a) \/ RemoveWaiting(a)
                               \/ Clear(a) \/ FlagRunning(a)
      PROVE  status'[s] # "new"
  BY <1>1, <1>9 DEF Find, BeginRemove, Raise, RemoveWaiting, Clear, FlagRunning, reqs
<1>10. CASE UNCHANGED vars
  BY <1>1, <1>10 DEF vars, reqs
<1> QED BY <1>2, <1>3, <1>4, <1>5, <1>6, <1>7, <1>8, <1>9, <1>10 DEF Next, EventLoop, AdminThread

(* The sets the steps of the deque make.                                   *)
LEMMA Places ==
    ASSUME Types
    PROVE  /\ queue \in Seq(Seqs) /\ Waiting = Elements(queue) /\ Waiting \subseteq Seqs
           /\ admitted \in Seq(Seqs) /\ Elements(admitted) \subseteq Seqs
           /\ \A t \in Threads : walk[t] \in Seq(Seqs) /\ Elements(walk[t]) \subseteq Seqs
           /\ batch \subseteq Seqs /\ chosen \subseteq Seqs
           /\ \A a \in Admins : a \in Threads /\ a # Loop /\ target[a] \subseteq Seqs
           /\ Loop \in Threads
           /\ queue = << >> <=> Waiting = {}
<1>1. Waiting = Elements(queue)
  BY DEF Waiting, Elements
<1>2. \A t \in Threads : walk[t] \in Seq(Seqs)
  BY DEF Types, TypeOK
<1>3. /\ queue \in Seq(Seqs) /\ admitted \in Seq(Seqs) /\ batch \subseteq Seqs /\ chosen \subseteq Seqs
      /\ \A a \in Admins : target[a] \subseteq Seqs
  BY DEF Types, TypeOK
<1>4. Elements(<< >>) = {}
  BY DEF Elements
<1>5. /\ Elements(queue) \subseteq Seqs /\ Elements(admitted) \subseteq Seqs
      /\ \A t \in Threads : Elements(walk[t]) \subseteq Seqs
      /\ queue = << >> <=> Elements(queue) = {}
  BY <1>2, <1>3, ListFacts
<1>6. Loop \in Threads /\ \A a \in Admins : a \in Threads /\ a # Loop
  BY LoopAssumption DEF Threads
<1> QED BY <1>1, <1>2, <1>3, <1>5, <1>6

(* The empty list.                                                         *)
LEMMA EmptyList == Elements(<< >>) = {} /\ \A s : Once(<< >>, s)
BY DEF Elements, Once

(* appendleft, to the queue.                                               *)
LEMMA PushFront ==
    ASSUME Types, NEW c \in Seqs
    PROVE  /\ Cons(c, queue) # << >> /\ Elements(Cons(c, queue)) = Waiting \cup {c}
           /\ \A s : Once(queue, s) /\ (s = c => s \notin Waiting) => Once(Cons(c, queue), s)
<1>1. ASSUME NEW q \in Seq(Seqs)
      PROVE  Cons(c, q) # << >> /\ Elements(Cons(c, q)) = Elements(q) \cup {c}
  BY ConsOnce
<1>2. ASSUME NEW q \in Seq(Seqs), NEW s, Once(q, s), s = c => s \notin Elements(q)
      PROVE  Once(Cons(c, q), s)
  BY <1>2, ConsOnce
<1>3. queue \in Seq(Seqs) /\ Waiting = Elements(queue)
  BY Places
<1> QED BY <1>1, <1>2, <1>3

(* append, popleft, appendleft: the walks of those who will raise are      *)
(* forgotten.                                                              *)
LEMMA MutateFacts ==
    ASSUME Types, NEW new, Mutate(new), NEW t \in Threads
    PROVE  /\ queue' = new /\ Waiting' = Elements(new)
           /\ Elements(walk'[t]) \subseteq Elements(walk[t])
           /\ \A s : Once(walk[t], s) => Once(walk'[t], s)
           /\ iter'[t] # "current" /\ (iter'[t] = "changed" <=> iter[t] \in {"current", "changed"})
           /\ iter'[t] = "none" <=> iter[t] = "none"
           /\ iter'[t] = "replaced" <=> iter[t] = "replaced"
           /\ iter[t] \in {"none", "replaced"} => walk'[t] = walk[t]
<1>1. queue' = new /\ Waiting' = Elements(new)
  BY DEF Mutate, Waiting, Elements
<1>2. /\ iter[t] \in {"none", "current", "changed", "replaced"}
      /\ iter'[t] = IF iter[t] = "current" THEN "changed" ELSE iter[t]
      /\ walk'[t] = IF iter'[t] = "changed" THEN << >> ELSE walk[t]
  BY DEF Mutate, Types, TypeOK
<1> QED BY <1>1, <1>2, EmptyList

(* remove() assigns what it has kept.                                      *)
LEMMA ReplaceFacts ==
    ASSUME Types, NEW t \in Threads, NEW s, Replace(t, s)
    PROVE  /\ queue' = RemoveFirst(walk[t], s)
           /\ Waiting' \subseteq Elements(walk[t])
           /\ Elements(walk[t]) \ {s} \subseteq Waiting'
           /\ \A u : Once(walk[t], u) => Once(queue', u)
           /\ Once(walk[t], s) => s \notin Waiting'
           /\ iter'[t] = "none"
           /\ \A u \in Threads \ {t} :
                 /\ iter'[u] # "current" /\ (iter'[u] = "none" <=> iter[u] = "none")
                 /\ (iter'[u] = "changed" <=> iter[u] = "changed")
                 /\ (iter'[u] = "replaced" <=> iter[u] \in {"current", "replaced"})
<1>1. queue' = RemoveFirst(walk[t], s)
  BY DEF Replace
<1>2. Waiting' = Elements(queue')
  BY DEF Waiting, Elements
<1>3. walk[t] \in Seq(Seqs)
  BY Places
<1>4. /\ Elements(queue') \subseteq Elements(walk[t])
      /\ Elements(walk[t]) \ {s} \subseteq Elements(queue')
      /\ \A u : Once(walk[t], u) => Once(queue', u)
      /\ Once(walk[t], s) => s \notin Elements(queue')
  BY <1>1, <1>3, RemoveOnce
<1>5. /\ \A u \in Threads : iter[u] \in {"none", "current", "changed", "replaced"}
      /\ \A u \in Threads : iter'[u] = IF u = t THEN "none"
                                       ELSE IF iter[u] = "current" THEN "replaced" ELSE iter[u]
  BY DEF Replace, Types, TypeOK
<1> QED BY <1>1, <1>2, <1>4, <1>5

-----------------------------------------------------------------------------
(* Whoever comes to a place has been in one before, or is submitted now.   *)
LEMMA KnownNext ==
    ASSUME Types, Known, Admission, [Next]_vars
    PROVE  Known'
<1> DEFINE Submitted == {s \in Seqs : status[s] # "new"}
<1>1. /\ Waiting \cup chosen \cup Elements(admitted) \cup batch \subseteq Submitted
      /\ \A t \in Threads : Elements(walk[t]) \subseteq Submitted
      /\ \A a \in Admins : target[a] \subseteq Submitted
  BY Places DEF Known
<1>2. Submitted \subseteq {s \in Seqs : status'[s] # "new"}
  BY NotNewAgain
<1>3. ASSUME /\ Waiting' \cup chosen' \cup Elements(admitted') \cup batch' \subseteq Submitted'
             /\ \A t \in Threads : Elements(walk'[t]) \subseteq Submitted'
             /\ \A a \in Admins : target'[a] \subseteq Submitted'
      PROVE  Known'
  <2>1. Elements(admitted)' = Elements(admitted')
    BY DEF Elements
  <2>2. \A t \in Threads : Elements(walk[t])' = Elements(walk'[t])
    BY DEF Elements
  <2> QED BY <1>3, <2>1, <2>2 DEF Known
<1>4. Submitted \subseteq Submitted'
  BY <1>2
<1> HIDE DEF Submitted
<1>5. CASE UNCHANGED <<queue, chosen, admitted, batch, walk, target>>
  <2>1. Waiting' = Waiting
    BY <1>5 DEF Waiting
  <2> QED BY <1>1, <1>3, <1>4, <1>5, <2>1
<1>6. ASSUME NEW s \in Seqs, Enqueue(s)
      PROVE  Known'
  <2>1. s \in Submitted'
    BY <1>6 DEF Enqueue, Submitted, Types, TypeOK
  <2>2. Waiting' = Waiting \cup {s}
    BY <1>6, Places, AppendOnce, MutateFacts DEF Enqueue
  <2>3. \A t \in Threads : Elements(walk'[t]) \subseteq Elements(walk[t])
    BY <1>6, MutateFacts DEF Enqueue
  <2> QED BY <1>1, <1>3, <1>4, <1>6, <2>1, <2>2, <2>3 DEF Enqueue, run, admin
<1>7. CASE \/ SetEvent \/ Woken \/ AfterPop \/ ClearEvent \/ PushEvent \/ AdmitDone \/ Prefill
           \/ Decode
  BY <1>3, <1>5, <1>7 DEF SetEvent, Woken, AfterPop, ClearEvent, PushEvent, AdmitDone, Prefill,
                          Decode, qvars, iters, admin
<1>8. CASE Top
  <2>1. Waiting' = Waiting /\ Elements(admitted') = {}
    BY <1>8, EmptyList DEF Top, qvars, Waiting
  <2> QED BY <1>1, <1>3, <1>4, <1>8, <2>1 DEF Top, iters, admin
<1>9. CASE Choose
  <2>1. Waiting' = Waiting /\ chosen' \subseteq Waiting
    BY <1>9 DEF Choose, qvars, Waiting
  <2> QED BY <1>1, <1>3, <1>4, <1>9, <2>1 DEF Choose, iters, admin
<1>10. CASE Pop
  <2>1. Waiting' \subseteq Waiting /\ \A t \in Threads : Elements(walk'[t]) \subseteq Elements(walk[t])
    <3>1. CASE queue = << >>
      BY <1>10, <3>1 DEF Pop, qvars, iters, Waiting
    <3>2. CASE queue # << >>
      <4>1. Mutate(Tail(queue))
        BY <1>10, <3>2 DEF Pop
      <4>2. Elements(Tail(queue)) \subseteq Waiting
        BY <3>2, Places, TailOnce
      <4> QED BY <4>1, <4>2, MutateFacts, Places
    <3> QED BY <3>1, <3>2
  <2> QED BY <1>1, <1>3, <1>4, <1>10, <2>1 DEF Pop, admin
<1>11. CASE RemoveWalk
  <2>1. \A t \in Threads : walk'[t] \in {walk[t], queue}
    BY <1>11 DEF RemoveWalk, Iterate, Types, TypeOK
  <2>2. Waiting' = Waiting /\ Waiting = Elements(queue)
    BY <1>11, Places DEF RemoveWalk, qvars, Waiting
  <2> QED BY <1>1, <1>3, <1>4, <1>11, <2>1, <2>2 DEF RemoveWalk, admin
<1>12. CASE RemoveChosen
  <2>1. PICK s \in chosen : Replace(Loop, s)
    BY <1>12 DEF RemoveChosen
  <2>2. Waiting' \subseteq Elements(walk[Loop])
    BY <2>1, Places, ReplaceFacts
  <2>3. \A t \in Threads : Elements(walk'[t]) \subseteq Elements(walk[t])
    BY <1>12, EmptyList DEF RemoveChosen, Types, TypeOK
  <2> QED BY <1>1, <1>3, <1>4, <1>12, <2>2, <2>3, Places DEF RemoveChosen, admin
<1>13. CASE Refuse
  <2>1. PICK s \in Seqs : Mutate(Cons(s, queue)) /\ s \in chosen
    BY <1>13, Places DEF Refuse
  <2>2. /\ Waiting' = Waiting \cup {s}
        /\ \A t \in Threads : Elements(walk'[t]) \subseteq Elements(walk[t])
    <3>1. Loop \in Threads
      BY Places
    <3>2. Elements(Cons(s, queue)) = Waiting \cup {s}
      BY PushFront
    <3> QED BY <2>1, <3>1, <3>2, MutateFacts
  <2> QED BY <1>1, <1>3, <1>4, <1>13, <2>1, <2>2 DEF Refuse, admin
<1>14. CASE Allocate
  <2>1. PICK s \in chosen : admitted' = Append(admitted, s)
    BY <1>14 DEF Allocate
  <2>2. Elements(admitted') = Elements(admitted) \cup {s} /\ Waiting' = Waiting
    BY <1>14, <2>1, Places, AppendOnce DEF Allocate, qvars, Waiting
  <2> QED BY <1>1, <1>3, <1>4, <1>14, <2>1, <2>2 DEF Allocate, iters, admin
<1>15. CASE Skip
  <2>1. Elements(admitted') \subseteq Elements(admitted) /\ Waiting' = Waiting
    BY <1>15, Places, TailOnce DEF Skip, qvars, Waiting
  <2> QED BY <1>1, <1>3, <1>4, <1>15, <2>1 DEF Skip, iters, admin
<1>16. CASE Prefilled
  <2>1. /\ Elements(admitted') \subseteq Elements(admitted) /\ Waiting' = Waiting
        /\ Head(admitted) \in Elements(admitted)
    BY <1>16, Places, TailOnce DEF Prefilled, Admission, qvars, Waiting
  <2>2. batch' \subseteq batch \cup {Head(admitted)}
    BY <1>16 DEF Prefilled
  <2> QED BY <1>1, <1>3, <1>4, <1>16, <2>1, <2>2 DEF Prefilled, iters, admin
<1>17. CASE Step \/ DropAborted
  <2>1. batch' \subseteq batch /\ Waiting' = Waiting
    BY <1>17 DEF Step, DropAborted, qvars, Waiting
  <2> QED BY <1>1, <1>3, <1>4, <1>17, <2>1 DEF Step, DropAborted, iters, admin
<1>18. ASSUME NEW a \in Admins, NEW s \in Seqs, Find(a, s)
       PROVE  Known'
  <2>1. Waiting' = Waiting /\ \A b \in Admins : target'[b] \in {target[b], {s}}
    BY <1>18 DEF Find, qvars, Waiting, Types, TypeOK
  <2>2. s \in Submitted
    BY <1>1, <1>18 DEF Find
  <2> QED BY <1>1, <1>3, <1>4, <1>18, <2>1, <2>2 DEF Find, run, iters
<1>19. ASSUME NEW a \in Admins, BeginRemove(a)
       PROVE  Known'
  <2>1. \A t \in Threads : walk'[t] \in {walk[t], queue}
    BY <1>19 DEF BeginRemove, Iterate, Types, TypeOK
  <2>2. Waiting' = Waiting /\ Waiting = Elements(queue)
    BY <1>19, Places DEF BeginRemove, qvars, Waiting
  <2> QED BY <1>1, <1>3, <1>4, <1>19, <2>1, <2>2 DEF BeginRemove, run
<1>20. ASSUME NEW a \in Admins, Raise(a) \/ AbortWaiting(a) \/ FlagRunning(a)
       PROVE  Known'
  <2>1. \A t \in Threads : Elements(walk'[t]) \subseteq Elements(walk[t])
    BY <1>20, EmptyList DEF Raise, AbortWaiting, FlagRunning, Forget, Types, TypeOK
  <2>2. Waiting' = Waiting
    BY <1>20 DEF Raise, AbortWaiting, FlagRunning, qvars, Waiting
  <2>3. \A b \in Admins : target'[b] \subseteq target[b]
    BY <1>20 DEF Raise, AbortWaiting, FlagRunning, Types, TypeOK
  <2>4. UNCHANGED run
    BY <1>20 DEF Raise, AbortWaiting, FlagRunning
  <2> QED BY <1>1, <1>3, <1>4, <2>1, <2>2, <2>3, <2>4 DEF run
<1>21. ASSUME NEW a \in Admins, RemoveWaiting(a)
       PROVE  Known'
  <2>1. PICK s \in target[a] : Replace(a, s)
    BY <1>21 DEF RemoveWaiting
  <2>2. Waiting' \subseteq Elements(walk[a])
    BY <2>1, Places, ReplaceFacts
  <2> QED BY <1>1, <1>3, <1>4, <1>21, <2>2, Places DEF RemoveWaiting, run
<1>22. ASSUME NEW a \in Admins, Clear(a)
       PROVE  Known'
  BY <1>3, <1>5, <1>22 DEF Clear, run, iters
<1>23. CASE UNCHANGED vars
  BY <1>3, <1>5, <1>23 DEF vars, qvars, run, admin, iters
<1> QED BY <1>6, <1>7, <1>8, <1>9, <1>10, <1>11, <1>12, <1>13, <1>14, <1>15, <1>16, <1>17, <1>18,
           <1>19, <1>20, <1>21, <1>22, <1>23 DEF Next, EventLoop, AdminThread

-----------------------------------------------------------------------------
(* Who changes the deque makes the other iterators invalid.                *)
LEMMA IteratorsNext ==
    ASSUME Types, Iterators, [Next]_vars
    PROVE  Iterators'
<1>0. /\ iter \in [Threads -> {"none", "current", "changed", "replaced"}]
      /\ walk \in [Threads -> Seq(Seqs)] /\ at \in [Admins -> {"idle", "found", "remove", "clear",
                                                    "abort", "flag", "aborted", "flagged"}]
      /\ Loop \in Threads /\ \A a \in Admins : a \in Threads /\ a # Loop
      /\ pc \in {"top", "asleep", "woken", "drop", "admit", "chosen", "copied", "popped",
                 "clear", "allocate", "pushing", "admitted", "prefill", "thread"}
  BY Places DEF Types, TypeOK
<1>1. CASE UNCHANGED <<policy, queue, walk, iter, at>> /\ pc # "copied" /\ pc' # "copied"
  BY <1>1 DEF Iterators
<1>2. CASE UNCHANGED <<policy, queue, walk, iter, at, pc>>
  BY <1>2 DEF Iterators
<1>3. ASSUME NEW new, Mutate(new), UNCHANGED <<policy, at>>, pc # "copied", pc' # "copied"
      PROVE  Iterators'
  <2>1. \A t \in Threads : iter'[t] # "current" /\ (iter'[t] = "none" <=> iter[t] = "none")
    BY <1>3, MutateFacts
  <2> QED BY <1>0, <1>3, <2>1 DEF Iterators
<1>4. ASSUME NEW s \in Seqs, Enqueue(s)
      PROVE  Iterators'
  BY <1>3, <1>4 DEF Enqueue, LoopFree, run, admin
<1>5. CASE SetEvent
  BY <1>1, <1>2, <1>5 DEF SetEvent, WakeRun, iters, admin
<1>6. CASE \/ Top \/ Woken \/ DropAborted \/ Choose \/ AfterPop \/ ClearEvent \/ PushEvent \/ Allocate
           \/ AdmitDone \/ Prefill \/ Prefilled \/ Decode \/ Step
  BY <1>1, <1>6 DEF Top, Woken, DropAborted, Choose, AfterPop, ClearEvent, PushEvent, Allocate,
                    AdmitDone, Prefill, Prefilled, Decode, Step, qvars, iters, admin
<1>7. CASE Skip
  BY <1>2, <1>7 DEF Skip, qvars, iters, admin
<1>8. CASE Pop
  <2>1. CASE queue = << >>
    BY <1>1, <1>8, <2>1 DEF Pop, iters, admin
  <2>2. CASE queue # << >>
    BY <1>3, <1>8, <2>2 DEF Pop, admin
  <2> QED BY <2>1, <2>2
<1>9. CASE RemoveWalk
  <2>1. /\ queue' = queue /\ at' = at /\ policy' = "memory_fit" /\ pc' = "copied"
        /\ \A t \in Threads : /\ walk'[t] = IF t = Loop THEN queue ELSE walk[t]
                              /\ iter'[t] = IF t = Loop THEN "current" ELSE iter[t]
    BY <1>0, <1>9 DEF RemoveWalk, Iterate, qvars, admin
  <2> QED BY <1>0, <2>1 DEF Iterators
<1>10. CASE RemoveChosen
  <2>1. PICK s \in chosen : Replace(Loop, s)
    BY <1>10 DEF RemoveChosen
  <2>2. /\ iter'[Loop] = "none"
        /\ \A u \in Threads \ {Loop} : iter'[u] # "current" /\ (iter'[u] = "none" <=> iter[u] = "none")
    BY <1>0, <2>1, ReplaceFacts
  <2> QED BY <1>0, <1>10, <2>2 DEF Iterators, RemoveChosen, admin
<1>11. CASE Refuse
  BY <1>3, <1>11 DEF Refuse, admin
<1>12. ASSUME NEW a \in Admins, (\E s \in Seqs : Find(a, s)) \/ Clear(a)
       PROVE  Iterators'
  <2>1. /\ UNCHANGED <<policy, queue, walk, iter, pc>>
        /\ at[a] # "remove" /\ at'[a] # "remove" /\ \A b \in Admins \ {a} : at'[b] = at[b]
    BY <1>0, <1>12 DEF Find, Clear, Goto, qvars, run, iters
  <2> QED BY <1>0, <2>1 DEF Iterators
<1>13. ASSUME NEW a \in Admins, BeginRemove(a)
       PROVE  Iterators'
  <2>1. /\ UNCHANGED <<policy, queue, pc>> /\ at' = [at EXCEPT ![a] = "remove"]
        /\ \A t \in Threads : /\ walk'[t] = IF t = a THEN queue ELSE walk[t]
                              /\ iter'[t] = IF t = a THEN "current" ELSE iter[t]
    BY <1>0, <1>13 DEF BeginRemove, Goto, Iterate, qvars, run
  <2> QED BY <1>0, <2>1 DEF Iterators
<1>14. ASSUME NEW a \in Admins, Raise(a) \/ AbortWaiting(a) \/ FlagRunning(a)
       PROVE  Iterators'
  <2>1. /\ UNCHANGED <<policy, queue, pc>> /\ at'[a] # "remove"
        /\ \A b \in Admins \ {a} : at'[b] = at[b]
    BY <1>0, <1>14 DEF Raise, AbortWaiting, FlagRunning, Goto, qvars, run
  <2>2. \A t \in Threads : /\ walk'[t] = IF t = a THEN << >> ELSE walk[t]
                           /\ iter'[t] = IF t = a THEN "none" ELSE iter[t]
    BY <1>0, <1>14 DEF Raise, AbortWaiting, FlagRunning, Forget
  <2> QED BY <1>0, <2>1, <2>2 DEF Iterators
<1>15. ASSUME NEW a \in Admins, RemoveWaiting(a)
       PROVE  Iterators'
  <2>1. PICK s \in target[a] : Replace(a, s)
    BY <1>15 DEF RemoveWaiting
  <2>2. /\ iter'[a] = "none"
        /\ \A u \in Threads \ {a} : /\ iter'[u] # "current"
                                    /\ iter'[u] = "none" <=> iter[u] = "none"
                                    /\ iter'[u] = "changed" <=> iter[u] = "changed"
    BY <1>0, <2>1, ReplaceFacts
  <2>3. /\ UNCHANGED <<policy, pc>> /\ at'[a] # "remove"
        /\ \A b \in Admins \ {a} : at'[b] = at[b]
    BY <1>0, <1>15 DEF RemoveWaiting, Goto, run
  <2> QED BY <1>0, <2>2, <2>3 DEF Iterators
<1>16. CASE UNCHANGED vars
  BY <1>2, <1>16 DEF vars, qvars, iters, admin, run
<1> QED BY <1>4, <1>5, <1>6, <1>7, <1>8, <1>9, <1>10, <1>11, <1>12, <1>13, <1>14, <1>15, <1>16
        DEF Next, EventLoop, AdminThread

(* A call leaves its target alone until it raises.                         *)
LEMMA CallsNext ==
    ASSUME Types, Calls, [Next]_vars, Iterators
    PROVE  Calls'
<1>0. /\ at \in [Admins -> {"idle", "found", "remove", "clear", "abort", "flag", "aborted", "flagged"}]
      /\ target \in [Admins -> SUBSET Seqs] /\ abort \in [Seqs -> BOOLEAN]
      /\ walk \in [Threads -> Seq(Seqs)]
      /\ Loop \in Threads /\ \A a \in Admins : a \in Threads /\ a # Loop
  BY Places DEF Types, TypeOK
<1>1. ASSUME UNCHANGED <<at, target, abort>>,
             \A b \in Admins : at[b] = "abort" => walk'[b] = walk[b]
      PROVE  Calls'
  BY <1>1 DEF Calls, Removed, Elements
<1>2. ASSUME NEW new, Mutate(new), UNCHANGED <<at, target, abort>>
      PROVE  Calls'
  <2>1. \A b \in Admins : at[b] = "abort" => walk'[b] = walk[b]
    BY <1>0, <1>2, MutateFacts DEF Iterators
  <2> QED BY <1>1, <1>2, <2>1
<1>3. ASSUME NEW s \in Seqs, Enqueue(s)
      PROVE  Calls'
  BY <1>2, <1>3 DEF Enqueue, admin
<1>4. CASE \/ SetEvent \/ Top \/ Woken \/ DropAborted \/ Choose \/ AfterPop \/ ClearEvent \/ PushEvent
           \/ Allocate \/ AdmitDone \/ Skip \/ Prefill \/ Prefilled \/ Decode \/ Step
  BY <1>1, <1>4 DEF SetEvent, Top, Woken, DropAborted, Choose, AfterPop, ClearEvent, PushEvent,
                    Allocate, AdmitDone, Skip, Prefill, Prefilled, Decode, Step, reqs, iters, admin
<1>5. CASE Pop
  BY <1>1, <1>2, <1>5 DEF Pop, iters, admin, reqs
<1>6. CASE RemoveWalk
  BY <1>0, <1>1, <1>6 DEF RemoveWalk, Iterate, admin, reqs
<1>7. CASE RemoveChosen
  BY <1>0, <1>1, <1>7 DEF RemoveChosen, admin, reqs
<1>8. CASE Refuse
  BY <1>2, <1>8 DEF Refuse, admin, reqs
<1>9. ASSUME NEW a \in Admins, UNCHANGED abort, \A b \in Admins \ {a} : at'[b] = at[b]
                                    /\ target'[b] = target[b] /\ walk'[b] = walk[b],
             at'[a] # "idle" => target'[a] # {},
             at'[a] = "abort" => target'[a] \subseteq Elements(walk'[a]),
             at'[a] # "flagged"
      PROVE  Calls'
  <2> SUFFICES ASSUME NEW b \in Admins
               PROVE  /\ at'[b] # "idle" => target'[b] # {}
                      /\ at'[b] = "abort" => target'[b] \subseteq Elements(walk'[b])
                      /\ at'[b] = "flagged" => \A s \in target'[b] : abort'[s]
    BY DEF Calls, Removed, Elements
  <2>1. CASE a = b
    BY <1>9, <2>1
  <2>2. CASE a # b
    BY <1>9, <2>2 DEF Calls, Removed
  <2> QED BY <2>1, <2>2
<1>10. ASSUME NEW a \in Admins, NEW s \in Seqs, Find(a, s)
       PROVE  Calls'
  BY <1>0, <1>9, <1>10 DEF Find, Goto, reqs, iters
<1>11. ASSUME NEW a \in Admins, BeginRemove(a)
       PROVE  Calls'
  BY <1>0, <1>9, <1>11 DEF BeginRemove, Goto, Iterate, reqs, Calls
<1>12. ASSUME NEW a \in Admins, Raise(a)
       PROVE  Calls'
  BY <1>0, <1>9, <1>12 DEF Raise, Goto, Forget, reqs
<1>13. ASSUME NEW a \in Admins, RemoveWaiting(a)
       PROVE  Calls'
  BY <1>0, <1>9, <1>13 DEF RemoveWaiting, Goto, Removed, reqs
<1>14. ASSUME NEW a \in Admins, Clear(a)
       PROVE  Calls'
  BY <1>0, <1>9, <1>14 DEF Clear, Goto, Removed, reqs, iters, Calls
<1>15. ASSUME NEW a \in Admins, AbortWaiting(a)
       PROVE  Calls'
  BY <1>0, <1>9, <1>15 DEF AbortWaiting, Goto, Forget, Calls
<1>16. ASSUME NEW a \in Admins, FlagRunning(a)
       PROVE  Calls'
  <2>1. \A s \in Seqs : abort'[s] = (abort[s] \/ s \in target[a])
    BY <1>16 DEF FlagRunning
  <2>2. /\ UNCHANGED target /\ at' = [at EXCEPT ![a] = "flagged"]
        /\ \A b \in Admins \ {a} : walk'[b] = walk[b]
    BY <1>0, <1>16 DEF FlagRunning, Goto, Forget
  <2>3. \A b \in Admins : at[b] = "abort" => target[b] \subseteq Elements(walk[b])
    BY DEF Calls, Removed
  <2>4. \A b \in Admins : \A s \in target[b] : at'[b] = "flagged" => abort'[s]
    BY <1>0, <2>1, <2>2 DEF Calls
  <2>5. \A b \in Admins : at'[b] = "abort" => Removed(b)'
    <3>1. \A b \in Admins : at'[b] = "abort" => target'[b] \subseteq Elements(walk'[b])
      BY <1>0, <2>2, <2>3
    <3> QED BY <3>1 DEF Removed, Elements
  <2>6. \A b \in Admins : at'[b] # "idle" => target'[b] # {}
    BY <1>0, <1>16, <2>2 DEF Calls, FlagRunning
  <2> QED BY <2>2, <2>4, <2>5, <2>6 DEF Calls
<1>17. CASE UNCHANGED vars
  BY <1>1, <1>17 DEF vars, reqs, iters, admin
<1> QED BY <1>3, <1>4, <1>5, <1>6, <1>7, <1>8, <1>10, <1>11, <1>12, <1>13, <1>14, <1>15, <1>16, <1>17
        DEF Next, EventLoop, AdminThread

-----------------------------------------------------------------------------
(* What a step does not touch stays in its place.                          *)
LEMMA StaysInPlace ==
    ASSUME NEW s \in Seqs, InPlace(s),
           Once(queue', s), Once(admitted', s), \A t \in Threads : Once(walk'[t], s),
           s \in Waiting' <=> s \in Waiting,
           InHand(s)' <=> InHand(s),
           s \in Elements(admitted') <=> s \in Elements(admitted),
           s \in Elements(admitted) => (InPrefill(s)' <=> InPrefill(s)),
           s \in batch' <=> s \in batch,
           \A a \in Admins : TakenBy(a, s)' <=> TakenBy(a, s),
           \A a \in Admins : at'[a] = "aborted" /\ s \in target'[a]
                                => at[a] = "aborted" /\ s \in target[a],
           status'[s] = status[s]
    PROVE  InPlace(s)'
<1> USE DEF InPlace
<1>1. OnceEverywhere(s)'
  BY DEF OnceEverywhere
<1>2. Apart(s)'
  BY DEF Apart
<1>3. StatusFits(s)'
  BY DEF StatusFits
<1> QED BY <1>1, <1>2, <1>3

(* Who is excepted stays excepted.                                         *)
LEMMA CrossedGrows ==
    ASSUME [Next]_vars
    PROVE  crossed \subseteq crossed'
<1>1. CASE UNCHANGED crossed
  BY <1>1
<1>2. CASE Pop
  BY <1>2 DEF Pop
<1>3. CASE RemoveChosen
  BY <1>3 DEF RemoveChosen
<1>4. CASE \/ SetEvent \/ Top \/ Woken \/ DropAborted \/ Choose \/ AfterPop \/ RemoveWalk \/ ClearEvent
           \/ Refuse \/ PushEvent \/ Allocate \/ AdmitDone
           \/ Skip \/ Prefill \/ Prefilled \/ Decode \/ Step \/ \E s \in Seqs : Enqueue(s)
  BY <1>1, <1>4 DEF SetEvent, Top, Woken, DropAborted, Choose, AfterPop, RemoveWalk, ClearEvent,
                    Refuse, PushEvent, Allocate, AdmitDone, Skip,
                    Prefill, Prefilled, Decode, Step, Enqueue, history
<1>5. ASSUME NEW a \in Admins, AdminThread(a)
      PROVE  crossed \subseteq crossed'
  BY <1>1, <1>5 DEF AdminThread, Find, BeginRemove, Raise, RemoveWaiting, Clear, AbortWaiting,
                    FlagRunning, history
<1>6. CASE UNCHANGED vars
  BY <1>1, <1>6 DEF vars, history
<1> QED BY <1>2, <1>3, <1>4, <1>5, <1>6 DEF Next, EventLoop

(* The steps of the loop that move nobody.                                 *)
LEMMA LoopLeavesInPlace ==
    ASSUME Types, Admission, NEW s \in Seqs, InPlace(s),
           \/ SetEvent \/ Top \/ Woken \/ Choose \/ RemoveWalk \/ AdmitDone \/ Decode
           \/ AfterPop \/ ClearEvent \/ PushEvent
    PROVE  InPlace(s)'
<1>1. ASSUME UNCHANGED <<queue, status, batch, admitted, at, target>>,
             pc' \notin InHands \cup {"prefill"}, pc \notin InHands \cup {"prefill"},
             \A t \in Threads : Once(walk'[t], s),
             \A a \in Admins : walk'[a] = walk[a]
      PROVE  InPlace(s)'
  <2>1. Waiting' = Waiting
    BY <1>1 DEF Waiting
  <2>2. (InHand(s)' <=> InHand(s)) /\ (InPrefill(s)' <=> InPrefill(s))
    BY <1>1 DEF InHand, InPrefill
  <2>3. \A a \in Admins : TakenBy(a, s)' <=> TakenBy(a, s)
    BY <1>1 DEF TakenBy
  <2>4. Once(queue', s) /\ Once(admitted', s)
    BY <1>1 DEF InPlace, OnceEverywhere
  <2> QED BY <1>1, <2>1, <2>2, <2>3, <2>4, StaysInPlace
<1>8. ASSUME UNCHANGED <<queue, status, batch, chosen, admitted, at, target, walk>>,
             pc' \in InHands <=> pc \in InHands, pc' = "prefill" <=> pc = "prefill"
      PROVE  InPlace(s)'
  BY <1>8 DEF InPlace, OnceEverywhere, Apart, StatusFits, Waiting, InHand, InPrefill, TakenBy
<1>2. \A t \in Threads : Once(walk[t], s)
  BY DEF InPlace, OnceEverywhere
<1>3. CASE SetEvent
  <2>1. UNCHANGED <<queue, status, batch, chosen, admitted, at, target, walk>>
    BY <1>3 DEF SetEvent, reqs, admin, iters
  <2>2. (pc' \in InHands <=> pc \in InHands) /\ (pc' = "prefill" <=> pc = "prefill")
    BY <1>3 DEF SetEvent, WakeRun, InHands
  <2> QED BY <1>8, <2>1, <2>2
<1>4. CASE Top
  <2>1. admitted' = admitted
    BY <1>4 DEF Top, Admission
  <2> QED BY <1>1, <1>2, <1>4, <2>1 DEF Top, qvars, reqs, admin, iters, InHands
<1>7. CASE AfterPop \/ ClearEvent \/ PushEvent
  <2>1. UNCHANGED <<queue, status, batch, chosen, admitted, at, target, walk>>
    BY <1>7 DEF AfterPop, ClearEvent, PushEvent, qvars, reqs, admin, iters
  <2>2. (pc' \in InHands <=> pc \in InHands) /\ (pc' = "prefill" <=> pc = "prefill")
    BY <1>7 DEF AfterPop, ClearEvent, PushEvent, InHands
  <2> QED BY <1>8, <2>1, <2>2
<1>5. CASE Woken \/ Choose \/ AdmitDone \/ Decode
  BY <1>1, <1>2, <1>5 DEF Woken, Choose, AdmitDone, Decode, qvars, reqs, admin, iters,
                              InHands
<1>6. CASE RemoveWalk
  <2>1. \A t \in Threads : walk'[t] \in {walk[t], queue} /\ (t # Loop => walk'[t] = walk[t])
    BY <1>6 DEF RemoveWalk, Iterate, Types, TypeOK
  <2>2. \A t \in Threads : Once(walk'[t], s)
    BY <1>2, <2>1 DEF InPlace, OnceEverywhere
  <2>3. \A a \in Admins : walk'[a] = walk[a]
    BY <2>1, Places
  <2> QED BY <1>1, <1>6, <2>2, <2>3 DEF RemoveWalk, qvars, reqs, admin, InHands
<1> QED BY <1>3, <1>4, <1>5, <1>6, <1>7

(* The steps of admin_abort that move nobody.                              *)
LEMMA CallLeavesInPlace ==
    ASSUME Types, NEW s \in Seqs, InPlace(s), NEW a \in Admins,
           \/ \E u \in Seqs : Find(a, u)
           \/ BeginRemove(a) \/ Raise(a) \/ Clear(a) \/ FlagRunning(a)
    PROVE  InPlace(s)'
<1>0. \A t \in Threads : Once(walk[t], s)
  BY DEF InPlace, OnceEverywhere
<1>1. ASSUME UNCHANGED <<queue, status, run>>,
             \A t \in Threads : Once(walk'[t], s),
             \A b \in Admins \ {a} : at'[b] = at[b] /\ target'[b] = target[b] /\ walk'[b] = walk[b],
             TakenBy(a, s)' <=> TakenBy(a, s), at'[a] # "aborted"
      PROVE  InPlace(s)'
  <2>1. Waiting' = Waiting
    BY <1>1 DEF Waiting
  <2>2. (InHand(s)' <=> InHand(s)) /\ (InPrefill(s)' <=> InPrefill(s))
    BY <1>1 DEF InHand, InPrefill, run
  <2>3. \A b \in Admins : TakenBy(b, s)' <=> TakenBy(b, s)
    BY <1>1 DEF TakenBy
  <2>4. Once(queue', s) /\ Once(admitted', s)
    BY <1>1 DEF InPlace, OnceEverywhere, run
  <2> QED BY <1>1, <2>1, <2>2, <2>3, <2>4, StaysInPlace DEF run
<1>2. ASSUME NEW u \in Seqs, Find(a, u)
      PROVE  InPlace(s)'
  <2>1. at[a] = "idle" /\ at'[a] = "found"
    BY <1>2 DEF Find, Goto, Types, TypeOK
  <2>2. ~ TakenBy(a, s) /\ ~ TakenBy(a, s)'
    BY <2>1 DEF TakenBy
  <2> QED BY <1>0, <1>1, <1>2, <2>1, <2>2 DEF Find, Goto, qvars, reqs, iters, Types, TypeOK
<1>3. CASE BeginRemove(a)
  <2>1. at[a] = "found" /\ at'[a] = "remove"
    BY <1>3 DEF BeginRemove, Goto, Types, TypeOK
  <2>2. ~ TakenBy(a, s) /\ ~ TakenBy(a, s)'
    BY <2>1 DEF TakenBy
  <2>3. \A t \in Threads : walk'[t] \in {walk[t], queue} /\ (t # a => walk'[t] = walk[t])
    BY <1>3 DEF BeginRemove, Iterate, Types, TypeOK
  <2>4. \A t \in Threads : Once(walk'[t], s)
    BY <1>0, <2>3 DEF InPlace, OnceEverywhere
  <2>5. \A b \in Admins \ {a} : walk'[b] = walk[b]
    BY <2>3, Places
  <2> QED BY <1>1, <1>3, <2>1, <2>2, <2>4, <2>5 DEF BeginRemove, Goto, qvars, reqs, Types, TypeOK
<1>4. CASE Raise(a) \/ FlagRunning(a)
  <2>1. at[a] \in {"remove", "flag"} /\ at'[a] \in {"idle", "flagged"}
    BY <1>4 DEF Raise, FlagRunning, Goto, Types, TypeOK
  <2>2. ~ TakenBy(a, s) /\ ~ TakenBy(a, s)'
    BY <2>1 DEF TakenBy
  <2>3. \A t \in Threads : walk'[t] \in {walk[t], << >>} /\ (t # a => walk'[t] = walk[t])
    BY <1>4 DEF Raise, FlagRunning, Forget, Types, TypeOK
  <2>4. \A t \in Threads : Once(walk'[t], s)
    BY <1>0, <2>3, EmptyList
  <2>5. \A b \in Admins \ {a} : walk'[b] = walk[b]
    BY <2>3, Places
  <2> QED BY <1>1, <1>4, <2>1, <2>2, <2>4, <2>5 DEF Raise, FlagRunning, Goto, qvars, reqs, Types, TypeOK
<1>5. CASE Clear(a)
  <2>1. /\ at[a] = "clear" /\ UNCHANGED <<target, walk>>
        /\ at'[a] = IF Removed(a) THEN "abort" ELSE "flag"
    BY <1>5 DEF Clear, Goto, iters, Types, TypeOK
  <2>2. TakenBy(a, s) => Removed(a)
    BY DEF TakenBy, Removed, Types
  <2>3. TakenBy(a, s)' <=> TakenBy(a, s)
    BY <2>1, <2>2 DEF TakenBy
  <2> QED BY <1>0, <1>1, <1>5, <2>1, <2>3 DEF Clear, Goto, reqs, iters, Types, TypeOK
<1> QED BY <1>2, <1>3, <1>4, <1>5

(* A change of the deque leaves those who have taken something out alone:  *)
(* they are through with their loops.                                      *)
LEMMA MutateLeavesTaken ==
    ASSUME Types, Iterators, NEW new, Mutate(new), UNCHANGED <<at, target>>,
           NEW s \in Seqs, InPlace(s)
    PROVE  /\ Waiting' = Elements(new)
           /\ \A t \in Threads : Once(walk'[t], s)
           /\ \A a \in Admins : TakenBy(a, s)' <=> TakenBy(a, s)
<1>1. /\ Waiting' = Elements(new)
      /\ \A t \in Threads : Once(walk[t], s) => Once(walk'[t], s)
      /\ \A t \in Threads : iter[t] \in {"none", "replaced"} => walk'[t] = walk[t]
  <2>1. Loop \in Threads
    BY Places
  <2> QED BY <2>1, MutateFacts
<1>2. \A a \in Admins : at[a] \in {"clear", "abort"} => walk'[a] = walk[a]
  BY <1>1, Places DEF Iterators
<1>3. \A a \in Admins : TakenBy(a, s)' <=> TakenBy(a, s)
  BY <1>2 DEF TakenBy
<1>4. \A t \in Threads : Once(walk[t], s)
  BY DEF InPlace, OnceEverywhere
<1> QED BY <1>1, <1>3, <1>4

(* The steps that move a request from one place to the next.               *)
LEMMA EnqueueKeepsPlace ==
    ASSUME Types, Known, Iterators, NEW s \in Seqs, InPlace(s), NEW u \in Seqs, Enqueue(u)
    PROVE  InPlace(s)'
<1>1. /\ Waiting' = Waiting \cup {u}
      /\ Once(queue, s) /\ (s = u => s \notin Waiting) => Once(queue', s)
      /\ \A t \in Threads : Once(walk'[t], s)
      /\ \A a \in Admins : TakenBy(a, s)' <=> TakenBy(a, s)
  <2>1. Mutate(Append(queue, u)) /\ UNCHANGED <<at, target>> /\ queue' = Append(queue, u)
    BY DEF Enqueue, admin, Mutate
  <2>2. queue \in Seq(Seqs) /\ Waiting = Elements(queue)
    BY Places
  <2>3. /\ Elements(Append(queue, u)) = Elements(queue) \cup {u}
        /\ \A v : Once(queue, v) /\ (v = u => v \notin Elements(queue)) => Once(Append(queue, u), v)
    BY <2>2, AppendOnce
  <2> QED BY <2>1, <2>2, <2>3, MutateLeavesTaken
<1>2. /\ UNCHANGED <<batch, pc, chosen, admitted, at, target>>
      /\ pc \notin InHands
      /\ status[u] = "new" /\ status' = [status EXCEPT ![u] = "waiting"]
  BY DEF Enqueue, LoopFree, run, admin, InHands
<1>3. /\ status'[u] = "waiting" /\ (s # u => status'[s] = status[s])
  BY <1>2 DEF Types, TypeOK
<1>4. Once(admitted', s) /\ Once(queue, s)
  BY <1>2 DEF InPlace, OnceEverywhere
<1>5. ~ InHand(s) /\ ~ InHand(s)' /\ (InPrefill(s)' <=> InPrefill(s))
  BY <1>2 DEF InHand, InPrefill
<1>6. CASE s # u
  BY <1>1, <1>2, <1>3, <1>4, <1>5, <1>6, StaysInPlace
<1>7. CASE s = u
  <2>1. /\ s \notin Waiting /\ s \notin Elements(admitted) /\ s \notin batch
        /\ \A a \in Admins : s \notin target[a]
    BY <1>2, <1>7 DEF Known
  <2>2. \A a \in Admins : ~ TakenBy(a, s) /\ ~ TakenBy(a, s)'
    BY <1>1, <2>1 DEF TakenBy
  <2>3. OnceEverywhere(s)'
    BY <1>1, <1>4, <2>1 DEF OnceEverywhere
  <2>4. Apart(s)'
    BY <1>2, <1>5, <2>1, <2>2 DEF Apart
  <2>5. StatusFits(s)'
    BY <1>1, <1>2, <1>3, <1>7, <2>1, <2>2 DEF StatusFits
  <2> QED BY <2>3, <2>4, <2>5 DEF InPlace
<1> QED BY <1>6, <1>7

(* pop_one: what the admission has chosen is the head, or both are         *)
(* excepted.                                                               *)
LEMMA PopKeepsPlace ==
    ASSUME Types, Iterators, NEW s \in Seqs, InPlace(s), Pop, s \notin crossed'
    PROVE  InPlace(s)'
<1>1. /\ UNCHANGED <<status, batch, chosen, admitted, at, target>>
      /\ pc = "chosen" /\ pc' \in InHands
      /\ Popped = chosen \/ s \notin Popped \cup chosen
  BY DEF Pop, reqs, admin, InHands
<1>2. /\ \A t \in Threads : Once(walk'[t], s)
      /\ \A a \in Admins : TakenBy(a, s)' <=> TakenBy(a, s)
      /\ Once(queue', s)
      /\ Waiting = Waiting' \cup Popped
      /\ Popped = {s} => s \notin Waiting'
  <2>1. Once(queue, s) /\ \A t \in Threads : Once(walk[t], s)
    BY DEF InPlace, OnceEverywhere
  <2>2. CASE queue = << >>
    <3>1. UNCHANGED <<queue, walk>> /\ Popped = {}
      BY <2>2 DEF Pop, Popped, iters
    <3> QED BY <1>1, <2>1, <3>1 DEF Waiting, TakenBy
  <2>3. CASE queue # << >>
    <3>1. Mutate(Tail(queue)) /\ queue' = Tail(queue) /\ Popped = {Head(queue)}
      BY <2>3 DEF Pop, Mutate, Popped
    <3>2. queue \in Seq(Seqs) /\ Waiting = Elements(queue)
      BY Places
    <3>3. /\ Elements(queue) = Elements(Tail(queue)) \cup {Head(queue)}
          /\ \A v : Once(queue, v) => Once(Tail(queue), v)
          /\ Once(queue, Head(queue)) => Head(queue) \notin Elements(Tail(queue))
      BY <2>3, <3>2, TailOnce
    <3>4. /\ Waiting' = Elements(Tail(queue))
          /\ \A t \in Threads : Once(walk'[t], s)
          /\ \A a \in Admins : TakenBy(a, s)' <=> TakenBy(a, s)
      BY <1>1, <3>1, MutateLeavesTaken
    <3> QED BY <2>1, <3>1, <3>2, <3>3, <3>4
  <2> QED BY <2>2, <2>3
<1>3. Once(admitted', s)
  BY <1>1 DEF InPlace, OnceEverywhere
<1>4. ~ InHand(s) /\ (InHand(s)' <=> s \in chosen) /\ ~ InPrefill(s) /\ ~ InPrefill(s)'
  BY <1>1 DEF InHand, InPrefill, InHands
<1>5. CASE s \notin chosen
  <2>1. s \in Waiting' <=> s \in Waiting
    BY <1>1, <1>2, <1>5
  <2> QED BY <1>1, <1>2, <1>3, <1>4, <1>5, <2>1, StaysInPlace
<1>6. CASE s \in chosen
  <2>1. Popped = {s}
    BY <1>1, <1>6 DEF Types
  <2>2. s \in Waiting /\ s \notin Waiting'
    BY <1>2, <2>1
  <2>3. OnceEverywhere(s)'
    BY <1>2, <1>3 DEF OnceEverywhere
  <2>4. Apart(s)'
    BY <1>1, <1>2, <1>4, <1>6, <2>2 DEF Apart, InPlace
  <2>5. StatusFits(s)'
    BY <1>1, <1>2, <1>4, <1>6, <2>2 DEF StatusFits, Apart, InPlace
  <2> QED BY <2>3, <2>4, <2>5 DEF InPlace
<1> QED BY <1>5, <1>6

(* remove() of the admission: who is excepted was not in the walk and in   *)
(* the queue alike.                                                        *)
LEMMA RemoveChosenKeepsPlace ==
    ASSUME Types, Iterators, NEW s \in Seqs, InPlace(s), RemoveChosen, s \notin crossed'
    PROVE  InPlace(s)'
<1>1. PICK c \in chosen : Replace(Loop, c)
  BY DEF RemoveChosen
<1>2. /\ UNCHANGED <<status, batch, chosen, admitted, at, target>>
      /\ pc = "copied" /\ pc' \in InHands
      /\ s \in Elements(walk[Loop]) <=> s \in Waiting
      /\ s \in chosen => s \in Waiting
      /\ walk' = [walk EXCEPT ![Loop] = << >>]
  BY DEF RemoveChosen, Undone, reqs, admin, InHands
<1>3. /\ Waiting' \subseteq Elements(walk[Loop])
      /\ Elements(walk[Loop]) \ {c} \subseteq Waiting'
      /\ Once(walk[Loop], s) => Once(queue', s)
      /\ Once(walk[Loop], c) => c \notin Waiting'
  BY <1>1, Places, ReplaceFacts
<1>4. /\ \A t \in Threads : Once(walk[t], s) /\ Once(walk'[t], s)
      /\ \A a \in Admins : walk'[a] = walk[a]
      /\ Once(admitted', s)
  <2>1. \A t \in Threads : walk'[t] = IF t = Loop THEN << >> ELSE walk[t]
    BY <1>2 DEF Types, TypeOK
  <2> QED BY <1>2, <2>1, EmptyList, Places DEF InPlace, OnceEverywhere
<1>5. Once(queue', s)
  BY <1>3, <1>4, Places
<1>6. \A a \in Admins : TakenBy(a, s)' <=> TakenBy(a, s)
  BY <1>2, <1>4 DEF TakenBy
<1>7. ~ InHand(s) /\ (InHand(s)' <=> s \in chosen) /\ ~ InPrefill(s) /\ ~ InPrefill(s)'
  BY <1>2 DEF InHand, InPrefill, InHands
<1>8. CASE s # c
  <2>1. s \notin chosen
    BY <1>1, <1>8 DEF Types
  <2>2. s \in Waiting' <=> s \in Waiting
    BY <1>2, <1>3, <1>8
  <2> QED BY <1>2, <1>4, <1>5, <1>6, <1>7, <2>1, <2>2, StaysInPlace
<1>9. CASE s = c
  <2>1. s \in chosen /\ s \in Waiting /\ s \notin Waiting'
    BY <1>1, <1>2, <1>3, <1>4, <1>9, Places
  <2>2. OnceEverywhere(s)'
    BY <1>4, <1>5 DEF OnceEverywhere
  <2>3. Apart(s)'
    BY <1>2, <1>6, <1>7, <2>1 DEF Apart, InPlace
  <2>4. StatusFits(s)'
    BY <1>2, <1>6, <1>7, <2>1 DEF StatusFits, Apart, InPlace
  <2> QED BY <2>2, <2>3, <2>4 DEF InPlace
<1> QED BY <1>8, <1>9

(* remove() of admin_abort.                                                *)
LEMMA RemoveWaitingKeepsPlace ==
    ASSUME Types, Iterators, NEW s \in Seqs, InPlace(s), NEW a \in Admins, RemoveWaiting(a),
           s \notin crossed'
    PROVE  InPlace(s)'
<1>1. PICK u \in target[a] : Replace(a, u)
  BY DEF RemoveWaiting
<1>2. /\ UNCHANGED <<status, batch, pc, chosen, admitted, target, walk>>
      /\ at[a] = "remove"
      /\ s \in Elements(walk[a]) <=> s \in Waiting
  BY DEF RemoveWaiting, Undone, reqs, run
<1>3. /\ at'[a] \in {"clear", "abort", "flag"} /\ (Removed(a) => at'[a] \in {"clear", "abort"})
      /\ \A b \in Admins \ {a} : at'[b] = at[b]
  BY DEF RemoveWaiting, Goto, Types, TypeOK
<1>4. /\ Waiting' \subseteq Elements(walk[a])
      /\ Elements(walk[a]) \ {u} \subseteq Waiting'
      /\ Once(walk[a], s) => Once(queue', s)
      /\ Once(walk[a], u) => u \notin Waiting'
  BY <1>1, Places, ReplaceFacts
<1>5. /\ \A t \in Threads : Once(walk[t], s) /\ Once(walk'[t], s)
      /\ Once(admitted', s) /\ Once(queue', s)
  BY <1>2, <1>4, Places DEF InPlace, OnceEverywhere
<1>6. (InHand(s)' <=> InHand(s)) /\ (InPrefill(s)' <=> InPrefill(s))
  BY <1>2 DEF InHand, InPrefill
<1>7. /\ ~ TakenBy(a, s)
      /\ \A b \in Admins \ {a} : TakenBy(b, s)' <=> TakenBy(b, s)
      /\ TakenBy(a, s)' => s \in target[a] /\ s \in Elements(walk[a])
  BY <1>2, <1>3 DEF TakenBy
<1>8. \A v \in target[a] : v = u
  BY <1>1 DEF Types
<1>9. CASE s \notin target[a] \/ s \notin Elements(walk[a])
  <2>1. s \in Waiting' <=> s \in Waiting
    BY <1>1, <1>2, <1>4, <1>9
  <2>2. \A b \in Admins : TakenBy(b, s)' <=> TakenBy(b, s)
    BY <1>7, <1>9
  <2>3. \A b \in Admins : at'[b] = "aborted" => at[b] = "aborted"
    BY <1>3
  <2> QED BY <1>2, <1>5, <1>6, <2>1, <2>2, <2>3, StaysInPlace
<1>10. CASE s \in target[a] /\ s \in Elements(walk[a])
  <2>1. s = u /\ s \in Waiting /\ s \notin Waiting'
    BY <1>2, <1>4, <1>5, <1>8, <1>10, Places
  <2>2. Removed(a)
    BY <1>8, <1>10, <2>1 DEF Removed
  <2>3. TakenBy(a, s)'
    BY <1>2, <1>3, <1>10, <2>2 DEF TakenBy
  <2>4. OnceEverywhere(s)'
    BY <1>5 DEF OnceEverywhere
  <2>5. Apart(s)'
    BY <1>2, <1>6, <1>7, <2>1, <2>3 DEF Apart, InPlace
  <2>6. StatusFits(s)'
    BY <1>2, <1>3, <1>6, <1>7, <2>1, <2>3 DEF StatusFits, Apart, InPlace
  <2> QED BY <2>4, <2>5, <2>6 DEF InPlace
<1> QED BY <1>9, <1>10

(* push_front.                                                             *)
LEMMA RefuseKeepsPlace ==
    ASSUME Types, Iterators, NEW s \in Seqs, InPlace(s), Refuse
    PROVE  InPlace(s)'
<1>1. PICK c \in Seqs : c \in chosen /\ Mutate(Cons(c, queue))
  BY Places DEF Refuse
<1>2. /\ UNCHANGED <<status, batch, admitted, at, target>>
      /\ pc = "allocate" /\ pc' = "pushing" /\ chosen' = {}
  BY DEF Refuse, reqs, admin
<1>3. /\ Waiting' = Waiting \cup {c}
      /\ \A t \in Threads : Once(walk'[t], s)
      /\ \A a \in Admins : TakenBy(a, s)' <=> TakenBy(a, s)
      /\ Once(queue, s) /\ (s = c => s \notin Waiting) => Once(queue', s)
  <2>1. queue' = Cons(c, queue)
    BY <1>1 DEF Mutate
  <2>2. Elements(Cons(c, queue)) = Waiting \cup {c}
    BY PushFront
  <2>3. \A v : Once(queue, v) /\ (v = c => v \notin Waiting) => Once(Cons(c, queue), v)
    BY PushFront
  <2>4. /\ Waiting' = Elements(Cons(c, queue))
        /\ \A t \in Threads : Once(walk'[t], s)
        /\ \A a \in Admins : TakenBy(a, s)' <=> TakenBy(a, s)
    BY <1>1, <1>2, MutateLeavesTaken
  <2> QED BY <2>1, <2>2, <2>3, <2>4
<1>4. Once(admitted', s) /\ Once(queue, s)
  BY <1>2 DEF InPlace, OnceEverywhere
<1>5. (InHand(s) <=> s \in chosen) /\ ~ InHand(s)' /\ ~ InPrefill(s) /\ ~ InPrefill(s)'
  BY <1>2 DEF InHand, InPrefill, InHands
<1>6. CASE s # c
  <2>1. s \notin chosen
    BY <1>1, <1>6 DEF Types
  <2> QED BY <1>2, <1>3, <1>4, <1>5, <1>6, <2>1, StaysInPlace
<1>7. CASE s = c
  <2>1. InHand(s) /\ s \notin Waiting /\ s \in Waiting'
    BY <1>1, <1>3, <1>5, <1>7 DEF InPlace, Apart
  <2>2. OnceEverywhere(s)'
    BY <1>3, <1>4, <2>1 DEF OnceEverywhere
  <2>3. Apart(s)'
    BY <1>2, <1>3, <1>5, <2>1 DEF Apart, InPlace
  <2>4. StatusFits(s)'
    BY <1>2, <1>3, <1>5, <2>1 DEF StatusFits, Apart, InPlace
  <2> QED BY <2>2, <2>3, <2>4 DEF InPlace
<1> QED BY <1>6, <1>7

(* Steps of the admission and of the iteration that leave the deque alone. *)
LEMMA DequeRests ==
    ASSUME Types, NEW s \in Seqs, InPlace(s), UNCHANGED <<queue, walk, at, target>>
    PROVE  /\ Waiting' = Waiting /\ Once(queue', s)
           /\ \A t \in Threads : Once(walk'[t], s)
           /\ \A a \in Admins : TakenBy(a, s)' <=> TakenBy(a, s)
<1>1. Waiting' = Waiting
  BY DEF Waiting
<1>2. Once(queue', s) /\ \A t \in Threads : Once(walk'[t], s)
  BY DEF InPlace, OnceEverywhere
<1>3. \A a \in Admins : TakenBy(a, s)' <=> TakenBy(a, s)
  BY DEF TakenBy
<1> QED BY <1>1, <1>2, <1>3

(* _try_allocate has succeeded.                                            *)
LEMMA AllocateKeepsPlace ==
    ASSUME Types, NEW s \in Seqs, InPlace(s), Allocate
    PROVE  InPlace(s)'
<1>1. PICK c \in Seqs : c \in chosen /\ admitted' = Append(admitted, c)
  BY Places DEF Allocate
<1>2. /\ UNCHANGED <<queue, walk, status, batch, at, target>>
      /\ pc = "allocate" /\ pc' = "admit" /\ chosen' = {}
  BY DEF Allocate, qvars, reqs, iters, admin
<1>3. /\ Waiting' = Waiting /\ Once(queue', s)
      /\ \A t \in Threads : Once(walk'[t], s)
      /\ \A a \in Admins : TakenBy(a, s)' <=> TakenBy(a, s)
  BY <1>2, DequeRests
<1>4. /\ Elements(admitted') = Elements(admitted) \cup {c}
      /\ Once(admitted, s) /\ (s = c => s \notin Elements(admitted)) => Once(admitted', s)
  <2>1. admitted \in Seq(Seqs)
    BY Places
  <2>2. Elements(Append(admitted, c)) = Elements(admitted) \cup {c}
    BY <2>1, AppendOnce
  <2>3. \A v : Once(admitted, v) /\ (v = c => v \notin Elements(admitted)) => Once(Append(admitted, c), v)
    BY <2>1, AppendOnce
  <2> QED BY <1>1, <2>2, <2>3
<1>5. Once(admitted, s)
  BY DEF InPlace, OnceEverywhere
<1>6. (InHand(s) <=> s \in chosen) /\ ~ InHand(s)' /\ ~ InPrefill(s) /\ ~ InPrefill(s)'
  BY <1>2 DEF InHand, InPrefill, InHands
<1>7. CASE s # c
  <2>1. s \notin chosen
    BY <1>1, <1>7 DEF Types
  <2> QED BY <1>2, <1>3, <1>4, <1>5, <1>6, <1>7, <2>1, StaysInPlace
<1>8. CASE s = c
  <2>1. InHand(s) /\ s \notin Elements(admitted) /\ s \in Elements(admitted')
    BY <1>1, <1>4, <1>6, <1>8 DEF InPlace, Apart
  <2>2. OnceEverywhere(s)'
    BY <1>3, <1>4, <1>5, <2>1 DEF OnceEverywhere
  <2>3. Apart(s)'
    BY <1>2, <1>3, <1>6, <2>1 DEF Apart, InPlace
  <2>4. StatusFits(s)'
    BY <1>2, <1>3, <1>6, <2>1 DEF StatusFits, Apart, InPlace
  <2> QED BY <2>2, <2>3, <2>4 DEF InPlace
<1> QED BY <1>7, <1>8

(* Whose abort was asked for before its prefill.                           *)
LEMMA SkipKeepsPlace ==
    ASSUME Types, NEW s \in Seqs, InPlace(s), Skip
    PROVE  InPlace(s)'
<1>1. PICK h : h = Head(admitted)
  OBVIOUS
<1>2. /\ UNCHANGED <<queue, walk, batch, at, target, pc, chosen>>
      /\ pc = "admitted" /\ admitted # << >> /\ admitted' = Tail(admitted)
      /\ status' = [status EXCEPT ![h] = "aborted"]
  BY <1>1 DEF Skip, qvars, iters, admin
<1>3. /\ Waiting' = Waiting /\ Once(queue', s)
      /\ \A t \in Threads : Once(walk'[t], s)
      /\ \A a \in Admins : TakenBy(a, s)' <=> TakenBy(a, s)
  BY <1>2, DequeRests
<1>4. Once(admitted, s)
  BY DEF InPlace, OnceEverywhere
<1>5. /\ Elements(admitted) = Elements(admitted') \cup {h}
      /\ Once(admitted', s)
      /\ s = h => s \notin Elements(admitted')
  BY <1>1, <1>2, <1>4, Places, TailOnce
<1>6. ~ InHand(s) /\ ~ InHand(s)' /\ ~ InPrefill(s) /\ ~ InPrefill(s)'
  BY <1>2 DEF InHand, InPrefill, InHands
<1>7. CASE s # h
  <2>1. status'[s] = status[s]
    BY <1>2, <1>7 DEF Types, TypeOK
  <2> QED BY <1>2, <1>3, <1>5, <1>6, <1>7, <2>1, StaysInPlace
<1>8. CASE s = h
  <2>1. s \in Elements(admitted) /\ s \notin Elements(admitted')
    BY <1>5, <1>8
  <2>2. /\ s \notin Waiting /\ s \notin batch /\ status'[s] = "aborted"
        /\ \A a \in Admins : ~ TakenBy(a, s)
    BY <1>2, <1>8, <2>1 DEF InPlace, Apart, Types, TypeOK
  <2>3. OnceEverywhere(s)'
    BY <1>3, <1>5 DEF OnceEverywhere
  <2>4. Apart(s)'
    BY <1>2, <1>3, <1>6, <2>1, <2>2 DEF Apart
  <2>5. StatusFits(s)'
    BY <1>2, <1>3, <1>6, <2>1, <2>2 DEF StatusFits
  <2> QED BY <2>3, <2>4, <2>5 DEF InPlace
<1> QED BY <1>7, <1>8

(* The first of the admitted begins its prefill.                           *)
LEMMA PrefillKeepsPlace ==
    ASSUME Types, NEW s \in Seqs, InPlace(s), Prefill
    PROVE  InPlace(s)'
<1>1. PICK h : h = Head(admitted)
  OBVIOUS
<1>2. /\ UNCHANGED <<queue, walk, batch, at, target, admitted, chosen>>
      /\ pc = "admitted" /\ pc' = "prefill" /\ admitted # << >>
      /\ status' = [status EXCEPT ![h] = "running"]
  BY <1>1 DEF Prefill, qvars, iters, admin
<1>3. /\ Waiting' = Waiting /\ Once(queue', s)
      /\ \A t \in Threads : Once(walk'[t], s)
      /\ \A a \in Admins : TakenBy(a, s)' <=> TakenBy(a, s)
  BY <1>2, DequeRests
<1>4. Once(admitted', s)
  BY <1>2 DEF InPlace, OnceEverywhere
<1>5. ~ InHand(s) /\ ~ InHand(s)' /\ ~ InPrefill(s) /\ (InPrefill(s)' <=> s = h)
  BY <1>1, <1>2 DEF InHand, InPrefill, InHands
<1>6. CASE s # h
  <2>1. status'[s] = status[s]
    BY <1>2, <1>6 DEF Types, TypeOK
  <2> QED BY <1>2, <1>3, <1>4, <1>5, <1>6, <2>1, StaysInPlace
<1>7. CASE s = h
  <2>1. s \in Elements(admitted)
    BY <1>1, <1>2, <1>7, Places, TailOnce
  <2>2. /\ s \notin Waiting /\ s \notin batch /\ status'[s] = "running"
        /\ \A a \in Admins : ~ TakenBy(a, s)
        /\ \A a \in Admins : at[a] = "aborted" => s \notin target[a]
    BY <1>2, <1>5, <1>7, <2>1 DEF InPlace, Apart, StatusFits, Types, TypeOK
  <2>3. OnceEverywhere(s)'
    BY <1>3, <1>4 DEF OnceEverywhere
  <2>4. Apart(s)'
    BY <1>2, <1>3, <1>5, <2>1, <2>2 DEF Apart
  <2>5. StatusFits(s)'
    BY <1>2, <1>3, <1>5, <1>7, <2>1, <2>2 DEF StatusFits
  <2> QED BY <2>3, <2>4, <2>5 DEF InPlace
<1> QED BY <1>6, <1>7

(* It leaves the list of the admitted, for the batch or for good.          *)
LEMMA PrefilledKeepsPlace ==
    ASSUME Types, Admission, NEW s \in Seqs, InPlace(s), Prefilled
    PROVE  InPlace(s)'
<1>1. PICK h : h = Head(admitted)
  OBVIOUS
<1>2. /\ UNCHANGED <<queue, walk, at, target, chosen>>
      /\ pc = "prefill" /\ pc' = "admitted" /\ admitted # << >> /\ admitted' = Tail(admitted)
  BY DEF Prefilled, Admission, qvars, iters, admin
<1>3. PICK new : /\ new = status[h] \/ new \in Over
                 /\ status' = [status EXCEPT ![h] = new]
                 /\ batch' = IF status'[h] \in Over THEN batch ELSE batch \cup {h}
  <2>1. PICK last \in BOOLEAN :
           /\ status' = [status EXCEPT ![h] = IF WantsAbort(h) THEN "aborted"
                                              ELSE IF last THEN "finished" ELSE @]
           /\ batch' = IF status'[h] \in Over THEN batch ELSE batch \cup {h}
    BY <1>1 DEF Prefilled
  <2> QED BY <2>1 DEF Over
<1>4. /\ Waiting' = Waiting /\ Once(queue', s)
      /\ \A t \in Threads : Once(walk'[t], s)
      /\ \A a \in Admins : TakenBy(a, s)' <=> TakenBy(a, s)
  BY <1>2, DequeRests
<1>5. Once(admitted, s)
  BY DEF InPlace, OnceEverywhere
<1>6. /\ Elements(admitted) = Elements(admitted') \cup {h}
      /\ Once(admitted', s)
      /\ s = h => s \notin Elements(admitted')
  BY <1>1, <1>2, <1>5, Places, TailOnce
<1>7. ~ InHand(s) /\ ~ InHand(s)' /\ (InPrefill(s) <=> s = h) /\ ~ InPrefill(s)'
  BY <1>1, <1>2 DEF InHand, InPrefill, InHands
<1>8. CASE s # h
  <2>1. status'[s] = status[s] /\ (s \in batch' <=> s \in batch)
    BY <1>3, <1>8 DEF Types, TypeOK
  <2> QED BY <1>2, <1>4, <1>6, <1>7, <1>8, <2>1, StaysInPlace
<1>9. CASE s = h
  <2>1. s \in Elements(admitted) /\ s \notin Elements(admitted')
    BY <1>6, <1>9
  <2>2. /\ s \notin Waiting /\ s \notin batch /\ status[s] = "running"
        /\ \A a \in Admins : ~ TakenBy(a, s)
        /\ \A a \in Admins : at[a] = "aborted" => s \notin target[a]
    BY <1>7, <1>9, <2>1 DEF InPlace, Apart, StatusFits
  <2>3. status'[s] \in Over \cup {"running"} /\ (s \in batch' => status'[s] = "running")
    BY <1>3, <1>9, <2>2 DEF Types, TypeOK
  <2>4. OnceEverywhere(s)'
    BY <1>4, <1>6 DEF OnceEverywhere
  <2>5. Apart(s)'
    BY <1>2, <1>4, <1>7, <2>1, <2>2 DEF Apart
  <2>6. StatusFits(s)'
    BY <1>2, <1>4, <1>7, <1>9, <2>1, <2>2, <2>3 DEF StatusFits, Over
  <2> QED BY <2>4, <2>5, <2>6 DEF InPlace
<1> QED BY <1>8, <1>9

(* The thread's part of an iteration, and _drop_aborted of the next.       *)
LEMMA StepKeepsPlace ==
    ASSUME Types, NEW s \in Seqs, InPlace(s), Step \/ DropAborted
    PROVE  InPlace(s)'
<1>1. /\ UNCHANGED <<queue, walk, at, target, chosen, admitted>>
      /\ pc \in {"thread", "drop"} /\ pc' \in {"top", "admit"}
      /\ batch' \subseteq batch
      /\ s \notin batch => status'[s] = status[s]
      /\ s \in batch' => status'[s] = "running" \/ status'[s] = status[s]
      /\ status'[s] = status[s] \/ status'[s] \in Over
  <2>1. CASE Step
    BY <2>1 DEF Step, qvars, iters, admin, Over
  <2>2. CASE DropAborted
    BY <2>2 DEF DropAborted, qvars, iters, admin, Over
  <2> QED BY <2>1, <2>2
<1>2. /\ Waiting' = Waiting /\ Once(queue', s)
      /\ \A t \in Threads : Once(walk'[t], s)
      /\ \A a \in Admins : TakenBy(a, s)' <=> TakenBy(a, s)
  BY <1>1, DequeRests
<1>3. Once(admitted', s)
  BY <1>1 DEF InPlace, OnceEverywhere
<1>4. ~ InHand(s) /\ ~ InHand(s)' /\ ~ InPrefill(s) /\ ~ InPrefill(s)'
  BY <1>1 DEF InHand, InPrefill, InHands
<1>5. CASE s \notin batch
  BY <1>1, <1>2, <1>3, <1>4, <1>5, StaysInPlace
<1>6. CASE s \in batch
  <2>1. /\ s \notin Waiting /\ s \notin Elements(admitted) /\ status[s] = "running"
        /\ \A a \in Admins : ~ TakenBy(a, s)
        /\ \A a \in Admins : at[a] = "aborted" => s \notin target[a]
    BY <1>6 DEF InPlace, Apart, StatusFits
  <2>2. s \in batch' => status'[s] = "running"
    BY <1>1, <2>1
  <2>3. OnceEverywhere(s)'
    BY <1>2, <1>3 DEF OnceEverywhere
  <2>4. Apart(s)'
    BY <1>1, <1>2, <1>4, <2>1 DEF Apart
  <2>5. StatusFits(s)'
    BY <1>1, <1>2, <1>4, <2>1, <2>2 DEF StatusFits, Over
  <2> QED BY <2>3, <2>4, <2>5 DEF InPlace
<1> QED BY <1>5, <1>6

(* _abort_one: what the call has taken out was waiting, and is nowhere     *)
(* afterwards.                                                             *)
LEMMA AbortKeepsPlace ==
    ASSUME Types, Calls, NEW s \in Seqs, InPlace(s), NEW a \in Admins, AbortWaiting(a)
    PROVE  InPlace(s)'
<1>1. /\ UNCHANGED <<queue, batch, pc, chosen, admitted, target>>
      /\ at[a] = "abort" /\ at' = [at EXCEPT ![a] = "aborted"]
      /\ status'[s] = IF s \in target[a] THEN "aborted" ELSE status[s]
  BY DEF AbortWaiting, Goto, qvars, run
<1>2. /\ at'[a] = "aborted"
      /\ \A b \in Admins \ {a} : at'[b] = at[b] /\ walk'[b] = walk[b]
      /\ \A t \in Threads : walk'[t] \in {walk[t], << >>}
  <2>1. at'[a] = "aborted" /\ \A b \in Admins \ {a} : at'[b] = at[b]
    BY <1>1 DEF Types, TypeOK
  <2>2. \A t \in Threads : walk'[t] = IF t = a THEN << >> ELSE walk[t]
    BY DEF AbortWaiting, Forget, Types, TypeOK
  <2> QED BY <2>1, <2>2, Places
<1>3. Waiting' = Waiting
  BY <1>1 DEF Waiting
<1>4. Once(queue', s) /\ Once(admitted', s) /\ \A t \in Threads : Once(walk'[t], s)
  BY <1>1, <1>2, EmptyList DEF InPlace, OnceEverywhere
<1>5. (InHand(s)' <=> InHand(s)) /\ (InPrefill(s)' <=> InPrefill(s))
  BY <1>1 DEF InHand, InPrefill
<1>6. /\ TakenBy(a, s) <=> s \in target[a]
      /\ ~ TakenBy(a, s)'
      /\ \A b \in Admins \ {a} : TakenBy(b, s)' <=> TakenBy(b, s)
  BY <1>1, <1>2 DEF TakenBy, Calls, Removed
<1>7. CASE s \notin target[a]
  <2>1. \A b \in Admins : TakenBy(b, s)' <=> TakenBy(b, s)
    BY <1>6, <1>7
  <2>2. \A b \in Admins : at'[b] = "aborted" /\ s \in target'[b] => at[b] = "aborted" /\ s \in target[b]
    BY <1>1, <1>2, <1>7
  <2> QED BY <1>1, <1>3, <1>4, <1>5, <1>7, <2>1, <2>2, StaysInPlace
<1>8. CASE s \in target[a]
  <2>1. /\ s \notin Waiting /\ ~ InHand(s) /\ s \notin Elements(admitted) /\ s \notin batch
        /\ \A b \in Admins : TakenBy(b, s) => a = b
    BY <1>6, <1>8 DEF InPlace, Apart
  <2>2. \A b \in Admins : ~ TakenBy(b, s)'
    BY <1>6, <2>1
  <2>3. OnceEverywhere(s)'
    BY <1>4 DEF OnceEverywhere
  <2>4. Apart(s)'
    BY <1>1, <1>3, <1>5, <2>1, <2>2 DEF Apart
  <2>5. StatusFits(s)'
    BY <1>1, <1>3, <1>5, <1>8, <2>1, <2>2 DEF StatusFits
  <2> QED BY <2>3, <2>4, <2>5 DEF InPlace
<1> QED BY <1>7, <1>8

(* Whatever the step, who is not excepted stays in place.                  *)
LEMMA PlacedNext ==
    ASSUME Types, Known, Iterators, Calls, Admission, Placed, [Next]_vars
    PROVE  Placed'
<1> SUFFICES ASSUME NEW s \in Seqs, s \notin crossed'
             PROVE  InPlace(s)'
  BY DEF Placed
<1>1. InPlace(s)
  BY CrossedGrows DEF Placed
<1>2. ASSUME NEW u \in Seqs, Enqueue(u)
      PROVE  InPlace(s)'
  BY <1>1, <1>2, EnqueueKeepsPlace
<1>3. CASE \/ SetEvent \/ Top \/ Woken \/ Choose \/ RemoveWalk \/ AdmitDone \/ Decode
           \/ AfterPop \/ ClearEvent \/ PushEvent
  BY <1>1, <1>3, LoopLeavesInPlace
<1>4. CASE Pop
  BY <1>1, <1>4, PopKeepsPlace
<1>5. CASE RemoveChosen
  BY <1>1, <1>5, RemoveChosenKeepsPlace
<1>6. CASE Refuse
  BY <1>1, <1>6, RefuseKeepsPlace
<1>7. CASE Allocate
  BY <1>1, <1>7, AllocateKeepsPlace
<1>8. CASE Skip
  BY <1>1, <1>8, SkipKeepsPlace
<1>9. CASE Prefill
  BY <1>1, <1>9, PrefillKeepsPlace
<1>10. CASE Prefilled
  BY <1>1, <1>10, PrefilledKeepsPlace
<1>11. CASE Step \/ DropAborted
  BY <1>1, <1>11, StepKeepsPlace
<1>12. ASSUME NEW a \in Admins, \/ \E u \in Seqs : Find(a, u)
                                \/ BeginRemove(a) \/ Raise(a) \/ Clear(a) \/ FlagRunning(a)
       PROVE  InPlace(s)'
  BY <1>1, <1>12, CallLeavesInPlace
<1>13. ASSUME NEW a \in Admins, RemoveWaiting(a)
       PROVE  InPlace(s)'
  BY <1>1, <1>13, RemoveWaitingKeepsPlace
<1>14. ASSUME NEW a \in Admins, AbortWaiting(a)
       PROVE  InPlace(s)'
  BY <1>1, <1>14, AbortKeepsPlace
<1>15. CASE UNCHANGED vars
  BY <1>1, <1>15 DEF vars, qvars, reqs, run, iters, admin, InPlace, OnceEverywhere, Apart, StatusFits,
                     Waiting, InHand, InPrefill, TakenBy
<1> QED BY <1>2, <1>3, <1>4, <1>5, <1>6, <1>7, <1>8, <1>9, <1>10, <1>11, <1>12, <1>13, <1>14, <1>15
        DEF Next, EventLoop, AdminThread

-----------------------------------------------------------------------------
(* Who has gone past the assignment stays there, with its target.          *)
LEMMA PastStays ==
    ASSUME Types, [Next]_vars, NEW a \in Admins, Past(a)
    PROVE  Past(a)' /\ target'[a] = target[a]
<1>0. /\ at \in [Admins -> {"idle", "found", "remove", "clear", "abort", "flag", "aborted", "flagged"}]
      /\ target \in [Admins -> SUBSET Seqs]
  BY DEF Types, TypeOK
<1>1. CASE UNCHANGED <<at, target>>
  BY <1>1 DEF Past
<1>2. CASE EventLoop
  BY <1>1, <1>2 DEF EventLoop, Enqueue, SetEvent, Top, Woken, DropAborted, Choose, Pop, AfterPop,
                    RemoveWalk, RemoveChosen, ClearEvent, Refuse, PushEvent, Allocate, AdmitDone,
                    Skip, Prefill, Prefilled, Decode, Step, admin
<1>3. ASSUME NEW b \in Admins, (\E s \in Seqs : Find(b, s)) \/ BeginRemove(b) \/ Raise(b) \/ RemoveWaiting(b)
      PROVE  Past(a)' /\ target'[a] = target[a]
  <2>1. a # b
    BY <1>3 DEF Find, BeginRemove, Raise, RemoveWaiting, Past
  <2> QED BY <1>0, <1>3, <2>1 DEF Find, BeginRemove, Raise, RemoveWaiting, Goto, Past
<1>4. ASSUME NEW b \in Admins, Clear(b) \/ AbortWaiting(b) \/ FlagRunning(b)
      PROVE  Past(a)' /\ target'[a] = target[a]
  BY <1>0, <1>4 DEF Clear, AbortWaiting, FlagRunning, Goto, Past
<1>5. CASE UNCHANGED vars
  BY <1>1, <1>5 DEF vars, admin
<1> QED BY <1>2, <1>3, <1>4, <1>5 DEF Next, AdminThread

(* Replace alone overtakes, and who replaces is past it.                   *)
LEMMA OvertakenNext ==
    ASSUME Types, Iterators, policy = "fcfs", Overtaken, [Next]_vars
    PROVE  Overtaken'
<1>0. \A b \in Admins : Past(b) => Past(b)'
  BY PastStays
<1>1. ASSUME \A a \in Admins : iter'[a] = "replaced" => iter[a] = "replaced"
      PROVE  Overtaken'
  BY <1>0, <1>1 DEF Overtaken
<1>2. ASSUME NEW new, Mutate(new)
      PROVE  Overtaken'
  BY <1>1, <1>2, MutateFacts, Places
<1>3. CASE UNCHANGED iter
  BY <1>1, <1>3
<1>4. ASSUME NEW s \in Seqs, Enqueue(s)
      PROVE  Overtaken'
  BY <1>2, <1>4 DEF Enqueue
<1>5. CASE Pop
  BY <1>2, <1>3, <1>5 DEF Pop, iters
<1>6. CASE Refuse
  BY <1>2, <1>6 DEF Refuse
<1>7. CASE RemoveWalk \/ RemoveChosen
  BY <1>7 DEF RemoveWalk, RemoveChosen, Iterators
<1>8. CASE \/ SetEvent \/ Top \/ Woken \/ DropAborted \/ Choose \/ AfterPop \/ ClearEvent \/ PushEvent
           \/ Allocate \/ AdmitDone \/ Skip \/ Prefill \/ Prefilled \/ Decode \/ Step
  BY <1>3, <1>8 DEF SetEvent, Top, Woken, DropAborted, Choose, AfterPop, ClearEvent, PushEvent,
                    Allocate, AdmitDone, Skip, Prefill, Prefilled, Decode, Step, iters
<1>9. ASSUME NEW a \in Admins, (\E s \in Seqs : Find(a, s)) \/ Clear(a)
      PROVE  Overtaken'
  BY <1>3, <1>9 DEF Find, Clear, iters
<1>10. ASSUME NEW a \in Admins, BeginRemove(a) \/ Raise(a) \/ AbortWaiting(a) \/ FlagRunning(a)
       PROVE  Overtaken'
  <2>1. \A t \in Threads : iter'[t] \in {iter[t], "current", "none"}
    BY <1>10 DEF BeginRemove, Raise, AbortWaiting, FlagRunning, Iterate, Forget, Types, TypeOK
  <2> QED BY <1>1, <2>1, Places
<1>11. ASSUME NEW a \in Admins, RemoveWaiting(a)
       PROVE  Overtaken'
  <2>1. PICK u \in target[a] : Replace(a, u)
    BY <1>11 DEF RemoveWaiting
  <2>2. iter'[a] = "none"
    BY <2>1, Places, ReplaceFacts
  <2>3. Past(a)'
    BY <1>11 DEF RemoveWaiting, Goto, Past, Types, TypeOK
  <2> QED BY <2>2, <2>3 DEF Overtaken
<1>12. CASE UNCHANGED vars
  BY <1>3, <1>12 DEF vars, iters
<1> QED BY <1>4, <1>5, <1>6, <1>7, <1>8, <1>9, <1>10, <1>11, <1>12 DEF Next, EventLoop, AdminThread

(* The head stays what was chosen, unless remove() takes it.               *)
LEMMA ForeseenNext ==
    ASSUME Types, Iterators, policy = "fcfs", Overtaken,
           pc = "chosen" => Foreseen, [Next]_vars, pc' = "chosen"
    PROVE  Foreseen'
<1>0. \A b \in Admins : Past(b) => Past(b)' /\ target'[b] = target[b]
  BY PastStays
<1>1. CASE Choose
  <2>1. queue # << >> /\ chosen' = {queue[1]} /\ queue' = queue
    BY <1>1 DEF Choose, qvars
  <2>2. Head(queue) = queue[1]
    BY <2>1, Places, ListFacts
  <2> QED BY <2>1, <2>2 DEF Foreseen
<1>2. CASE pc = "chosen" /\ UNCHANGED <<queue, chosen>>
  BY <1>0, <1>2 DEF Foreseen
<1>3. CASE SetEvent
  BY <1>2, <1>3 DEF SetEvent, WakeRun
<1>4. CASE \/ \E s \in Seqs : Enqueue(s)
           \/ Top \/ Woken \/ DropAborted \/ Pop \/ AfterPop \/ RemoveWalk \/ RemoveChosen
           \/ ClearEvent \/ Refuse \/ PushEvent \/ Allocate \/ AdmitDone
           \/ Skip \/ Prefill \/ Prefilled \/ Decode \/ Step
  BY <1>4 DEF Enqueue, LoopFree, run, Top, Woken, DropAborted, Pop, AfterPop, RemoveWalk,
              RemoveChosen, ClearEvent, Refuse, PushEvent, Allocate, AdmitDone, Skip, Prefill,
              Prefilled, Decode, Step
<1>5. ASSUME NEW a \in Admins, \/ \E s \in Seqs : Find(a, s)
                               \/ BeginRemove(a) \/ Raise(a) \/ Clear(a) \/ AbortWaiting(a)
                               \/ FlagRunning(a)
      PROVE  Foreseen'
  BY <1>2, <1>5 DEF Find, BeginRemove, Raise, Clear, AbortWaiting, FlagRunning, qvars, run
<1>6. ASSUME NEW a \in Admins, RemoveWaiting(a)
      PROVE  Foreseen'
  <2>1. PICK u \in target[a] : Replace(a, u)
    BY <1>6 DEF RemoveWaiting
  <2>2. /\ pc = "chosen" /\ UNCHANGED <<chosen, target>> /\ Past(a)' /\ ~ Past(a)
        /\ iter[a] \in {"current", "replaced"}
    BY <1>6, Places DEF RemoveWaiting, run, Goto, Past, Types, TypeOK, Iterators
  <2>3. CASE iter[a] = "replaced"
    BY <1>0, <2>2, <2>3 DEF Overtaken, Foreseen
  <2>4. CASE iter[a] = "current" /\ queue # << >> /\ chosen = {Head(queue)}
    <3>1. queue' = RemoveFirst(queue, u)
      BY <2>1, <2>4, Places DEF Replace, Iterators
    <3>2. CASE Head(queue) = u
      BY <2>1, <2>2, <2>4, <3>2 DEF Foreseen
    <3>3. CASE Head(queue) # u
      <4>1. queue \in Seq(Seqs)
        BY Places
      <4>2. queue' # << >> /\ Head(queue') = Head(queue)
        BY <2>4, <3>1, <3>3, <4>1, RemoveOnce
      <4> QED BY <2>2, <2>4, <4>2 DEF Foreseen
    <3> QED BY <3>2, <3>3
  <2>5. CASE \/ \E b \in Admins : Past(b) /\ chosen \subseteq target[b]
             \/ \E b, d \in Admins : b # d /\ Past(b) /\ Past(d)
    BY <1>0, <2>2, <2>5 DEF Foreseen
  <2> QED BY <2>2, <2>3, <2>4, <2>5 DEF Foreseen
<1>7. CASE UNCHANGED vars
  BY <1>2, <1>7 DEF vars, qvars, run
<1> QED BY <1>1, <1>3, <1>4, <1>5, <1>6, <1>7 DEF Next, EventLoop, AdminThread

(* Both together.                                                          *)
LEMMA CrossingNext ==
    ASSUME Types, Iterators, Crossing, [Next]_vars
    PROVE  Crossing'
<1>1. policy' = policy
  BY DEF Next, EventLoop, AdminThread, vars, Enqueue, SetEvent, Top, Woken, DropAborted, Choose,
         Pop, AfterPop, RemoveWalk, RemoveChosen, ClearEvent, Refuse, PushEvent, Allocate, AdmitDone,
         Skip, Prefill, Prefilled, Decode, Step, Find,
         BeginRemove, Raise, RemoveWaiting, Clear, AbortWaiting, FlagRunning
<1> QED BY <1>1, OvertakenNext, ForeseenNext DEF Crossing

(* The event.                                                              *)
LEMMA EventNext ==
    ASSUME Types, EventTellsTheQueue, [Next]_vars
    PROVE  EventTellsTheQueue'
<1> DEFINE Sleep == pc = "asleep" /\ queue # << >> => setting \/ crossed # {}
           Clearing == \E a \in Admins : at[a] = "clear"
           Set == event /\ queue = << >> => spurious \/ pc \in {"popped", "clear"} \/ Clearing
<1>1. EventTellsTheQueue <=> Sleep /\ Set
  BY DEF EventTellsTheQueue
<1>2. ASSUME Sleep', Set'
      PROVE  EventTellsTheQueue'
  BY <1>2 DEF EventTellsTheQueue
<1>3. crossed \subseteq crossed'
  BY CrossedGrows
<1>4. Sleep'
  <2>1. CASE queue' = queue /\ (pc' = "asleep" => pc = "asleep") /\ setting' = setting
    BY <1>1, <1>3, <2>1
  <2>2. CASE pc' # "asleep"
    BY <2>2
  <2>3. CASE setting' = TRUE
    BY <2>3
  <2>4. CASE SetEvent
    BY <2>2, <2>4 DEF SetEvent, WakeRun
  <2>5. CASE Top
    BY <2>5 DEF Top, qvars
  <2>6. CASE \/ \E s \in Seqs : Enqueue(s)
             \/ Woken \/ DropAborted \/ Choose \/ Pop \/ AfterPop \/ RemoveWalk \/ RemoveChosen
             \/ ClearEvent \/ Refuse \/ PushEvent \/ Allocate \/ AdmitDone \/ Prefill \/ Prefilled
             \/ Decode \/ Step
    BY <2>2, <2>3, <2>6 DEF Enqueue, Woken, DropAborted, Choose, Pop, AfterPop, RemoveWalk,
                            RemoveChosen, ClearEvent, Refuse, PushEvent, Allocate, AdmitDone, Prefill,
                            Prefilled, Decode, Step
  <2>7. CASE Skip
    BY <2>2, <2>7 DEF Skip
  <2>8. ASSUME NEW a \in Admins, \/ \E s \in Seqs : Find(a, s)
                                 \/ BeginRemove(a) \/ Raise(a) \/ Clear(a) \/ AbortWaiting(a)
                                 \/ FlagRunning(a)
        PROVE  Sleep'
    BY <2>1, <2>8 DEF Find, BeginRemove, Raise, Clear, AbortWaiting, FlagRunning, qvars, run
  <2>9. ASSUME NEW a \in Admins, RemoveWaiting(a), queue' # << >>, pc' = "asleep"
        PROVE  setting' \/ crossed' # {}
    <3>1. PICK u \in target[a] : Replace(a, u)
      BY <2>9 DEF RemoveWaiting
    <3>2. crossed' = crossed \cup Undone(a) /\ UNCHANGED <<pc, setting>>
      BY <2>9 DEF RemoveWaiting, run
    <3>3. CASE queue # << >>
      BY <1>1, <1>3, <2>9, <3>2, <3>3
    <3>4. CASE queue = << >>
      <4>1. Waiting = {}
        BY <3>4, Places
      <4>2. queue' \in Seq(Seqs)
        BY <3>1, Places, RemoveOnce DEF Replace
      <4>3. Waiting' # {}
        BY <2>9, <4>2, ListFacts DEF Waiting, Elements
      <4>4. Waiting' \subseteq Elements(walk[a])
        BY <3>1, Places, ReplaceFacts
      <4> QED BY <3>2, <4>1, <4>3, <4>4 DEF Undone
    <3> QED BY <3>3, <3>4
  <2>10. CASE UNCHANGED vars
    BY <2>1, <2>10 DEF vars, qvars, run
  <2> QED BY <2>4, <2>5, <2>6, <2>7, <2>8, <2>9, <2>10 DEF Next, EventLoop, AdminThread
<1>5. Set'
  <2>1. ASSUME queue' = queue, event' = event, spurious' = spurious, Clearing => Clearing',
               pc \in {"popped", "clear"} => pc' \in {"popped", "clear"}
        PROVE  Set'
    BY <1>1, <2>1
  <2>2. ASSUME UNCHANGED <<queue, event, spurious, at>>,
               pc \in {"popped", "clear"} => pc' \in {"popped", "clear"}
        PROVE  Set'
    BY <2>1, <2>2
  <2>3. CASE queue' # << >>
    BY <2>3
  <2>4. ASSUME NEW s \in Seqs, Enqueue(s)
        PROVE  Set'
    <3>1. queue' = Append(queue, s) /\ queue \in Seq(Seqs)
      BY <2>4, Places DEF Enqueue, Mutate
    <3>2. Append(queue, s) # << >>
      BY <3>1, AppendOnce
    <3> QED BY <2>3, <3>1, <3>2
  <2>5. CASE SetEvent
    BY <2>5 DEF SetEvent
  <2>6. CASE \/ Top \/ Woken \/ DropAborted \/ Choose \/ RemoveWalk \/ Allocate \/ AdmitDone
             \/ Skip \/ Prefill \/ Prefilled \/ Decode \/ Step
    BY <2>2, <2>6 DEF Top, Woken, DropAborted, Choose, RemoveWalk, Allocate, AdmitDone, Skip, Prefill,
                      Prefilled,
                      Decode, Step, qvars, admin, history
  <2>7. CASE Pop
    <3>1. CASE queue = << >>
      BY <2>2, <2>7, <3>1 DEF Pop, admin
    <3>2. CASE queue # << >>
      BY <2>7, <3>2 DEF Pop
    <3> QED BY <3>1, <3>2
  <2>8. CASE RemoveChosen \/ ClearEvent
    BY <2>8 DEF RemoveChosen, ClearEvent
  <2>14. CASE AfterPop
    BY <2>1, <2>3, <2>14 DEF AfterPop, qvars, admin, history
  <2>15. CASE PushEvent
    BY <2>15 DEF PushEvent
  <2>9. CASE Refuse
    <3>1. PICK s \in Seqs : Mutate(Cons(s, queue))
      BY <2>9, Places DEF Refuse
    <3> QED BY <2>3, <3>1, PushFront DEF Mutate
  <2>10. ASSUME NEW a \in Admins, \/ \E s \in Seqs : Find(a, s)
                                  \/ BeginRemove(a) \/ Raise(a) \/ AbortWaiting(a) \/ FlagRunning(a)
         PROVE  Set'
    <3>1. UNCHANGED <<queue, event, spurious, pc>> /\ at[a] # "clear" /\ \A b \in Admins \ {a} : at'[b] = at[b]
      BY <2>10 DEF Find, BeginRemove, Raise, AbortWaiting, FlagRunning, Goto, qvars, run, history,
                   Types, TypeOK
    <3> QED BY <2>1, <3>1
  <2>11. ASSUME NEW a \in Admins, RemoveWaiting(a)
         PROVE  Set'
    <3>1. queue' = << >> => at'[a] = "clear"
      BY <2>11 DEF RemoveWaiting, Goto, Types, TypeOK
    <3> QED BY <3>1
  <2>12. ASSUME NEW a \in Admins, Clear(a)
         PROVE  Set'
    BY <2>12 DEF Clear
  <2>13. CASE UNCHANGED vars
    BY <2>2, <2>13 DEF vars, qvars, run, admin, history
  <2> QED BY <2>4, <2>5, <2>6, <2>7, <2>8, <2>9, <2>10, <2>11, <2>12, <2>13,
             <2>14, <2>15
          DEF Next, EventLoop, AdminThread
<1> HIDE DEF Sleep, Set
<1> QED BY <1>2, <1>4, <1>5

-----------------------------------------------------------------------------
(* The invariant is inductive.                                             *)
LEMMA InitInv == Init => IInv
<1> SUFFICES ASSUME Init
             PROVE  IInv
  OBVIOUS
<1>1. /\ queue = << >> /\ admitted = << >> /\ \A t \in Threads : walk[t] = << >> /\ iter[t] = "none"
      /\ batch = {} /\ chosen = {} /\ crossed = {} /\ pc = "top" /\ event = FALSE
      /\ \A a \in Admins : at[a] = "idle" /\ target[a] = {}
      /\ \A s \in Seqs : status[s] = "new"
  BY DEF Init
<1>2. << >> \in Seq(Seqs) /\ Len(<< >>) = 0
  OBVIOUS
<1>3. IsFiniteSet({}) /\ Cardinality({}) = 0
  BY FS_EmptySet
<1>4. Types
  <2>1. Cardinality(batch) + Len(admitted) + Cardinality(chosen) <= MaxBatch
    BY <1>1, <1>2, <1>3, BatchAssumption
  <2>2. RestTypes
    <3>1. /\ policy \in {"fcfs", "memory_fit"} /\ event \in BOOLEAN
          /\ status \in [Seqs -> {"new", "waiting", "running"} \cup Over]
          /\ abort \in [Seqs -> BOOLEAN]
          /\ setting \in BOOLEAN /\ spurious \in BOOLEAN
      BY DEF Init
    <3>2. /\ at \in [Admins -> {"idle", "found", "remove", "clear", "abort", "flag",
                                "aborted", "flagged"}]
          /\ target \in [Admins -> SUBSET Seqs]
      BY DEF Init
    <3> QED BY <1>1, <1>2, <3>1, <3>2 DEF RestTypes, InHands
  <2>3. QueueTypes
    BY <1>2 DEF Init, QueueTypes
  <2> QED BY <1>1, <1>3, <2>1, <2>2, <2>3, TypesParts DEF RoomLeft
<1>5. /\ Waiting = {} /\ Elements(admitted) = {} /\ \A t \in Threads : Elements(walk[t]) = {}
      /\ \A s : Once(queue, s) /\ Once(admitted, s) /\ \A t \in Threads : Once(walk[t], s)
  BY <1>1, <1>4, EmptyList, Places
<1>6. Known
  BY <1>1, <1>5 DEF Known
<1>7. Iterators
  BY <1>1, <1>4, Places DEF Iterators
<1>8. Calls
  BY <1>1 DEF Calls
<1>9. Admission
  BY <1>1 DEF Admission
<1>10. Placed
  <2> SUFFICES ASSUME NEW s \in Seqs
               PROVE  InPlace(s)
    BY DEF Placed
  <2>1. ~ InHand(s) /\ ~ InPrefill(s) /\ \A a \in Admins : ~ TakenBy(a, s)
    BY <1>1 DEF InHand, InPrefill, TakenBy
  <2>2. OnceEverywhere(s)
    BY <1>5 DEF OnceEverywhere
  <2>3. Apart(s)
    BY <1>1, <1>5, <2>1 DEF Apart
  <2>4. StatusFits(s)
    BY <1>1, <1>5, <2>1 DEF StatusFits
  <2> QED BY <2>2, <2>3, <2>4 DEF InPlace
<1>11. Crossing
  BY <1>1, <1>4, Places DEF Crossing, Overtaken
<1>12. EventTellsTheQueue
  BY <1>1 DEF EventTellsTheQueue
<1> QED BY <1>4, <1>6, <1>7, <1>8, <1>9, <1>10, <1>11, <1>12 DEF IInv

(* And every step keeps it.                                                *)
LEMMA NextInv == IInv /\ [Next]_vars => IInv'
<1> SUFFICES ASSUME IInv, [Next]_vars
             PROVE  IInv'
  OBVIOUS
<1>1. Types /\ Known /\ Iterators /\ Calls /\ Admission /\ Placed /\ Crossing /\ EventTellsTheQueue
  BY DEF IInv
<1>2. Types' /\ Admission'
  BY <1>1, TypesNext, AdmissionNext
<1>3. Known'
  BY <1>1, KnownNext
<1>4. Iterators'
  BY <1>1, IteratorsNext
<1>5. Calls'
  BY <1>1, CallsNext
<1>6. Placed'
  BY <1>1, PlacedNext
<1>7. Crossing'
  BY <1>1, CrossingNext
<1>8. EventTellsTheQueue'
  BY <1>1, EventNext
<1> QED BY <1>2, <1>3, <1>4, <1>5, <1>6, <1>7, <1>8 DEF IInv

(* So it holds in every state.                                             *)
LEMMA Invariant == Spec => []IInv
BY InitInv, NextInv, PTL DEF Spec

-----------------------------------------------------------------------------
(* The theorems.                                                           *)

(* The types, and the room: however the handlers, run() and the calls of   *)
(* admin_abort interleave, never are more than max_batch sequences between *)
(* their admission and their end.                                          *)
THEOREM TypeCorrect == Spec => []TypeOK
<1>1. IInv => TypeOK
  BY DEF IInv, Types
<1> QED BY <1>1, Invariant, PTL

(* What is in its place is in one place: what a call has taken out it has  *)
(* found, its target being one sequence.                                   *)
LEMMA PlacedInOnePlace ==
    ASSUME Types, Placed
    PROVE  OnePlace
<1> SUFFICES ASSUME NEW s \in Seqs \ crossed
             PROVE  /\ Once(queue, s)
                    /\ status[s] = "waiting" => s \in Waiting \cup Admitting \cup TakenOut
                    /\ s \in Waiting => status[s] = "waiting"
                    /\ ~ (s \in Waiting /\ s \in Admitting)
  BY DEF OnePlace
<1>1. OnceEverywhere(s) /\ Apart(s) /\ StatusFits(s)
  BY DEF Placed, InPlace
<1>2. s \in Admitting <=> InHand(s) \/ s \in Elements(admitted)
  BY DEF Admitting, InHand
<1>3. ASSUME NEW a \in Admins, TakenBy(a, s)
      PROVE  s \in TakenOut
  <2>1. Removed(a)
    BY <1>3 DEF TakenBy, Removed, Types
  <2> QED BY <1>3, <2>1 DEF TakenBy, TakenOut
<1>4. Once(queue, s)
  BY <1>1 DEF OnceEverywhere
<1>5. status[s] = "waiting" => s \in Waiting \cup Admitting \cup TakenOut
  BY <1>1, <1>2, <1>3 DEF StatusFits
<1>6. s \in Waiting => status[s] = "waiting"
  BY <1>1 DEF StatusFits
<1>7. ~ (s \in Waiting /\ s \in Admitting)
  BY <1>1, <1>2 DEF Apart
<1> QED BY <1>4, <1>5, <1>6, <1>7

(* No request is lost and none is in two places: one that waits is in the  *)
(* queue, in the hands of the admission, among the admitted, or taken out  *)
(* by one admin_abort that will finish it; and nothing else is queued.     *)
(* Excepted are those that two operations crossed on.                      *)
THEOREM AlwaysOnePlace == Spec => []OnePlace
<1>1. IInv => OnePlace
  BY PlacedInOnePlace DEF IInv
<1> QED BY <1>1, Invariant, PTL

(* The status and the flag behind the two answers of admin_abort.          *)
LEMMA CallsKeepAborts ==
    ASSUME Types, Calls, Placed
    PROVE  AbortIsKept
<1> SUFFICES ASSUME NEW a \in Admins, NEW s \in target[a] \ crossed
             PROVE  /\ at[a] = "aborted" => status[s] = "aborted"
                    /\ at[a] = "flagged" => status[s] \in Over \/ abort[s]
  BY DEF AbortIsKept
<1>1. s \in Seqs
  BY Places
<1>2. at[a] = "aborted" => status[s] = "aborted"
  BY <1>1 DEF Placed, InPlace, StatusFits
<1>3. at[a] = "flagged" => abort[s]
  BY DEF Calls
<1> QED BY <1>2, <1>3

(* When admin_abort has answered that it aborted a request, the request is *)
(* over and no step of the loop makes it run again; when it has asked for  *)
(* the abort, the flag is there for the loop to see.                       *)
THEOREM AbortsAreKept == Spec => []AbortIsKept
<1>1. IInv => AbortIsKept
  BY CallsKeepAborts DEF IInv
<1> QED BY <1>1, Invariant, PTL

(* run() does not sleep while somebody waits, but for the moment between   *)
(* the append and the set() of try_enqueue and once operations have        *)
(* crossed.  On an empty queue the event is set only until a removal that  *)
(* has emptied it clears it, or when the last set() came too late: of      *)
(* try_enqueue or push_front, after an admin_abort had emptied the queue.  *)
THEOREM EventAlwaysTells == Spec => []EventTellsTheQueue
<1>1. IInv => EventTellsTheQueue
  BY DEF IInv
<1> QED BY <1>1, Invariant, PTL

(* The three steps that add to crossed, and who is where then.             *)
LEMMA CrossingStep ==
    ASSUME Types, Iterators, Crossing, [Next]_vars, crossed' # crossed
    PROVE  \/ pc = "chosen" /\ \E a \in Admins : chosen \subseteq target[a]
           \/ \E a, b \in BegunToRemove : a # b
           \/ policy = "memory_fit"
<1>1. \A a \in Admins : Past(a) => a \in BegunToRemove
  BY DEF Past, BegunToRemove
<1>2. policy \in {"fcfs", "memory_fit"}
  BY DEF Types, TypeOK
<1>3. CASE Pop
  <2>1. pc = "chosen" /\ policy = "fcfs" /\ Popped # chosen
    BY <1>3 DEF Pop
  <2>2. Foreseen
    BY <2>1 DEF Crossing
  <2>3. ~ (queue # << >> /\ chosen = {Head(queue)})
    BY <2>1 DEF Popped
  <2> QED BY <1>1, <2>1, <2>2, <2>3 DEF Foreseen
<1>4. CASE RemoveChosen
  BY <1>4 DEF RemoveChosen, Iterators
<1>5. ASSUME NEW a \in Admins, RemoveWaiting(a), policy = "fcfs"
      PROVE  \E b, c \in BegunToRemove : b # c
  <2>1. /\ at[a] = "remove" /\ iter[a] \in {"current", "replaced"} /\ Undone(a) # {}
        /\ a \in BegunToRemove
    BY <1>5, Places DEF RemoveWaiting, Iterators, Types, TypeOK, BegunToRemove
  <2>2. iter[a] # "current"
    <3>1. iter[a] = "current" => Elements(walk[a]) = Waiting
      BY Places DEF Iterators
    <3> QED BY <2>1, <3>1 DEF Undone
  <2>3. PICK b \in Admins \ {a} : Past(b)
    BY <1>5, <2>1, <2>2 DEF Crossing, Overtaken
  <2> QED BY <1>1, <2>1, <2>3
<1>6. CASE UNCHANGED crossed
  BY <1>6
<1>7. CASE \/ SetEvent \/ Top \/ Woken \/ DropAborted \/ Choose \/ AfterPop \/ RemoveWalk \/ ClearEvent
           \/ Refuse \/ PushEvent \/ Allocate \/ AdmitDone
           \/ Skip \/ Prefill \/ Prefilled \/ Decode \/ Step \/ \E s \in Seqs : Enqueue(s)
  BY <1>7 DEF SetEvent, Top, Woken, DropAborted, Choose, AfterPop, RemoveWalk, ClearEvent,
                    Refuse, PushEvent, Allocate, AdmitDone, Skip,
              Prefill, Prefilled, Decode, Step, Enqueue, history
<1>8. ASSUME NEW a \in Admins, \/ \E s \in Seqs : Find(a, s)
                               \/ BeginRemove(a) \/ Raise(a) \/ Clear(a) \/ AbortWaiting(a)
                               \/ FlagRunning(a)
      PROVE  FALSE
  BY <1>8 DEF Find, BeginRemove, Raise, Clear, AbortWaiting, FlagRunning, history
<1>9. CASE UNCHANGED vars
  BY <1>9 DEF vars, history
<1> QED BY <1>2, <1>3, <1>4, <1>5, <1>7, <1>8, <1>9 DEF Next, EventLoop, AdminThread

(* What is excepted is rare: under fcfs two operations cross only when the *)
(* very request that is being admitted is aborted, or two calls of         *)
(* admin_abort are past their walks' beginnings at a time.                 *)
THEOREM CrossingsStayRare == Spec => CrossingsAreRare
<1>1. IInv /\ [Next]_vars =>
         [crossed' # crossed =>
            \/ pc = "chosen" /\ \E a \in Admins : chosen \subseteq target[a]
            \/ \E a, b \in BegunToRemove : a # b
            \/ policy = "memory_fit"]_vars
  BY CrossingStep DEF IInv
<1> QED BY <1>1, Invariant, PTL DEF Spec, CrossingsAreRare
=============================================================================
