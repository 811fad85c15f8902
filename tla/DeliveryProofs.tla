--------------------------- MODULE DeliveryProofs ----------------------------
(***************************************************************************)
(* What a client is told and what it receives, for every max_tokens.       *)
(***************************************************************************)
EXTENDS Delivery, WellFoundedInduction, TLAPS

-----------------------------------------------------------------------------
(* Induction, without the theorems of the library that take a predicate:   *)
(* every set of numbers that is not empty has a least one, because < is    *)
(* well-founded.                                                           *)
LEMMA LeastNumber ==
  ASSUME NEW S \in SUBSET Nat, S # {}
  PROVE  \E m \in S : \A k \in S : m <= k
<1> DEFINE R == OpToRel(<, Nat)
<1>1. IsWellFoundedOn(R, Nat)
  BY NatLessThanWellFounded, Zenon
<1>2. \A x, y \in Nat : <<x, y>> \notin R => y <= x
  BY DEF OpToRel
<1> HIDE DEF R
<1>3. PICK m \in S : \A k \in S : <<k, m>> \notin R
  BY <1>1, WFMin, Zenon
<1>4. \A k \in S : k \in Nat /\ m \in Nat
  OBVIOUS
<1> QED BY <1>2, <1>3, <1>4, Zenon

(* So a set of numbers that has 0, and with each number the next, has all  *)
(* of them.                                                                *)
LEMMA Induction ==
  ASSUME NEW S \in SUBSET Nat, 0 \in S, \A n \in S : n + 1 \in S
  PROVE  S = Nat
<1>1. SUFFICES ASSUME Nat \ S # {} PROVE FALSE
  OBVIOUS
<1>2. PICK m \in Nat \ S : \A k \in Nat \ S : m <= k
  BY <1>1, LeastNumber
<1>3. m # 0 /\ m - 1 \in Nat
  BY <1>2
<1>4. m - 1 \in S
  BY <1>2, <1>3
<1> QED BY <1>4, <1>2

(* FlattenSeq defines a function recursively: f[i] is the first i          *)
(* sequences of s put together.                                            *)
Joining(s, f, n) == f = [i \in 1 .. n |-> IF i = 1 THEN s[i] ELSE f[i - 1] \o s[i]]

(* What FlattenSeq computes is the last value of such a function.          *)
LEMMA FlattenIsJoin ==
  ASSUME NEW s, Len(s) # 0
  PROVE  FlattenSeq(s) = (CHOOSE f : Joining(s, f, Len(s)))[Len(s)]
BY Zenon DEF FlattenSeq, Joining

(* There is such a function, for every length.                             *)
LEMMA JoinExists ==
  ASSUME NEW s
  PROVE  \A n \in Nat : \E f : Joining(s, f, n)
<1> DEFINE S == {n \in Nat : \E f : Joining(s, f, n)}
<1>1. 0 \in S
  <2>1. Joining(s, [i \in 1 .. 0 |-> i], 0)
     BY DEF Joining
  <2> QED BY <2>1
<1>2. ASSUME NEW n \in S PROVE n + 1 \in S
  <2>1. PICK f : Joining(s, f, n)
    BY <1>2
  <2> DEFINE g == [i \in 1 .. n + 1 |-> IF i = 1 THEN s[i] ELSE f[i - 1] \o s[i]]
  <2>2. \A i \in 1 .. n : g[i] = f[i]
    <3> TAKE i \in 1 .. n
    <3>1. f[i] = IF i = 1 THEN s[i] ELSE f[i - 1] \o s[i]
      BY <2>1, Zenon DEF Joining
    <3>2. i \in 1 .. n + 1
      OBVIOUS
    <3>3. g[i] = IF i = 1 THEN s[i] ELSE f[i - 1] \o s[i]
      BY <3>2
    <3> HIDE DEF g
    <3> QED BY <3>1, <3>3
  <2>3. \A i \in 1 .. n + 1 : i # 1 => i - 1 \in 1 .. n
    OBVIOUS
  <2>4. \A i \in 1 .. n + 1 : g[i] = IF i = 1 THEN s[i] ELSE g[i - 1] \o s[i]
    <3> TAKE i \in 1 .. n + 1
    <3>1. g[i] = IF i = 1 THEN s[i] ELSE f[i - 1] \o s[i]
      OBVIOUS
    <3> HIDE DEF g
    <3> QED BY <2>2, <2>3, <3>1
  <2>5. g = [i \in 1 .. n + 1 |-> g[i]]
    OBVIOUS
  <2> HIDE DEF g
  <2>6. Joining(s, g, n + 1)
    BY <2>4, <2>5 DEF Joining
  <2> QED BY <2>6
<1> HIDE DEF S
<1>3. S = Nat
  <2>1. S \in SUBSET Nat
    BY DEF S
  <2> QED BY <2>1, <1>1, <1>2, Induction
<1> QED BY <1>3 DEF S

(* Its values, one from the other.                                         *)
LEMMA JoinSteps ==
  ASSUME NEW s, NEW n \in Nat, NEW f, Joining(s, f, n)
  PROVE  /\ 1 <= n => f[1] = s[1]
         /\ \A i \in Nat : 1 <= i /\ i + 1 <= n => f[i + 1] = f[i] \o s[i + 1]
<1>1. \A i \in 1 .. n : f[i] = IF i = 1 THEN s[i] ELSE f[i - 1] \o s[i]
  BY Zenon DEF Joining
<1>2. 1 <= n => 1 \in 1 .. n
  OBVIOUS
<1>3. \A i \in Nat : 1 <= i /\ i + 1 <= n => i + 1 \in 1 .. n /\ i + 1 # 1 /\ (i + 1) - 1 = i
  OBVIOUS
<1> QED BY <1>1, <1>2, <1>3

(* There is only one, and the sequences behind i do not matter for f[i].   *)
LEMMA JoinUnique ==
  ASSUME NEW s, NEW t, NEW m \in Nat, NEW n \in Nat, m <= n, NEW f, NEW g,
         Joining(s, f, m), Joining(t, g, n), \A i \in 1 .. m : s[i] = t[i]
  PROVE  \A i \in 1 .. m : f[i] = g[i]
<1>a. /\ 1 <= m => f[1] = s[1]
      /\ \A i \in Nat : 1 <= i /\ i + 1 <= m => f[i + 1] = f[i] \o s[i + 1]
  <2>1. m \in Nat /\ Joining(s, f, m)
    OBVIOUS
  <2> QED BY <2>1, JoinSteps, ZenonT(40)
<1>b. /\ 1 <= n => g[1] = t[1]
      /\ \A i \in Nat : 1 <= i /\ i + 1 <= n => g[i + 1] = g[i] \o t[i + 1]
  BY JoinSteps, ZenonT(40)
<1> DEFINE S == {i \in Nat : i \in 1 .. m => f[i] = g[i]}
<1>1. 0 \in S
  OBVIOUS
<1>2. ASSUME NEW i \in S
      PROVE  i + 1 \in S
  <2>1. CASE i + 1 \notin 1 .. m
    BY <2>1
  <2>2. CASE i + 1 \in 1 .. m /\ i = 0
    <3>1. 1 \in 1 .. m /\ 1 <= m /\ 1 <= n
      BY <2>2
    <3>2. f[1] = s[1]
      BY <3>1, <1>a
    <3>3. g[1] = t[1]
      BY <3>1, <1>b
    <3> QED BY <3>1, <3>2, <3>3, <2>2
  <2>3. CASE i + 1 \in 1 .. m /\ i # 0
    <3>1. i \in Nat /\ 1 <= i /\ i + 1 <= m /\ i + 1 <= n /\ i \in 1 .. m
      BY <2>3
    <3>2. f[i + 1] = f[i] \o s[i + 1]
      BY <3>1, <1>a
    <3>3. g[i + 1] = g[i] \o t[i + 1]
      BY <3>1, <1>b
    <3>4. f[i] = g[i] /\ s[i + 1] = t[i + 1] /\ i + 1 \in Nat
      BY <3>1, <2>3
    <3> QED BY <3>2, <3>3, <3>4
  <2> QED BY <2>1, <2>2, <2>3
<1> HIDE DEF S
<1>3. S = Nat
  <2>1. S \in SUBSET Nat
    BY DEF S
  <2> QED BY <2>1, <1>1, <1>2, Induction
<1> QED BY <1>3 DEF S

(* Sequences over a set give a sequence over the set.                      *)
LEMMA JoinType ==
  ASSUME NEW A, NEW s, NEW n \in Nat, NEW f, Joining(s, f, n), \A i \in 1 .. n : s[i] \in Seq(A)
  PROVE  \A i \in 1 .. n : f[i] \in Seq(A)
<1>a. /\ 1 <= n => f[1] = s[1]
      /\ \A i \in Nat : 1 <= i /\ i + 1 <= n => f[i + 1] = f[i] \o s[i + 1]
  BY JoinSteps, Zenon
<1> DEFINE S == {i \in Nat : i \in 1 .. n => f[i] \in Seq(A)}
<1>1. 0 \in S
  OBVIOUS
<1>2. ASSUME NEW i \in S
      PROVE  i + 1 \in S
  <2>1. CASE i + 1 \notin 1 .. n
    BY <2>1
  <2>2. CASE i + 1 \in 1 .. n /\ i = 0
    <3>1. 1 \in 1 .. n /\ 1 <= n
      BY <2>2
    <3>2. f[1] = s[1]
      BY <3>1, <1>a
    <3> QED BY <3>1, <3>2, <2>2
  <2>3. CASE i + 1 \in 1 .. n /\ i # 0
    <3>1. i \in Nat /\ 1 <= i /\ i + 1 <= n /\ i \in 1 .. n
      BY <2>3
    <3>2. f[i + 1] = f[i] \o s[i + 1]
      BY <3>1, <1>a
    <3>3. f[i] \in Seq(A) /\ s[i + 1] \in Seq(A)
      BY <3>1, <2>3
    <3>4. f[i + 1] \in Seq(A)
      BY <3>2, <3>3
    <3> QED BY <3>4, <3>1
  <2> QED BY <2>1, <2>2, <2>3
<1> HIDE DEF S
<1>3. S = Nat
  <2>1. S \in SUBSET Nat
    BY DEF S
  <2> QED BY <2>1, <1>1, <1>2, Induction
<1> QED BY <1>3 DEF S

(* FlattenSeq, for a sequence that is not empty.                           *)
LEMMA FlattenJoin ==
  ASSUME NEW s, Len(s) \in Nat, Len(s) # 0
  PROVE  \E f : Joining(s, f, Len(s)) /\ FlattenSeq(s) = f[Len(s)]
<1> DEFINE f == CHOOSE f : Joining(s, f, Len(s))
<1>1. \E g : Joining(s, g, Len(s))
  BY JoinExists
<1>2. Joining(s, f, Len(s))
  BY <1>1, Zenon
<1>3. FlattenSeq(s) = f[Len(s)]
  BY FlattenIsJoin, Zenon
<1> QED BY <1>2, <1>3, Zenon

(* FlattenSeq of sequences over a set.                                     *)
LEMMA FlattenType ==
  ASSUME NEW A, NEW s \in Seq(Seq(A))
  PROVE  FlattenSeq(s) \in Seq(A) /\ (s = << >> => FlattenSeq(s) = << >>)
<1>1. CASE Len(s) = 0
  <2>1. s = << >>
    BY <1>1
  <2>2. FlattenSeq(s) = s
    BY <1>1 DEF FlattenSeq
  <2>3. << >> \in Seq(A)
    OBVIOUS
  <2> QED BY <2>1, <2>2, <2>3, Zenon
<1>2. CASE Len(s) # 0
  <2>1. Len(s) \in Nat /\ Len(s) \in 1 .. Len(s) /\ s # << >> /\ \A i \in 1 .. Len(s) : s[i] \in Seq(A)
    BY <1>2
  <2>2. PICK f : Joining(s, f, Len(s)) /\ FlattenSeq(s) = f[Len(s)]
    BY <1>2, <2>1, FlattenJoin, Zenon
  <2>3. \A i \in 1 .. Len(s) : f[i] \in Seq(A)
    BY <2>1, <2>2, JoinType
  <2> QED BY <2>1, <2>2, <2>3
<1> QED BY <1>1, <1>2

(* FlattenSeq of one sequence more.                                        *)
LEMMA FlattenAppend ==
  ASSUME NEW A, NEW s \in Seq(Seq(A)), NEW x \in Seq(A)
  PROVE  FlattenSeq(Append(s, x)) = FlattenSeq(s) \o x
<1> DEFINE t == Append(s, x)
           n == Len(s)
<1>1. /\ n \in Nat /\ Len(t) = n + 1 /\ t[n + 1] = x /\ \A i \in 1 .. n : s[i] = t[i]
      /\ Len(t) \in Nat /\ Len(t) # 0
  OBVIOUS
<1>2. PICK g : Joining(t, g, n + 1) /\ FlattenSeq(t) = g[n + 1]
  BY <1>1, FlattenJoin
<1>3. CASE n = 0
  <2>0. s = << >> /\ 1 <= n + 1 /\ n + 1 \in Nat
    BY <1>3
  <2>1. FlattenSeq(s) = << >>
    BY <2>0, FlattenType, Zenon
  <2>2. g[1] = t[1]
    <3> HIDE DEF t, n
    <3> QED BY <2>0, <1>2, JoinSteps, ZenonT(40)
  <2>3. FlattenSeq(t) = x
    BY <1>1, <1>2, <1>3, <2>2
  <2>4. << >> \o x = x
    OBVIOUS
  <2> QED BY <2>1, <2>3, <2>4
<1>4. CASE n # 0
  <2>1. PICK f : Joining(s, f, n) /\ FlattenSeq(s) = f[n]
    BY <1>1, <1>4, FlattenJoin
  <2>2. n \in 1 .. n /\ n <= n + 1 /\ 1 <= n /\ n + 1 \in Nat
    BY <1>1, <1>4
  <2> HIDE DEF t, n
  <2>3. f[n] = g[n]
    BY <1>1, <1>2, <2>1, <2>2, JoinUnique
  <2>4. \A i \in Nat : 1 <= i /\ i + 1 <= n + 1 => g[i + 1] = g[i] \o t[i + 1]
    BY <1>2, <2>2, JoinSteps
  <2>5. g[n + 1] = g[n] \o t[n + 1]
    <3>1. n \in Nat /\ 1 <= n /\ n + 1 <= n + 1
      BY <1>1, <2>2
    <3> QED BY <2>4, <3>1, Zenon
  <2> QED BY <1>1, <1>2, <2>1, <2>3, <2>5 DEF t
<1> QED BY <1>3, <1>4

-----------------------------------------------------------------------------
(* The inductive invariant.  What a token can be.                          *)
TokenKinds == {"whole", "first", "second", "stop"}

(* Where a stream and a waiting handler can be.                            *)
Streaming   == {"start", "look", "get", "decode", "piece", "check", "send", "end",
                "closing", "gone", "ended"}
Waiting     == {"submit", "register", "blocked", "answer", "ended"}

(* The outcome of the sequence is written.                                 *)
Ended == prod \in {"signal", "set", "wake", "done"}

(* The producer writes the outcome before it signals, and what it signals  *)
(* is the last of it.                                                      *)
Producing ==
    /\ Ended <=> status # "live"
    /\ prod = "queued" => out = << >> /\ reason = "none"
    /\ prod = "note" => out # << >> /\ reason = "none"
    /\ prod = "run" /\ reason = "none" => Len(out) < MaxTokens
    /\ status = "finished" => reason # "none" /\ result
    /\ finished <=> prod \in {"wake", "done"}
    /\ waiter = "woken" => prod = "done"
    /\ "end" \in ToSet(sched) \cup ToSet(items) => prod \in {"set", "wake", "done"}

(* The client comes to its end only after the producer has.                *)
Consuming ==
    /\ client \in IF kind = "stream" THEN Streaming ELSE Waiting
    /\ client = "answer" => finished
    /\ ending => Ended
    /\ ending => client \notin {"start", "look", "get"}
    /\ client = "end" => ending
    /\ told # "nothing" => Ended /\ client \in {"closing", "ended"}
    /\ client = "ended" => told # "nothing"
    /\ prev # << >> \/ client = "piece" => out # << >>

(* What a stream has sent, and what it has yet to send.                    *)
Sending ==
    /\ client \in {"start", "look", "get", "decode", "piece", "end"} => sent = prev
    /\ WholeCharacters => IsPrefix(prev, Text(out)) /\ client # "piece"
    /\ WholeCharacters /\ ending /\ client \in {"check", "send", "end"} => prev = Text(out)
    /\ told # "nothing" /\ kind = "stream" =>
          sent = prev /\ (WholeCharacters => prev = Text(out))

(* All of it.                                                              *)
IInv == TypeOK /\ Producing /\ Consuming /\ Sending /\ ToldTheOutcome /\ AbandonedIsAborted
-----------------------------------------------------------------------------
(* The text of what has been generated.                                    *)
Piece(ids, i) ==
    CASE ids[i] \in {"whole", "second"} -> <<i>>
      [] ids[i] = "first" -> IF i = Len(ids) THEN <<Replacement>> ELSE << >>
      [] ids[i] = "stop" -> << >>

(* The texts of all tokens.                                                *)
Pieces(ids) == [i \in 1 .. Len(ids) |-> Piece(ids, i)]

(* The text of a token is made of positions, or of the replacement         *)
(* character.                                                              *)
LEMMA PieceType ==
  ASSUME NEW ids \in Seq(TokenKinds), NEW i \in 1 .. Len(ids)
  PROVE  Piece(ids, i) \in Seq(0 .. Len(ids))
<1>1. ids[i] \in TokenKinds /\ i \in 0 .. Len(ids) /\ 0 \in 0 .. Len(ids)
  OBVIOUS
<1>2. <<i>> \in Seq(0 .. Len(ids)) /\ <<0>> \in Seq(0 .. Len(ids)) /\ << >> \in Seq(0 .. Len(ids))
  BY <1>1
<1> QED BY <1>1, <1>2, Zenon DEF Piece, TokenKinds, Replacement

(* The text of a sequence of tokens.                                       *)
LEMMA TextType ==
  ASSUME NEW ids \in Seq(TokenKinds)
  PROVE  Text(ids) \in Seq(0 .. Len(ids)) /\ (ids = << >> => Text(ids) = << >>)
<1>1. Text(ids) = FlattenSeq(Pieces(ids))
  BY Zenon DEF Text, Pieces, Piece
<1>2. Pieces(ids) \in Seq(Seq(0 .. Len(ids))) /\ Len(Pieces(ids)) = Len(ids)
  BY PieceType DEF Pieces
<1>3. ids = << >> => Pieces(ids) = << >>
  BY <1>2
<1> QED BY <1>1, <1>2, <1>3, FlattenType, Zenon

(* A sequence over a set is one over a larger set.                         *)
LEMMA SeqOfMore ==
  ASSUME NEW A, NEW B, NEW s \in Seq(A), \A x \in A : x \in B
  PROVE  s \in Seq(B)
OBVIOUS

(* What is one longer and otherwise the same is an Append.                 *)
LEMMA AppendIsLonger ==
  ASSUME NEW A, NEW p \in Seq(A), NEW x \in A, NEW q \in Seq(A), Len(q) = Len(p) + 1,
         \A i \in 1 .. Len(p) : q[i] = p[i], q[Len(p) + 1] = x
  PROVE  q = Append(p, x)
<1> DEFINE r == Append(p, x)
<1>1. /\ r \in Seq(A) /\ Len(r) = Len(p) + 1 /\ Len(p) \in Nat /\ r[Len(p) + 1] = x
      /\ \A i \in 1 .. Len(p) : r[i] = p[i]
  OBVIOUS
<1> HIDE DEF r
<1>2. \A i \in 1 .. Len(p) + 1 : q[i] = r[i]
  <2> TAKE i \in 1 .. Len(p) + 1
  <2>1. i = Len(p) + 1 \/ i \in 1 .. Len(p)
    BY <1>1
  <2> QED BY <2>1, <1>1
<1>3. q = r
  BY <1>1, <1>2
<1> QED BY <1>3 DEF r

(* As long as no character has two tokens, a further token leaves the text *)
(* before it alone.                                                        *)
LEMMA TextGrows ==
  ASSUME NEW ids \in Seq(TokenKinds), NEW k \in TokenKinds,
         \A i \in DOMAIN Append(ids, k) : Append(ids, k)[i] # "first"
  PROVE  \E x \in Seq(Nat) : Text(Append(ids, k)) = Text(ids) \o x
<1> DEFINE new == Append(ids, k)
           n   == Len(ids)
           x   == Piece(new, n + 1)
<1>1. /\ new \in Seq(TokenKinds) /\ Len(new) = n + 1 /\ n \in Nat /\ new[n + 1] = k
      /\ \A i \in 1 .. n : new[i] = ids[i] /\ i \in DOMAIN new
      /\ \A i \in DOMAIN new : new[i] # "first"
  OBVIOUS
<1>2. Text(ids) = FlattenSeq(Pieces(ids)) /\ Text(new) = FlattenSeq(Pieces(new))
  BY Zenon DEF Text, Pieces, Piece
<1> HIDE DEF new
<1>3. \A i \in 1 .. n : Piece(new, i) = Piece(ids, i)
  <2> TAKE i \in 1 .. n
  <2>1. ids[i] \in {"whole", "second", "stop"} /\ new[i] = ids[i]
    BY <1>1 DEF TokenKinds
  <2>2. CASE ids[i] \in {"whole", "second"}
    BY <2>1, <2>2, Zenon DEF Piece
  <2>3. CASE ids[i] = "stop"
    BY <2>1, <2>3 DEF Piece
  <2> QED BY <2>1, <2>2, <2>3, Zenon
<1>4. x \in Seq(Nat)
  <2>1. n + 1 \in 1 .. Len(new)
    BY <1>1
  <2>2. x \in Seq(0 .. Len(new))
    BY <1>1, <2>1, PieceType
  <2> QED BY <2>2, <1>1
<1>5. Pieces(ids) \in Seq(Seq(Nat)) /\ Len(Pieces(ids)) = n
  <2>1. \A i \in 1 .. n : Piece(ids, i) \in Seq(Nat)
    <3> TAKE i \in 1 .. n
    <3>1. Piece(ids, i) \in Seq(0 .. Len(ids))
      BY PieceType
    <3> QED BY <3>1, <1>1
  <2> QED BY <2>1, <1>1 DEF Pieces
<1> HIDE DEF x
<1>6. Pieces(new) = Append(Pieces(ids), x)
  <2>1. \A i \in 1 .. n + 1 : Pieces(new)[i] = Piece(new, i)
    BY <1>1 DEF Pieces
  <2>2. \A i \in 1 .. n : Pieces(new)[i] = Pieces(ids)[i]
    BY <2>1, <1>1, <1>3 DEF Pieces
  <2>3. Pieces(new)[n + 1] = x
    BY <2>1, <1>1 DEF x
  <2>4. Pieces(new) \in Seq(Seq(Nat)) /\ Len(Pieces(new)) = n + 1
    <3>1. \A i \in 1 .. n + 1 : Piece(new, i) \in Seq(Nat)
      <4> TAKE i \in 1 .. n + 1
      <4>1. Piece(new, i) \in Seq(0 .. Len(new))
        BY <1>1, PieceType
      <4>2. \A j \in 0 .. Len(new) : j \in Nat
        BY <1>1
      <4> QED BY <4>1, <4>2, SeqOfMore, Zenon
    <3> QED BY <3>1, <1>1 DEF Pieces
  <2> DEFINE p == Pieces(ids)
             q == Pieces(new)
  <2>5. /\ p \in Seq(Seq(Nat)) /\ x \in Seq(Nat) /\ q \in Seq(Seq(Nat))
        /\ Len(q) = Len(p) + 1 /\ q[Len(p) + 1] = x /\ \A i \in 1 .. Len(p) : q[i] = p[i]
    BY <2>2, <2>3, <2>4, <1>4, <1>5
  <2> HIDE DEF p, q
  <2>6. q = Append(p, x)
    BY <2>5, AppendIsLonger
  <2> QED BY <2>6 DEF p, q
<1>7. FlattenSeq(Pieces(new)) = FlattenSeq(Pieces(ids)) \o x
  BY <1>4, <1>5, <1>6, FlattenAppend
<1> QED BY <1>2, <1>4, <1>7 DEF new

(* Prefixes.                                                               *)
LEMMA PrefixFacts ==
  /\ \A s \in Seq(Nat) : IsPrefix(s, s) /\ IsPrefix(<< >>, s)
  /\ \A s, t, x \in Seq(Nat) : IsPrefix(s, t) => IsPrefix(s, t \o x)
<1>1. \A s \in Seq(Nat) : IsPrefix(s, s)
  BY DEF IsPrefix
<1>2. \A s \in Seq(Nat) : IsPrefix(<< >>, s)
  BY DEF IsPrefix
<1>3. ASSUME NEW s \in Seq(Nat), NEW t \in Seq(Nat), NEW x \in Seq(Nat), IsPrefix(s, t)
      PROVE  IsPrefix(s, t \o x)
  <2>1. /\ Len(s) \in Nat /\ Len(t) \in Nat /\ Len(x) \in Nat /\ Len(s) <= Len(t)
        /\ SubSeq(s, 1, Len(s)) = SubSeq(t, 1, Len(s))
    BY <1>3 DEF IsPrefix
  <2>2. Len(t \o x) = Len(t) + Len(x) /\ \A i \in 1 .. Len(t) : (t \o x)[i] = t[i]
    OBVIOUS
  <2>3. SubSeq(t \o x, 1, Len(s)) = SubSeq(t, 1, Len(s))
    BY <2>1, <2>2
  <2> QED BY <2>1, <2>2, <2>3 DEF IsPrefix
<1> QED BY <1>1, <1>2, <1>3

(* What is in a queue after an append, at its head, and behind it.         *)
LEMMA ElementsOf ==
  ASSUME NEW A, NEW s \in Seq(A)
  PROVE  /\ \A x \in A : Append(s, x) \in Seq(A) /\ ToSet(Append(s, x)) = ToSet(s) \cup {x}
         /\ s # << >> => /\ Head(s) \in ToSet(s) /\ Head(s) \in A
                         /\ Tail(s) \in Seq(A) /\ ToSet(Tail(s)) \subseteq ToSet(s)
<1>1. ASSUME NEW x \in A
      PROVE  Append(s, x) \in Seq(A) /\ ToSet(Append(s, x)) = ToSet(s) \cup {x}
  <2> DEFINE t == Append(s, x)
             n == Len(s)
  <2>1. /\ t \in Seq(A) /\ n \in Nat /\ DOMAIN t = 1 .. n + 1 /\ DOMAIN s = 1 .. n
        /\ t[n + 1] = x /\ \A i \in 1 .. n : t[i] = s[i] /\ i \in 1 .. n + 1
        /\ n + 1 \in 1 .. n + 1 /\ \A i \in 1 .. n + 1 : i = n + 1 \/ i \in 1 .. n
    OBVIOUS
  <2> HIDE DEF t, n
  <2>2. ToSet(t) = ToSet(s) \cup {x}
    BY <2>1, Zenon DEF ToSet
  <2> QED BY <2>1, <2>2 DEF t
<1>2. ASSUME s # << >>
      PROVE  /\ Head(s) \in ToSet(s) /\ Head(s) \in A
             /\ Tail(s) \in Seq(A) /\ ToSet(Tail(s)) \subseteq ToSet(s)
  <2>1. /\ 1 \in DOMAIN s /\ Head(s) = s[1] /\ s[1] \in A /\ Tail(s) \in Seq(A)
        /\ \A i \in DOMAIN Tail(s) : i + 1 \in DOMAIN s /\ Tail(s)[i] = s[i + 1]
    BY <1>2
  <2>2. Head(s) \in ToSet(s)
    BY <2>1, Zenon DEF ToSet
  <2>3. ASSUME NEW y \in ToSet(Tail(s))
        PROVE  y \in ToSet(s)
    <3>1. PICK i \in DOMAIN Tail(s) : y = Tail(s)[i]
      BY DEF ToSet
    <3>2. i + 1 \in DOMAIN s /\ y = s[i + 1]
      BY <2>1, <3>1, Zenon
    <3> QED BY <3>2, Zenon DEF ToSet
  <2> QED BY <2>1, <2>2, <2>3
<1> QED BY <1>1, <1>2

(* The text of what has been generated.                                    *)
LEMMA TextIsText == TypeOK => Text(out) \in Seq(Nat) /\ Text(out) \in Seq(0 .. Len(out))
                            /\ (out = << >> => Text(out) = << >>)
<1> SUFFICES ASSUME TypeOK
             PROVE  Text(out) \in Seq(Nat) /\ Text(out) \in Seq(0 .. Len(out))
                    /\ (out = << >> => Text(out) = << >>)
  OBVIOUS
<1>1. out \in Seq(TokenKinds) /\ Len(out) \in Nat
  BY DEF TypeOK, TokenKinds
<1>2. Text(out) \in Seq(0 .. Len(out)) /\ (out = << >> => Text(out) = << >>)
  BY <1>1, TextType
<1> QED BY <1>1, <1>2

(* No step writes the outcome after it was signalled, and nothing follows  *)
(* the end in the queue.                                                   *)
LEMMA NextProducing ==
  ASSUME TypeOK, Producing, Next
  PROVE  Producing'
<1>e. /\ \A x \in {"token", "end"} :
            /\ Append(sched, x) \in Seq({"token", "end"}) /\ ToSet(Append(sched, x)) = ToSet(sched) \cup {x}
            /\ Append(items, x) \in Seq({"token", "end"}) /\ ToSet(Append(items, x)) = ToSet(items) \cup {x}
      /\ sched # << >> => /\ Head(sched) \in ToSet(sched) /\ Head(sched) \in {"token", "end"}
                         /\ Tail(sched) \in Seq({"token", "end"}) /\ ToSet(Tail(sched)) \subseteq ToSet(sched)
      /\ items # << >> => /\ Head(items) \in ToSet(items) /\ Head(items) \in {"token", "end"}
                         /\ Tail(items) \in Seq({"token", "end"}) /\ ToSet(Tail(items)) \subseteq ToSet(items)
  BY ElementsOf, SMTT(20) DEF TypeOK
<1> USE DEF TypeOK, Producing, Ended, Kinds, At, LoopFree, seq, channel, producer, consumer
<1>1. CASE StartWork
  BY <1>1, MaxTokensAssumption DEF StartWork
<1>2. CASE AppendToken
  BY <1>2 DEF AppendToken
<1>3. CASE QueueToken
  <2>1. /\ prod = "note" /\ prod' = "run" /\ reason = "none" /\ status = "live"
        /\ UNCHANGED <<out, status, result, finished, waiter, items>>
    BY <1>3 DEF QueueToken
  <2>2. ToSet(sched') = ToSet(sched) \cup {"token"}
    BY <1>3, <1>e DEF QueueToken
  <2>3. reason' = "none" => ~ (Len(out) >= MaxTokens)
    BY <1>3 DEF QueueToken
  <2>4. Len(out) \in Nat /\ MaxTokens \in Nat
    BY MaxTokensAssumption
  <2> QED BY <2>1, <2>2, <2>3, <2>4
<1>4. CASE Finish
  BY <1>4 DEF Finish
<1>5. CASE AbortRunning
  BY <1>5 DEF AbortRunning
<1>6. CASE SignalEnd
  BY <1>6, <1>e DEF SignalEnd
<1>7. CASE SetFinished
  BY <1>7 DEF SetFinished
<1>8. CASE WakeWaiter
  BY <1>8 DEF WakeWaiter
<1>9. CASE Fail
  BY <1>9 DEF Fail
<1>10. CASE AbortLeftover
  BY <1>10 DEF AbortLeftover
<1>11. CASE AdminAbort
  BY <1>11 DEF AdminAbort
<1>12. CASE RaiseFlag
  BY <1>12 DEF RaiseFlag
<1>13. CASE Deliver
  BY <1>13, <1>e DEF Deliver
<1>14. CASE StartStream
  BY <1>14 DEF StartStream
<1>15. CASE Look
  BY <1>15 DEF Look
<1>16. CASE Take
  BY <1>16, <1>e DEF Take
<1>17. CASE Timeout
  BY <1>17 DEF Timeout
<1>18. CASE Decode
  BY <1>18 DEF Decode, Emit, NextPlace
<1>19. CASE DecodePiece
  BY <1>19 DEF DecodePiece, Emit, NextPlace
<1>20. CASE Connected
  BY <1>20 DEF Connected
<1>21. CASE Send
  BY <1>21 DEF Send, Emit, NextPlace
<1>22. CASE End
  BY <1>22 DEF End, EndReason
<1>23. CASE Close
  BY <1>23 DEF Close
<1>24. CASE LookAtEvent
  BY <1>24 DEF LookAtEvent
<1>25. CASE Register
  BY <1>25 DEF Register
<1>26. CASE Wake
  BY <1>26 DEF Wake
<1>27. CASE Answer
  BY <1>27 DEF Answer
<1>28. CASE Leave
  BY <1>28 DEF Leave
<1>29. CASE Abandon
  BY <1>29 DEF Abandon
<1>30. CASE WorkerDies
  BY <1>30 DEF WorkerDies
<1> QED BY <1>1, <1>2, <1>3, <1>4, <1>5, <1>6, <1>7, <1>8, <1>9, <1>10, <1>11, <1>12, <1>13, <1>14, <1>15, <1>16, <1>17, <1>18, <1>19, <1>20, <1>21, <1>22, <1>23, <1>24, <1>25, <1>26, <1>27, <1>28, <1>29, <1>30
    DEF Next, Produce, Consume, Trouble

(* No client comes to its end before its sequence.                         *)
LEMMA NextConsuming ==
  ASSUME TypeOK, Producing, Consuming, Next
  PROVE  Consuming'
<1>e. /\ \A x \in {"token", "end"} :
            /\ Append(sched, x) \in Seq({"token", "end"}) /\ ToSet(Append(sched, x)) = ToSet(sched) \cup {x}
            /\ Append(items, x) \in Seq({"token", "end"}) /\ ToSet(Append(items, x)) = ToSet(items) \cup {x}
      /\ sched # << >> => /\ Head(sched) \in ToSet(sched) /\ Head(sched) \in {"token", "end"}
                         /\ Tail(sched) \in Seq({"token", "end"}) /\ ToSet(Tail(sched)) \subseteq ToSet(sched)
      /\ items # << >> => /\ Head(items) \in ToSet(items) /\ Head(items) \in {"token", "end"}
                         /\ Tail(items) \in Seq({"token", "end"}) /\ ToSet(Tail(items)) \subseteq ToSet(items)
  BY ElementsOf DEF TypeOK
<1> USE DEF Consuming, Ended, Streaming, Waiting, At, LoopFree, seq, channel, producer, consumer
<1>1. CASE StartWork
  BY <1>1 DEF StartWork, TypeOK, Producing
<1>2. CASE AppendToken
  BY <1>2 DEF AppendToken, TypeOK, Producing
<1>3. CASE QueueToken
  BY <1>3 DEF QueueToken, TypeOK, Producing
<1>4. CASE Finish
  BY <1>4 DEF Finish, TypeOK, Producing
<1>5. CASE AbortRunning
  BY <1>5 DEF AbortRunning, TypeOK, Producing
<1>6. CASE SignalEnd
  BY <1>6 DEF SignalEnd, TypeOK, Producing
<1>7. CASE SetFinished
  BY <1>7 DEF SetFinished, TypeOK, Producing
<1>8. CASE WakeWaiter
  BY <1>8 DEF WakeWaiter, TypeOK, Producing
<1>9. CASE Fail
  BY <1>9 DEF Fail, TypeOK, Producing
<1>10. CASE AbortLeftover
  BY <1>10 DEF AbortLeftover, TypeOK, Producing
<1>11. CASE AdminAbort
  BY <1>11 DEF AdminAbort, TypeOK, Producing
<1>12. CASE RaiseFlag
  BY <1>12 DEF RaiseFlag, TypeOK, Producing
<1>13. CASE Deliver
  BY <1>13 DEF Deliver, TypeOK, Producing
<1>14. CASE StartStream
  BY <1>14 DEF StartStream, TypeOK, Producing
<1>15. CASE Look
  BY <1>15 DEF Look, TypeOK, Producing
<1>16. CASE Take
  BY <1>16, <1>e DEF Take, TypeOK, Producing
<1>17. CASE Timeout
  BY <1>17 DEF Timeout, TypeOK, Producing
<1>18. CASE Decode
  <2>1. IsPrefix(<< >>, Text(out))
    <3>1. Text(out) \in Seq(Nat)
      BY TextIsText
    <3> QED BY <3>1, PrefixFacts
  <2>2. out = << >> => Text(out) = << >>
    BY TextIsText
  <2>3. client = "decode" /\ UNCHANGED <<seq, abort, channel, producer, kind, ending, sent, told>>
    BY <1>18 DEF Decode
  <2>4. CASE IsPrefix(prev, Text(out))
    <3>1. prev' = Text(out) /\ client' \in {"end", "look", "check"} /\ (client' = "end" => ending)
          /\ (client' = "look" => ~ending)
      BY <1>18, <2>4 DEF Decode, Emit, NextPlace
    <3> QED BY <3>1, <2>2, <2>3
  <2>5. CASE ~IsPrefix(prev, Text(out))
    <3>1. prev' = prev /\ client' = "piece"
      BY <1>18, <2>5 DEF Decode
    <3>2. prev # << >>
      BY <2>1, <2>5
    <3> QED BY <3>1, <3>2, <2>3
  <2> QED BY <2>4, <2>5
<1>19. CASE DecodePiece
  BY <1>19 DEF DecodePiece, TypeOK, Producing, Emit, NextPlace
<1>20. CASE Connected
  BY <1>20 DEF Connected, TypeOK, Producing
<1>21. CASE Send
  BY <1>21 DEF Send, TypeOK, Producing, Emit, NextPlace
<1>22. CASE End
  BY <1>22 DEF End, TypeOK, Producing, EndReason
<1>23. CASE Close
  BY <1>23 DEF Close, TypeOK, Producing
<1>24. CASE LookAtEvent
  BY <1>24 DEF LookAtEvent, TypeOK, Producing
<1>25. CASE Register
  BY <1>25 DEF Register, TypeOK, Producing
<1>26. CASE Wake
  BY <1>26 DEF Wake, TypeOK, Producing
<1>27. CASE Answer
  BY <1>27 DEF Answer, TypeOK, Producing
<1>28. CASE Leave
  BY <1>28 DEF Leave, TypeOK, Producing
<1>29. CASE Abandon
  BY <1>29 DEF Abandon, TypeOK, Producing
<1>30. CASE WorkerDies
  BY <1>30 DEF WorkerDies, TypeOK, Producing
<1> QED BY <1>1, <1>2, <1>3, <1>4, <1>5, <1>6, <1>7, <1>8, <1>9, <1>10, <1>11, <1>12, <1>13, <1>14, <1>15, <1>16, <1>17, <1>18, <1>19, <1>20, <1>21, <1>22, <1>23, <1>24, <1>25, <1>26, <1>27, <1>28, <1>29, <1>30
    DEF Next, Produce, Consume, Trouble

(* Every action keeps the types; no token is generated after the last one  *)
(* allowed.                                                                *)
LEMMA NextTypes ==
  ASSUME TypeOK, Producing, Consuming, Next
  PROVE  TypeOK'
<1>e. /\ \A x \in {"token", "end"} :
            /\ Append(sched, x) \in Seq({"token", "end"}) /\ ToSet(Append(sched, x)) = ToSet(sched) \cup {x}
            /\ Append(items, x) \in Seq({"token", "end"}) /\ ToSet(Append(items, x)) = ToSet(items) \cup {x}
      /\ sched # << >> => /\ Head(sched) \in ToSet(sched) /\ Head(sched) \in {"token", "end"}
                         /\ Tail(sched) \in Seq({"token", "end"}) /\ ToSet(Tail(sched)) \subseteq ToSet(sched)
      /\ items # << >> => /\ Head(items) \in ToSet(items) /\ Head(items) \in {"token", "end"}
                         /\ Tail(items) \in Seq({"token", "end"}) /\ ToSet(Tail(items)) \subseteq ToSet(items)
  BY ElementsOf DEF TypeOK
<1>l. Look => /\ ending' \in BOOLEAN
              /\ UNCHANGED <<seq, abort, channel, producer, kind, prev, sent, told>>
  <2>1. Look => ending' = (finished /\ items = << >>)
    BY DEF Look
  <2>2. (finished /\ items = << >>) \in BOOLEAN
    OBVIOUS
  <2>3. Look => ending' \in BOOLEAN
    BY <2>1, <2>2, Zenon
  <2> QED BY <2>3 DEF Look
<1>x. Text(out) \in Seq(0 .. MaxTokens)
  <2>1. Text(out) \in Seq(0 .. Len(out))
    BY TextIsText
  <2>2. Len(out) \in Nat /\ MaxTokens \in Nat /\ Len(out) <= MaxTokens
    BY MaxTokensAssumption DEF TypeOK
  <2>3. \A i \in 0 .. Len(out) : i \in 0 .. MaxTokens
    BY <2>2
  <2> QED BY <2>1, <2>3, SeqOfMore, Zenon
<1> USE DEF TypeOK, At, seq, channel, producer, consumer
<1>1. CASE StartWork
  BY <1>1 DEF StartWork
<1>2. CASE AppendToken
  <2>1. PICK k \in TokenKinds : out' = Append(out, k)
    BY <1>2 DEF AppendToken, Kinds, TokenKinds
  <2>2. Len(out) < MaxTokens
    BY <1>2 DEF AppendToken, Producing
  <2>3. out' \in Seq(TokenKinds) /\ Len(out') <= MaxTokens
    BY <2>1, <2>2, MaxTokensAssumption DEF TokenKinds
  <2> QED BY <1>2, <2>3 DEF AppendToken, TokenKinds
<1>3. CASE QueueToken
  BY <1>3, <1>e DEF QueueToken
<1>4. CASE Finish
  BY <1>4 DEF Finish
<1>5. CASE AbortRunning
  BY <1>5 DEF AbortRunning
<1>6. CASE SignalEnd
  BY <1>6, <1>e DEF SignalEnd
<1>7. CASE SetFinished
  BY <1>7 DEF SetFinished
<1>8. CASE WakeWaiter
  BY <1>8 DEF WakeWaiter
<1>9. CASE Fail
  BY <1>9 DEF Fail
<1>10. CASE AbortLeftover
  BY <1>10 DEF AbortLeftover
<1>11. CASE AdminAbort
  BY <1>11 DEF AdminAbort
<1>12. CASE RaiseFlag
  BY <1>12 DEF RaiseFlag
<1>13. CASE Deliver
  BY <1>13, <1>e DEF Deliver
<1>14. CASE StartStream
  BY <1>14 DEF StartStream
<1>15. CASE Look
  BY <1>15, <1>l DEF Look
<1>16. CASE Take
  BY <1>16, <1>e DEF Take
<1>17. CASE Timeout
  BY <1>17 DEF Timeout
<1>18. CASE Decode
  <2>1. prev' \in Seq(0 .. MaxTokens)
    BY <1>18, <1>x DEF Decode, Emit
  <2> QED BY <1>18, <2>1 DEF Decode
<1>19. CASE DecodePiece
  <2>1. prev' = prev \o LastText(out) /\ client = "piece"
    BY <1>19 DEF DecodePiece, Emit
  <2>2. Len(out) \in 0 .. MaxTokens /\ 0 \in 0 .. MaxTokens
    BY MaxTokensAssumption
  <2>3. <<Len(out)>> \in Seq(0 .. MaxTokens) /\ <<0>> \in Seq(0 .. MaxTokens) /\ << >> \in Seq(0 .. MaxTokens)
    BY <2>2
  <2>4. LastText(out) \in Seq(0 .. MaxTokens)
    <3>1. CASE Last(out) = "whole"
      BY <3>1, <2>3 DEF LastText
    <3>2. CASE Last(out) = "stop"
      BY <3>2, <2>3 DEF LastText
    <3>3. CASE Last(out) # "whole" /\ Last(out) # "stop"
      BY <3>3, <2>3 DEF LastText, Replacement
    <3> QED BY <3>1, <3>2, <3>3
  <2>5. prev' \in Seq(0 .. MaxTokens)
    BY <2>1, <2>4
  <2> QED BY <1>19, <2>5 DEF DecodePiece
<1>20. CASE Connected
  BY <1>20 DEF Connected
<1>21. CASE Send
  BY <1>21 DEF Send, Emit, NextPlace
<1>22. CASE End
  BY <1>22 DEF End, EndReason
<1>23. CASE Close
  BY <1>23 DEF Close
<1>24. CASE LookAtEvent
  BY <1>24 DEF LookAtEvent
<1>25. CASE Register
  BY <1>25 DEF Register
<1>26. CASE Wake
  BY <1>26 DEF Wake
<1>27. CASE Answer
  BY <1>27 DEF Answer
<1>28. CASE Leave
  BY <1>28 DEF Leave
<1>29. CASE Abandon
  BY <1>29 DEF Abandon
<1>30. CASE WorkerDies
  BY <1>30 DEF WorkerDies
<1> QED BY <1>1, <1>2, <1>3, <1>4, <1>5, <1>6, <1>7, <1>8, <1>9, <1>10, <1>11, <1>12, <1>13, <1>14, <1>15, <1>16, <1>17, <1>18, <1>19, <1>20, <1>21, <1>22, <1>23, <1>24, <1>25, <1>26, <1>27, <1>28, <1>29, <1>30
    DEF Next, Produce, Consume, Trouble

(* A client that has been told an outcome was told the one of its          *)
(* sequence, and that does not change behind its back.                     *)
LEMMA NextTold ==
  ASSUME TypeOK, Producing, Consuming, ToldTheOutcome, Next
  PROVE  ToldTheOutcome'
<1> USE DEF Producing, Consuming, Streaming, Waiting, Ended, ToldTheOutcome, TypeOK, At, seq, channel, producer, consumer
<1>1. CASE StartWork
  BY <1>1 DEF StartWork
<1>2. CASE AppendToken
  BY <1>2 DEF AppendToken
<1>3. CASE QueueToken
  BY <1>3 DEF QueueToken
<1>4. CASE Finish
  BY <1>4 DEF Finish
<1>5. CASE AbortRunning
  BY <1>5 DEF AbortRunning
<1>6. CASE SignalEnd
  BY <1>6 DEF SignalEnd
<1>7. CASE SetFinished
  BY <1>7 DEF SetFinished
<1>8. CASE WakeWaiter
  BY <1>8 DEF WakeWaiter
<1>9. CASE Fail
  BY <1>9 DEF Fail
<1>10. CASE AbortLeftover
  BY <1>10 DEF AbortLeftover
<1>11. CASE AdminAbort
  BY <1>11 DEF AdminAbort
<1>12. CASE RaiseFlag
  BY <1>12 DEF RaiseFlag
<1>13. CASE Deliver
  BY <1>13 DEF Deliver
<1>14. CASE StartStream
  BY <1>14 DEF StartStream
<1>15. CASE Look
  BY <1>15 DEF Look
<1>16. CASE Take
  BY <1>16 DEF Take
<1>17. CASE Timeout
  BY <1>17 DEF Timeout
<1>18. CASE Decode
  BY <1>18 DEF Decode, Emit, NextPlace
<1>19. CASE DecodePiece
  BY <1>19 DEF DecodePiece, Emit, NextPlace
<1>20. CASE Connected
  BY <1>20 DEF Connected
<1>21. CASE Send
  BY <1>21 DEF Send, Emit, NextPlace
<1>22. CASE End
  BY <1>22 DEF End, EndReason
<1>23. CASE Close
  BY <1>23 DEF Close
<1>24. CASE LookAtEvent
  BY <1>24 DEF LookAtEvent
<1>25. CASE Register
  BY <1>25 DEF Register
<1>26. CASE Wake
  BY <1>26 DEF Wake
<1>27. CASE Answer
  BY <1>27 DEF Answer
<1>28. CASE Leave
  BY <1>28 DEF Leave
<1>29. CASE Abandon
  BY <1>29 DEF Abandon
<1>30. CASE WorkerDies
  BY <1>30 DEF WorkerDies
<1> QED BY <1>1, <1>2, <1>3, <1>4, <1>5, <1>6, <1>7, <1>8, <1>9, <1>10, <1>11, <1>12, <1>13, <1>14, <1>15, <1>16, <1>17, <1>18, <1>19, <1>20, <1>21, <1>22, <1>23, <1>24, <1>25, <1>26, <1>27, <1>28, <1>29, <1>30
    DEF Next, Produce, Consume, Trouble

(* A stream that is left has raised the flag or found the event set.       *)
LEMMA NextAbandoned ==
  ASSUME TypeOK, AbandonedIsAborted, Next
  PROVE  AbandonedIsAborted'
<1> USE DEF TypeOK, AbandonedIsAborted, At, seq, channel, producer, consumer
<1>1. CASE StartWork
  BY <1>1 DEF StartWork
<1>2. CASE AppendToken
  BY <1>2 DEF AppendToken
<1>3. CASE QueueToken
  BY <1>3 DEF QueueToken
<1>4. CASE Finish
  BY <1>4 DEF Finish
<1>5. CASE AbortRunning
  BY <1>5 DEF AbortRunning
<1>6. CASE SignalEnd
  BY <1>6 DEF SignalEnd
<1>7. CASE SetFinished
  BY <1>7 DEF SetFinished
<1>8. CASE WakeWaiter
  BY <1>8 DEF WakeWaiter
<1>9. CASE Fail
  BY <1>9 DEF Fail
<1>10. CASE AbortLeftover
  BY <1>10 DEF AbortLeftover
<1>11. CASE AdminAbort
  BY <1>11 DEF AdminAbort
<1>12. CASE RaiseFlag
  BY <1>12 DEF RaiseFlag
<1>13. CASE Deliver
  BY <1>13 DEF Deliver
<1>14. CASE StartStream
  BY <1>14 DEF StartStream
<1>15. CASE Look
  BY <1>15 DEF Look
<1>16. CASE Take
  BY <1>16 DEF Take
<1>17. CASE Timeout
  BY <1>17 DEF Timeout
<1>18. CASE Decode
  BY <1>18 DEF Decode, Emit, NextPlace
<1>19. CASE DecodePiece
  BY <1>19 DEF DecodePiece, Emit, NextPlace
<1>20. CASE Connected
  BY <1>20 DEF Connected
<1>21. CASE Send
  BY <1>21 DEF Send, Emit, NextPlace
<1>22. CASE End
  BY <1>22 DEF End, EndReason
<1>23. CASE Close
  BY <1>23 DEF Close
<1>24. CASE LookAtEvent
  BY <1>24 DEF LookAtEvent
<1>25. CASE Register
  BY <1>25 DEF Register
<1>26. CASE Wake
  BY <1>26 DEF Wake
<1>27. CASE Answer
  BY <1>27 DEF Answer
<1>28. CASE Leave
  BY <1>28 DEF Leave
<1>29. CASE Abandon
  BY <1>29 DEF Abandon
<1>30. CASE WorkerDies
  BY <1>30 DEF WorkerDies
<1> QED BY <1>1, <1>2, <1>3, <1>4, <1>5, <1>6, <1>7, <1>8, <1>9, <1>10, <1>11, <1>12, <1>13, <1>14, <1>15, <1>16, <1>17, <1>18, <1>19, <1>20, <1>21, <1>22, <1>23, <1>24, <1>25, <1>26, <1>27, <1>28, <1>29, <1>30
    DEF Next, Produce, Consume, Trouble

(* What has been sent is all that had been made into deltas, and the last  *)
(* delta is made after the last token.                                     *)
LEMMA NextSending ==
  ASSUME TypeOK, Producing, Consuming, Sending, Next
  PROVE  Sending'
<1>p. IsPrefix(Text(out), Text(out))
  BY TextIsText, PrefixFacts
<1>s. ASSUME AppendToken, WholeCharacters', IsPrefix(prev, Text(out))
      PROVE  IsPrefix(prev, Text(out'))
  <2>1. PICK k \in TokenKinds : out' = Append(out, k)
    BY <1>s DEF AppendToken, Kinds, TokenKinds
  <2>2. out \in Seq(TokenKinds)
    BY DEF TypeOK, TokenKinds
  <2>3. PICK x \in Seq(Nat) : Text(out') = Text(out) \o x
    BY <1>s, <2>1, <2>2, TextGrows DEF WholeCharacters
  <2>4. prev \in Seq(Nat) /\ Text(out) \in Seq(Nat)
    BY TextIsText, MaxTokensAssumption DEF TypeOK
  <2> QED BY <1>s, <2>3, <2>4, PrefixFacts
<1>w. AppendToken /\ WholeCharacters' => WholeCharacters
  <2> SUFFICES ASSUME AppendToken, WholeCharacters', NEW i \in DOMAIN out
               PROVE  out[i] # "first"
    BY DEF WholeCharacters
  <2>1. PICK k \in TokenKinds : out' = Append(out, k)
    BY DEF AppendToken, Kinds, TokenKinds
  <2>2. i \in DOMAIN out' /\ out'[i] = out[i]
    BY <2>1 DEF TypeOK
  <2> QED BY <2>2 DEF WholeCharacters
<1> USE DEF Producing, Consuming, Sending, Streaming, Waiting, Ended, WholeCharacters, At, seq, channel, producer, consumer
<1>1. CASE StartWork
  BY <1>1 DEF StartWork
<1>2. CASE AppendToken
  BY <1>2, <1>s DEF AppendToken
<1>3. CASE QueueToken
  BY <1>3 DEF QueueToken
<1>4. CASE Finish
  BY <1>4 DEF Finish
<1>5. CASE AbortRunning
  BY <1>5 DEF AbortRunning
<1>6. CASE SignalEnd
  BY <1>6 DEF SignalEnd
<1>7. CASE SetFinished
  BY <1>7 DEF SetFinished
<1>8. CASE WakeWaiter
  BY <1>8 DEF WakeWaiter
<1>9. CASE Fail
  BY <1>9 DEF Fail
<1>10. CASE AbortLeftover
  BY <1>10 DEF AbortLeftover
<1>11. CASE AdminAbort
  BY <1>11 DEF AdminAbort
<1>12. CASE RaiseFlag
  BY <1>12 DEF RaiseFlag
<1>13. CASE Deliver
  BY <1>13 DEF Deliver
<1>14. CASE StartStream
  BY <1>14 DEF StartStream
<1>15. CASE Look
  BY <1>15 DEF Look
<1>16. CASE Take
  BY <1>16 DEF Take
<1>17. CASE Timeout
  BY <1>17 DEF Timeout
<1>18. CASE Decode
  BY <1>18, <1>p DEF Decode, Emit, NextPlace
<1>19. CASE DecodePiece
  BY <1>19 DEF DecodePiece, Emit, NextPlace
<1>20. CASE Connected
  BY <1>20 DEF Connected
<1>21. CASE Send
  BY <1>21 DEF Send, Emit, NextPlace
<1>22. CASE End
  BY <1>22 DEF End, EndReason
<1>23. CASE Close
  BY <1>23 DEF Close
<1>24. CASE LookAtEvent
  BY <1>24 DEF LookAtEvent
<1>25. CASE Register
  BY <1>25 DEF Register
<1>26. CASE Wake
  BY <1>26 DEF Wake
<1>27. CASE Answer
  BY <1>27 DEF Answer
<1>28. CASE Leave
  BY <1>28 DEF Leave
<1>29. CASE Abandon
  BY <1>29 DEF Abandon
<1>30. CASE WorkerDies
  BY <1>30 DEF WorkerDies
<1> QED BY <1>1, <1>2, <1>3, <1>4, <1>5, <1>6, <1>7, <1>8, <1>9, <1>10, <1>11, <1>12, <1>13, <1>14, <1>15, <1>16, <1>17, <1>18, <1>19, <1>20, <1>21, <1>22, <1>23, <1>24, <1>25, <1>26, <1>27, <1>28, <1>29, <1>30
    DEF Next, Produce, Consume, Trouble

(* The invariant holds at the start.                                       *)
LEMMA InitInvariant == Init => IInv
<1> SUFFICES ASSUME Init
             PROVE  IInv
  OBVIOUS
<1>1. TypeOK
  <2>1. << >> \in Seq(0 .. MaxTokens) /\ 0 <= MaxTokens
    BY MaxTokensAssumption
  <2>2. {result, abort, finished, byAdmin, dead, ending} \subseteq BOOLEAN
    BY DEF Init
  <2>3. out = << >> /\ Len(out) <= MaxTokens /\ sched = << >> /\ items = << >>
    BY <2>1 DEF Init
  <2> QED BY <2>1, <2>2, <2>3 DEF Init, TypeOK
<1>2. Producing
  BY MaxTokensAssumption DEF Init, Producing, Ended, ToSet
<1>3. Consuming
  BY DEF Init, Consuming, Streaming, Waiting, Ended
<1>4. Sending
  <2>1. Text(out) \in Seq(Nat) /\ prev = << >>
    BY <1>1, TextIsText DEF Init
  <2>2. IsPrefix(prev, Text(out))
    BY <2>1, PrefixFacts
  <2> QED BY <2>2 DEF Init, Sending
<1>5. ToldTheOutcome /\ AbandonedIsAborted
  BY DEF Init, ToldTheOutcome, AbandonedIsAborted
<1> QED BY <1>1, <1>2, <1>3, <1>4, <1>5 DEF IInv

(* Every step keeps it.                                                    *)
LEMMA NextInvariant == IInv /\ [Next]_vars => IInv'
<1> SUFFICES ASSUME IInv, [Next]_vars
             PROVE  IInv'
  OBVIOUS
<1>1. CASE Next
  BY <1>1, NextTypes, NextProducing, NextConsuming, NextSending, NextTold, NextAbandoned DEF IInv
<1>2. CASE UNCHANGED vars
  <2> USE <1>2 DEF vars, seq, channel, producer, consumer, IInv
  <2>1. TypeOK'
    BY DEF TypeOK
  <2>2. Producing' /\ Consuming'
    BY DEF Producing, Consuming, Ended
  <2>3. Sending'
    BY DEF Sending, WholeCharacters
  <2>4. ToldTheOutcome' /\ AbandonedIsAborted'
    BY DEF ToldTheOutcome, AbandonedIsAborted
  <2> QED BY <2>1, <2>2, <2>3, <2>4
<1> QED BY <1>1, <1>2

(* The inductive invariant holds in every state.                           *)
THEOREM InvariantHolds == Spec => []IInv
BY InitInvariant, NextInvariant, PTL DEF Spec

(* Type correctness: never more than max_tokens tokens, and the text is    *)
(* made of their positions.                                                *)
THEOREM TypeCorrect == Spec => []TypeOK
<1>1. IInv => TypeOK
  BY DEF IInv
<1> QED BY <1>1, InvariantHolds, PTL

(* What a client is told follows from how its sequence ended, although the *)
(* thread and the loop are not synchronised but by the event and the       *)
(* queue: a handler that waits can tell the three outcomes apart, a stream *)
(* takes a failed sequence for one that has come to its end.               *)
THEOREM ClientsAreToldTheOutcome == Spec => []ToldTheOutcome
<1>1. IInv => ToldTheOutcome
  BY DEF IInv
<1> QED BY <1>1, InvariantHolds, PTL

(* A stream that was left has asked for the abort of its sequence, or the  *)
(* sequence is over.                                                       *)
THEOREM AbandonedAreAborted == Spec => []AbandonedIsAborted
<1>1. IInv => AbandonedIsAborted
  BY DEF IInv
<1> QED BY <1>1, InvariantHolds, PTL

(* A stream that comes to its end has delivered the text once and in       *)
(* order, for every max_tokens and every interleaving, if no character has *)
(* two tokens.                                                             *)
THEOREM WholeTextDelivered == Spec => []TextDelivered
<1>1. IInv => TextDelivered
  BY DEF IInv, Sending, Consuming, TextDelivered, EveryTextDelivered
<1> QED BY <1>1, InvariantHolds, PTL

=============================================================================
