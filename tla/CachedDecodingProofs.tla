------------------------ MODULE CachedDecodingProofs --------------------------
(***************************************************************************)
(* What the caches hold, for every set of requests and prompts, every      *)
(* model, every pool and prefix cache, and every order of prefills,        *)
(* batches and aborts.                                                     *)
(***************************************************************************)
EXTENDS CachedDecoding, SequenceTheorems, FiniteSetTheorems, WellFoundedInduction, TLAPS

-----------------------------------------------------------------------------
(* Induction, without the theorems of the library that take a predicate:   *)
(* every set of numbers that is not empty has a least one, because < is    *)
(* well-founded.                                                           *)
LEMMA LeastNumber ==
  ASSUME NEW S \in SUBSET Nat, S # {}
  PROVE  \E m \in S : \A k \in S : m <= k
<1> DEFINE R == OpToRel(<, Nat)
<1>1. IsWellFoundedOn(R, Nat)
  BY NatLessThanWellFounded, Zenon
<1>2. \A x, y \in Nat : <<x, y>> \notin R => y <= x
  BY DEF OpToRel
<1> HIDE DEF R
<1>3. PICK m \in S : \A k \in S : <<k, m>> \notin R
  BY <1>1, WFMin, Zenon
<1>4. \A k \in S : k \in Nat /\ m \in Nat
  OBVIOUS
<1> QED BY <1>2, <1>3, <1>4, Zenon

(* So a set of numbers that has 0, and with each number the next, has all  *)
(* of them.                                                                *)
LEMMA Induction ==
  ASSUME NEW S \in SUBSET Nat, 0 \in S, \A n \in S : n + 1 \in S
  PROVE  S = Nat
<1>1. SUFFICES ASSUME Nat \ S # {} PROVE FALSE
  OBVIOUS
<1>2. PICK m \in Nat \ S : \A k \in Nat \ S : m <= k
  BY <1>1, LeastNumber
<1>3. m # 0 /\ m - 1 \in Nat
  BY <1>2
<1>4. m - 1 \in S
  BY <1>2, <1>3
<1> QED BY <1>4, <1>2

-----------------------------------------------------------------------------
(* The cells of a text, one for each of its beginnings.                    *)
LEMMA CellsType ==
  ASSUME NEW text \in Seq(Tokens)
  PROVE  /\ CellsOf(text) \in Seq(Seq(Tokens))
         /\ Len(CellsOf(text)) = Len(text) /\ Len(text) \in Nat
         /\ DOMAIN CellsOf(text) = 1 .. Len(text)
         /\ \A i \in 1 .. Len(text) : /\ CellsOf(text)[i] = SubSeq(text, 1, i)
                                      /\ SubSeq(text, 1, i) \in Seq(Tokens)
                                      /\ Len(SubSeq(text, 1, i)) = i
<1>1. Len(text) \in Nat /\ \A i \in 1 .. Len(text) : text[i] \in Tokens
  BY LenProperties, ElementOfSeq
<1>2. ASSUME NEW i \in 1 .. Len(text)
      PROVE  SubSeq(text, 1, i) \in Seq(Tokens) /\ Len(SubSeq(text, 1, i)) = i
  <2>1. i \in Int /\ 1 \in Int /\ 1 <= i /\ \A j \in 1 .. i : text[j] \in Tokens
    BY <1>1
  <2>2. /\ SubSeq(text, 1, i) \in Seq(Tokens)
        /\ Len(SubSeq(text, 1, i)) = IF 1 <= i THEN i - 1 + 1 ELSE 0
    BY <2>1, SubSeqProperties
  <2> QED BY <2>1, <2>2
<1>3. CellsOf(text) \in [1 .. Len(text) -> Seq(Tokens)]
  BY <1>2 DEF CellsOf
<1>4. CellsOf(text) \in Seq(Seq(Tokens))
  BY <1>1, <1>3, SeqDef
<1>5. DOMAIN CellsOf(text) = 1 .. Len(text)
  BY DEF CellsOf
<1>6. Len(CellsOf(text)) = Len(text)
  <2>1. Len(CellsOf(text)) \in Nat /\ DOMAIN CellsOf(text) = 1 .. Len(CellsOf(text))
    BY <1>4, LenProperties
  <2> QED BY <1>1, <1>5, <2>1
<1>7. \A i \in 1 .. Len(text) : CellsOf(text)[i] = SubSeq(text, 1, i)
  BY DEF CellsOf
<1> QED BY <1>1, <1>2, <1>4, <1>5, <1>6, <1>7

(* The beginnings of a text and of one that goes on are the same.          *)
LEMMA Beginnings ==
  ASSUME NEW text \in Seq(Tokens), NEW token \in Tokens
  PROVE  /\ Append(text, token) \in Seq(Tokens)
         /\ Len(Append(text, token)) = Len(text) + 1
         /\ \A i \in 1 .. Len(text) :
               SubSeq(Append(text, token), 1, i) = SubSeq(text, 1, i)
         /\ SubSeq(Append(text, token), 1, Len(text) + 1) = Append(text, token)
<1>1. PICK long : long = Append(text, token)
  OBVIOUS
<1>2. /\ long \in Seq(Tokens) /\ Len(long) = Len(text) + 1
      /\ \A j \in 1 .. Len(text) : long[j] = text[j]
  BY <1>1, AppendProperties
<1>3. Len(text) \in Nat /\ \A i \in 1 .. Len(text) : text[i] \in Tokens
  BY LenProperties, ElementOfSeq
<1>4. ASSUME NEW i \in 1 .. Len(text)
      PROVE  SubSeq(long, 1, i) = SubSeq(text, 1, i)
  <2>1. i \in Int /\ 1 \in Int /\ 1 <= i /\ i - 1 + 1 = i
        /\ \A j \in 1 .. i : text[j] \in Tokens /\ long[j] = text[j] /\ 1 + j - 1 = j
    BY <1>2, <1>3
  <2>2. /\ SubSeq(text, 1, i) \in Seq(Tokens)
        /\ Len(SubSeq(text, 1, i)) = i
        /\ \A j \in 1 .. i : SubSeq(text, 1, i)[j] = text[j]
    <3>1. /\ SubSeq(text, 1, i) \in Seq(Tokens)
          /\ Len(SubSeq(text, 1, i)) = IF 1 <= i THEN i - 1 + 1 ELSE 0
          /\ \A j \in 1 .. i - 1 + 1 : SubSeq(text, 1, i)[j] = text[1 + j - 1]
      BY <2>1, SubSeqProperties
    <3> QED BY <2>1, <3>1
  <2>3. /\ SubSeq(long, 1, i) \in Seq(Tokens)
        /\ Len(SubSeq(long, 1, i)) = i
        /\ \A j \in 1 .. i : SubSeq(long, 1, i)[j] = long[j]
    <3>1. \A j \in 1 .. i : long[j] \in Tokens
      BY <2>1
    <3>2. /\ SubSeq(long, 1, i) \in Seq(Tokens)
          /\ Len(SubSeq(long, 1, i)) = IF 1 <= i THEN i - 1 + 1 ELSE 0
          /\ \A j \in 1 .. i - 1 + 1 : SubSeq(long, 1, i)[j] = long[1 + j - 1]
      BY <2>1, <3>1, SubSeqProperties
    <3> QED BY <2>1, <3>2
  <2> QED BY <2>1, <2>2, <2>3, SeqEqual
<1>5. SubSeq(long, 1, Len(text) + 1) = long
  BY <1>2, SubSeqFull
<1> QED BY <1>1, <1>2, <1>4, <1>5

(* A cache that gets the cell of the next token is that of the longer text.*)
LEMMA CellsGrow ==
  ASSUME NEW text \in Seq(Tokens), NEW token \in Tokens
  PROVE  Append(CellsOf(text), Append(text, token)) = CellsOf(Append(text, token))
<1>1. PICK long : long = Append(text, token)
  OBVIOUS
<1>2. /\ long \in Seq(Tokens) /\ Len(long) = Len(text) + 1
      /\ \A i \in 1 .. Len(text) : SubSeq(long, 1, i) = SubSeq(text, 1, i)
      /\ SubSeq(long, 1, Len(text) + 1) = long
  BY <1>1, Beginnings
<1>3. PICK cells, longer : cells = CellsOf(text) /\ longer = Append(cells, long)
  OBVIOUS
<1>4. /\ cells \in Seq(Seq(Tokens)) /\ Len(cells) = Len(text) /\ Len(text) \in Nat
      /\ \A i \in 1 .. Len(text) : cells[i] = SubSeq(text, 1, i)
  BY <1>3, CellsType
<1>5. /\ longer \in Seq(Seq(Tokens)) /\ Len(longer) = Len(text) + 1
      /\ \A i \in 1 .. Len(text) : longer[i] = cells[i]
      /\ longer[Len(text) + 1] = long
  <2>1. cells \in Seq(Seq(Tokens)) /\ long \in Seq(Tokens)
    BY <1>2, <1>4
  <2>2. /\ longer \in Seq(Seq(Tokens)) /\ Len(longer) = Len(cells) + 1
        /\ \A i \in 1 .. Len(cells) : longer[i] = cells[i]
        /\ longer[Len(cells) + 1] = long
    BY <1>3, <2>1, AppendProperties
  <2> QED BY <1>4, <2>2
<1>6. /\ CellsOf(long) \in Seq(Seq(Tokens)) /\ Len(CellsOf(long)) = Len(text) + 1
      /\ \A i \in 1 .. Len(text) + 1 : CellsOf(long)[i] = SubSeq(long, 1, i)
  BY <1>2, CellsType
<1>7. \A i \in 1 .. Len(text) + 1 : longer[i] = CellsOf(long)[i]
  <2> TAKE i \in 1 .. Len(text) + 1
  <2>1. i \in 1 .. Len(text) \/ i = Len(text) + 1
    BY <1>4
  <2> QED BY <1>2, <1>4, <1>5, <1>6, <2>1
<1>8. longer = CellsOf(long)
  BY <1>5, <1>6, <1>7, SeqEqual
<1> QED BY <1>1, <1>3, <1>8

(* The model gives the cell of the next token to a row whose attended      *)
(* cells are those of one text, whatever else is in the row.               *)
LEMMA NewCellIsNext ==
  ASSUME NEW text \in Seq(Tokens), NEW row,
         \A i \in 1 .. Len(text) : row[i] = SubSeq(text, 1, i),
         NEW token
  PROVE  NewCell(row, 1 .. Len(text), Len(text), token) = Append(text, token)
<1> DEFINE n     == Len(text)
           seen  == {row[i] : i \in 1 .. n}
           texts == {t \in seen \cup {<< >>} :
                       /\ Len(t) = n /\ Cardinality(1 .. n) = n
                       /\ seen = {SubSeq(t, 1, m) : m \in 1 .. n}}
<1>1. n \in Nat /\ Cardinality(1 .. n) = n
  <2>1. n \in Nat
    BY LenProperties
  <2>2. Cardinality(1 .. n) = IF 1 > n THEN 0 ELSE n - 1 + 1
    BY <2>1, FS_Interval
  <2> QED BY <2>1, <2>2
<1>2. SubSeq(text, 1, n) = text
  BY SubSeqFull
<1>3. seen = {SubSeq(text, 1, m) : m \in 1 .. n}
  OBVIOUS
<1>4. text \in texts
  <2>1. CASE n = 0
    BY <1>1, <1>3, <2>1, EmptySeq
  <2>2. CASE n # 0
    <3>1. n \in 1 .. n
      BY <1>1, <2>2
    <3>2. text \in seen
      BY <1>2, <3>1
    <3> QED BY <1>1, <1>3, <3>2
  <2> QED BY <2>1, <2>2
<1>5. ASSUME NEW t \in texts
      PROVE  t = text
  <2>1. Len(t) = n /\ t \in seen \cup {<< >>}
    OBVIOUS
  <2>2. CASE t = << >>
    <3>1. n = 0
      BY <2>1, <2>2, EmptySeq
    <3> QED BY <2>2, <3>1, EmptySeq
  <2>3. CASE t \in seen
    <3>1. PICK i \in 1 .. n : t = SubSeq(text, 1, i)
      BY <2>3
    <3>2. Len(SubSeq(text, 1, i)) = i
      BY <1>1, CellsType
    <3> QED BY <1>2, <2>1, <3>1, <3>2
  <2> QED BY <2>1, <2>2, <2>3
<1> HIDE DEF texts, seen
<1>6. texts # {} /\ (CHOOSE t \in texts : TRUE) = text
  <2>1. (CHOOSE t \in texts : TRUE) \in texts
    BY <1>4
  <2> QED BY <1>4, <1>5, <2>1
<1>7. NewCell(row, 1 .. n, n, token) =
        IF texts = {} THEN Nothing ELSE Append(CHOOSE t \in texts : TRUE, token)
  BY DEF NewCell, texts, seen
<1> HIDE DEF n
<1>8. NewCell(row, 1 .. n, n, token) = Append(text, token)
  BY <1>6, <1>7
<1> QED BY <1>8 DEF n

(* A cache that goes on by the next token of its text.                     *)
LEMMA NextCell ==
  ASSUME NEW text \in Seq(Tokens), NEW token \in Tokens
  PROVE  Append(CellsOf(text),
                NewCell(CellsOf(text), DOMAIN CellsOf(text), Len(text), token))
           = CellsOf(Append(text, token))
<1>1. PICK row : row = CellsOf(text)
  OBVIOUS
<1>2. /\ DOMAIN row = 1 .. Len(text)
      /\ \A i \in 1 .. Len(text) : row[i] = SubSeq(text, 1, i)
  BY <1>1, CellsType
<1>3. NewCell(row, 1 .. Len(text), Len(text), token) = Append(text, token)
  BY <1>2, NewCellIsNext
<1>4. Append(row, Append(text, token)) = CellsOf(Append(text, token))
  BY <1>1, CellsGrow
<1> QED BY <1>1, <1>2, <1>3, <1>4

-----------------------------------------------------------------------------
(* The forward pass, whose rows are a recursive function of the tokens     *)
(* read.                                                                   *)
RowAfter(f, past, start, tokens, i) ==
    IF i = 0 THEN past
    ELSE Append(f[i - 1], NewCell(f[i - 1], DOMAIN f[i - 1], start + i - 1, tokens[i]))

Reading(f, past, start, tokens) ==
    f = [i \in 0 .. Len(tokens) |-> RowAfter(f, past, start, tokens, i)]

(* The result of the pass is the last value of such a function.            *)
LEMMA ForwardIsReading ==
  ASSUME NEW past, NEW start, NEW tokens
  PROVE  Forward(past, start, tokens)
           = (CHOOSE f : Reading(f, past, start, tokens))[Len(tokens)]
BY Zenon DEF Forward, Reading, RowAfter

(* The text after the first i of the tokens read.                          *)
TextAfter(text, tokens, i) == text \o SubSeq(tokens, 1, i)

(* One token more.                                                         *)
LEMMA TextAfterGrows ==
  ASSUME NEW text \in Seq(Tokens), NEW tokens \in Seq(Tokens)
  PROVE  /\ TextAfter(text, tokens, 0) = text
         /\ TextAfter(text, tokens, Len(tokens)) = text \o tokens
         /\ \A i \in 0 .. Len(tokens) : /\ TextAfter(text, tokens, i) \in Seq(Tokens)
                                        /\ Len(TextAfter(text, tokens, i)) = Len(text) + i
         /\ \A i \in 1 .. Len(tokens) :
               /\ tokens[i] \in Tokens
               /\ TextAfter(text, tokens, i) = Append(TextAfter(text, tokens, i - 1), tokens[i])
<1>1. Len(text) \in Nat /\ Len(tokens) \in Nat /\ \A i \in 1 .. Len(tokens) : tokens[i] \in Tokens
  BY LenProperties, ElementOfSeq
<1>2. SubSeq(tokens, 1, 0) = << >>
  BY SubSeqEmpty
<1>3. TextAfter(text, tokens, 0) = text
  BY <1>2, ConcatEmptySeq DEF TextAfter
<1>4. TextAfter(text, tokens, Len(tokens)) = text \o tokens
  BY SubSeqFull DEF TextAfter
<1>5. ASSUME NEW i \in 0 .. Len(tokens)
      PROVE  /\ SubSeq(tokens, 1, i) \in Seq(Tokens) /\ Len(SubSeq(tokens, 1, i)) = i
             /\ \A j \in 1 .. i : SubSeq(tokens, 1, i)[j] = tokens[j]
  <2>1. i \in Int /\ 1 \in Int /\ \A j \in 1 .. i : tokens[j] \in Tokens
    BY <1>1
  <2>2. /\ SubSeq(tokens, 1, i) \in Seq(Tokens)
        /\ Len(SubSeq(tokens, 1, i)) = IF 1 <= i THEN i - 1 + 1 ELSE 0
        /\ \A j \in 1 .. i - 1 + 1 : SubSeq(tokens, 1, i)[j] = tokens[1 + j - 1]
    BY <2>1, SubSeqProperties
  <2>3. i \in Nat /\ i - 1 + 1 = i /\ \A j \in 1 .. i : 1 + j - 1 = j
    BY <1>1
  <2> QED BY <2>2, <2>3
<1>6. ASSUME NEW i \in 0 .. Len(tokens)
      PROVE  /\ TextAfter(text, tokens, i) \in Seq(Tokens)
             /\ Len(TextAfter(text, tokens, i)) = Len(text) + i
             /\ \A j \in 1 .. Len(text) + i :
                   TextAfter(text, tokens, i)[j]
                     = IF j <= Len(text) THEN text[j] ELSE tokens[j - Len(text)]
  <2>1. PICK first : first = SubSeq(tokens, 1, i)
    OBVIOUS
  <2>2. first \in Seq(Tokens) /\ Len(first) = i /\ \A j \in 1 .. i : first[j] = tokens[j]
    BY <1>5, <2>1
  <2>3. /\ text \o first \in Seq(Tokens) /\ Len(text \o first) = Len(text) + Len(first)
        /\ \A j \in 1 .. Len(text) + Len(first) :
              (text \o first)[j] = IF j <= Len(text) THEN text[j] ELSE first[j - Len(text)]
    BY <2>2, ConcatProperties
  <2>4. ASSUME NEW j \in 1 .. Len(text) + i
        PROVE  (text \o first)[j] = IF j <= Len(text) THEN text[j] ELSE tokens[j - Len(text)]
    <3>1. CASE j <= Len(text)
      BY <2>2, <2>3, <3>1
    <3>2. CASE ~(j <= Len(text))
      <4>1. j - Len(text) \in 1 .. i
        BY <1>1, <3>2
      <4> QED BY <2>2, <2>3, <3>2, <4>1
    <3> QED BY <3>1, <3>2
  <2> QED BY <2>1, <2>2, <2>3, <2>4 DEF TextAfter
<1>7. ASSUME NEW i \in 1 .. Len(tokens)
      PROVE  TextAfter(text, tokens, i) = Append(TextAfter(text, tokens, i - 1), tokens[i])
  <2>1. PICK old, new, longer : /\ old = TextAfter(text, tokens, i - 1)
                                /\ new = TextAfter(text, tokens, i)
                                /\ longer = Append(old, tokens[i])
    OBVIOUS
  <2>2. i \in 0 .. Len(tokens) /\ i - 1 \in 0 .. Len(tokens) /\ tokens[i] \in Tokens
        /\ Len(text) + (i - 1) + 1 = Len(text) + i
    BY <1>1
  <2>3. /\ old \in Seq(Tokens) /\ Len(old) = Len(text) + (i - 1)
        /\ \A j \in 1 .. Len(text) + (i - 1) :
              old[j] = IF j <= Len(text) THEN text[j] ELSE tokens[j - Len(text)]
    BY <1>6, <2>1, <2>2
  <2>4. /\ new \in Seq(Tokens) /\ Len(new) = Len(text) + i
        /\ \A j \in 1 .. Len(text) + i :
              new[j] = IF j <= Len(text) THEN text[j] ELSE tokens[j - Len(text)]
    BY <1>6, <2>1, <2>2
  <2>5. /\ longer \in Seq(Tokens) /\ Len(longer) = Len(old) + 1
        /\ \A j \in 1 .. Len(old) : longer[j] = old[j]
        /\ longer[Len(old) + 1] = tokens[i]
    BY <2>1, <2>2, <2>3, AppendProperties
  <2>6. \A j \in 1 .. Len(text) + i : longer[j] = new[j]
    <3> TAKE j \in 1 .. Len(text) + i
    <3>1. CASE j = Len(text) + i
      <4>1. j = Len(old) + 1 /\ ~(j <= Len(text)) /\ j - Len(text) = i
        BY <1>1, <2>2, <2>3, <3>1
      <4> QED BY <2>4, <2>5, <4>1
    <3>2. CASE j # Len(text) + i
      <4>1. j \in 1 .. Len(text) + (i - 1)
        BY <1>1, <3>2
      <4> QED BY <2>3, <2>4, <2>5, <4>1
    <3> QED BY <3>1, <3>2
  <2>7. longer = new
    BY <2>2, <2>3, <2>4, <2>5, <2>6, SeqEqual
  <2> QED BY <2>1, <2>7
<1> QED BY <1>1, <1>3, <1>4, <1>6, <1>7

(* A forward pass over the cache of a text gives that of the longer text,  *)
(* if it starts at the position where the text ends.                       *)
LEMMA ForwardReads ==
  ASSUME NEW text \in Seq(Tokens), NEW tokens \in Seq(Tokens)
  PROVE  Forward(CellsOf(text), Len(text), tokens) = CellsOf(text \o tokens)
<1> DEFINE past == CellsOf(text)
           n    == Len(tokens)
           g    == [i \in 0 .. n |-> CellsOf(TextAfter(text, tokens, i))]
<1>1. Len(text) \in Nat /\ n \in Nat
  BY LenProperties
<1>2. ASSUME NEW i \in 0 .. n
      PROVE  g[i] = CellsOf(TextAfter(text, tokens, i))
  OBVIOUS
<1>3. g = [i \in 0 .. n |-> g[i]]
  OBVIOUS
<1> HIDE DEF g, past, n
<1>4. ASSUME NEW i \in 0 .. n, NEW f, i # 0 => f[i - 1] = g[i - 1]
      PROVE  RowAfter(f, past, Len(text), tokens, i) = g[i]
  <2>1. CASE i = 0
    BY <1>2, <2>1, TextAfterGrows DEF RowAfter, past
  <2>2. CASE i # 0
    <3>1. i \in 1 .. n /\ i - 1 \in 0 .. n /\ Len(text) + (i - 1) = Len(text) + i - 1
      BY <1>1, <2>2
    <3>2. PICK old : old = TextAfter(text, tokens, i - 1)
      OBVIOUS
    <3>3. /\ old \in Seq(Tokens) /\ Len(old) = Len(text) + i - 1 /\ tokens[i] \in Tokens
          /\ TextAfter(text, tokens, i) = Append(old, tokens[i])
      BY <3>1, <3>2, TextAfterGrows DEF n
    <3>4. f[i - 1] = CellsOf(old)
      BY <1>2, <1>4, <2>2, <3>1, <3>2
    <3>5. RowAfter(f, past, Len(text), tokens, i)
            = Append(CellsOf(old), NewCell(CellsOf(old), DOMAIN CellsOf(old), Len(old), tokens[i]))
      BY <2>2, <3>3, <3>4 DEF RowAfter
    <3>6. RowAfter(f, past, Len(text), tokens, i) = CellsOf(Append(old, tokens[i]))
      BY <3>3, <3>5, NextCell
    <3> QED BY <1>2, <3>3, <3>6
  <2> QED BY <2>1, <2>2
<1>5. Reading(g, past, Len(text), tokens)
  <2>1. \A i \in 0 .. n : RowAfter(g, past, Len(text), tokens, i) = g[i]
    BY <1>4
  <2> QED BY <1>3, <2>1 DEF Reading, n
<1>6. ASSUME NEW f, Reading(f, past, Len(text), tokens)
      PROVE  f[n] = g[n]
  <2>1. \A i \in 0 .. n : f[i] = RowAfter(f, past, Len(text), tokens, i)
    BY <1>6, Zenon DEF Reading, n
  <2> DEFINE S == {i \in Nat : i \in 0 .. n => f[i] = g[i]}
  <2>2. 0 \in S
    <3>1. 0 \in 0 .. n
      BY <1>1
    <3> QED BY <1>4, <2>1, <3>1
  <2>3. ASSUME NEW i \in S
        PROVE  i + 1 \in S
    <3>1. CASE i + 1 \in 0 .. n
      <4>1. i \in 0 .. n /\ (i + 1) - 1 = i /\ i + 1 # 0
        BY <1>1, <3>1
      <4>2. f[(i + 1) - 1] = g[(i + 1) - 1]
        BY <4>1
      <4>3. f[i + 1] = g[i + 1]
        BY <1>4, <2>1, <3>1, <4>2
      <4> QED BY <4>3
    <3>2. CASE i + 1 \notin 0 .. n
      BY <3>2
    <3> QED BY <3>1, <3>2
  <2>4. S \subseteq Nat
    OBVIOUS
  <2> HIDE DEF S
  <2>5. S = Nat
    BY <2>2, <2>3, <2>4, Induction
  <2>6. n \in S /\ n \in 0 .. n
    BY <1>1, <2>5
  <2> QED BY <2>6 DEF S
<1>7. Forward(past, Len(text), tokens) = g[n]
  <2>1. PICK f : f = CHOOSE h : Reading(h, past, Len(text), tokens)
    OBVIOUS
  <2>2. Reading(f, past, Len(text), tokens)
    BY <1>5, <2>1, Zenon
  <2>3. Forward(past, Len(text), tokens) = f[n]
    BY <2>1, ForwardIsReading DEF n
  <2> QED BY <1>6, <2>2, <2>3
<1>8. g[n] = CellsOf(text \o tokens)
  <2>1. n \in 0 .. n
    BY <1>1
  <2> QED BY <1>2, <2>1, TextAfterGrows DEF n
<1> QED BY <1>7, <1>8 DEF past

(* The last cell of the cache is the whole text.                           *)
LEMMA LastCell ==
  ASSUME NEW text \in Seq(Tokens), text # << >>
  PROVE  Last(CellsOf(text)) = text
<1>1. Len(text) \in 1 .. Len(text)
  <2>1. Len(text) \in Nat \ {0}
    BY EmptySeq
  <2> QED BY <2>1
<1>2. Last(CellsOf(text)) = CellsOf(text)[Len(text)]
  BY CellsType DEF Last
<1>3. CellsOf(text)[Len(text)] = SubSeq(text, 1, Len(text))
  BY <1>1, CellsType
<1> QED BY <1>2, <1>3, SubSeqFull

(* Cutting a cache gives the cache of the beginning of its text.           *)
LEMMA SliceIsBeginning ==
  ASSUME NEW text \in Seq(Tokens), NEW n \in 0 .. Len(text)
  PROVE  /\ SliceCache(CellsOf(text), n) = CellsOf(SubSeq(text, 1, n))
         /\ SubSeq(text, 1, n) \in Seq(Tokens)
         /\ Len(SubSeq(text, 1, n)) = n
<1>1. Len(text) \in Nat /\ \A i \in 1 .. Len(text) : text[i] \in Tokens
  BY LenProperties, ElementOfSeq
<1>2. PICK first : first = SubSeq(text, 1, n)
  OBVIOUS
<1>3. /\ n \in Int /\ 1 \in Int /\ n - 1 + 1 = n
      /\ \A i \in 1 .. n : 1 + i - 1 = i
      /\ \A i \in 1 .. n : i \in 1 .. Len(text)
  BY <1>1
<1>4. /\ first \in Seq(Tokens) /\ Len(first) = n
  <2>1. \A i \in 1 .. n : text[i] \in Tokens
    BY <1>1, <1>3
  <2>2. /\ first \in Seq(Tokens) /\ Len(first) = IF 1 <= n THEN n - 1 + 1 ELSE 0
    BY <1>2, <1>3, <2>1, SubSeqProperties
  <2> QED BY <1>1, <2>2
<1>5. PICK cells : cells = CellsOf(text)
  OBVIOUS
<1>6. /\ cells \in Seq(Seq(Tokens)) /\ Len(cells) = Len(text)
      /\ \A i \in 1 .. Len(text) : cells[i] = SubSeq(text, 1, i)
  BY <1>5, CellsType
<1>7. PICK cut : cut = SubSeq(cells, 1, n)
  OBVIOUS
<1>8. /\ cut \in Seq(Seq(Tokens)) /\ Len(cut) = n
      /\ \A i \in 1 .. n : cut[i] = cells[i]
  <2>1. \A i \in 1 .. n : cells[i] \in Seq(Tokens)
    BY <1>3, <1>6, ElementOfSeq
  <2>2. /\ cut \in Seq(Seq(Tokens)) /\ Len(cut) = IF 1 <= n THEN n - 1 + 1 ELSE 0
        /\ \A i \in 1 .. n - 1 + 1 : cut[i] = cells[1 + i - 1]
    BY <1>3, <1>7, <2>1, SubSeqProperties
  <2> QED BY <1>1, <1>3, <2>2
<1>9. /\ CellsOf(first) \in Seq(Seq(Tokens)) /\ Len(CellsOf(first)) = n
      /\ \A i \in 1 .. n : CellsOf(first)[i] = SubSeq(first, 1, i)
  BY <1>4, CellsType
<1>10. \A i \in 1 .. n : cut[i] = CellsOf(first)[i]
  <2> TAKE i \in 1 .. n
  <2>1. SubSeq(first, 1, i) = SubSeq(text, 1, i)
    <3>1. /\ 1 \in 1 .. Len(text) /\ n \in 1 .. Len(text)
          /\ 1 \in 1 .. n - 1 + 1 /\ i \in 1 .. n - 1 + 1
          /\ 1 + 1 - 1 = 1 /\ 1 + i - 1 = i
      BY <1>1, <1>3
    <3>2. SubSeq(SubSeq(text, 1, n), 1, i) = SubSeq(text, 1 + 1 - 1, 1 + i - 1)
      BY <3>1, SubSeqOfSubSeq
    <3> QED BY <1>2, <3>1, <3>2
  <2> QED BY <1>3, <1>6, <1>8, <1>9, <2>1
<1>11. cut = CellsOf(first)
  BY <1>8, <1>9, <1>10, SeqEqual
<1> QED BY <1>2, <1>4, <1>5, <1>7, <1>11 DEF SliceCache

-----------------------------------------------------------------------------
(* A batch.  Finitely many lengths have a longest.                         *)
LEMMA Longest ==
  ASSUME NEW S, IsFiniteSet(S), S # {}, NEW f \in [S -> Nat]
  PROVE  \A s \in S : f[s] <= Max({f[t] : t \in S}) /\ Max({f[t] : t \in S}) \in Nat
<1> DEFINE Bounds(R) == {b \in Nat : \A s \in R : f[s] <= b}
           N == {n \in Nat : \A R \in SUBSET S : Cardinality(R) = n => Bounds(R) # {}}
<1>1. 0 \in N
  <2> SUFFICES ASSUME NEW R \in SUBSET S, Cardinality(R) = 0 PROVE Bounds(R) # {}
    OBVIOUS
  <2>1. R = {}
    BY FS_Subset, FS_EmptySet
  <2>2. 0 \in Bounds(R)
    BY <2>1
  <2> QED BY <2>2
<1>2. ASSUME NEW n \in N
      PROVE  n + 1 \in N
  <2> SUFFICES ASSUME NEW R \in SUBSET S, Cardinality(R) = n + 1 PROVE Bounds(R) # {}
    OBVIOUS
  <2>1. IsFiniteSet(R) /\ R # {}
    BY FS_Subset, FS_EmptySet
  <2>2. PICK x \in R : TRUE
    BY <2>1
  <2>3. Cardinality(R \ {x}) = n
    <3>1. Cardinality(R \ {x}) = Cardinality(R) - 1
      BY <2>1, <2>2, FS_RemoveElement
    <3> QED BY <3>1
  <2>4. PICK b \in Nat : \A s \in R \ {x} : f[s] <= b
    BY <2>3
  <2>5. PICK c \in Nat : c >= b /\ c >= f[x]
    <3>1. f[x] \in Nat
      BY <2>2
    <3> QED BY <3>1
  <2>6. \A s \in R : f[s] \in Nat
    OBVIOUS
  <2>7. \A s \in R : f[s] <= c
    BY <2>4, <2>5, <2>6
  <2> QED BY <2>7
<1>3. N \subseteq Nat
  OBVIOUS
<1> HIDE DEF N
<1>4. N = Nat
  BY <1>1, <1>2, <1>3, Induction
<1>5. Bounds(S) # {}
  <2>1. Cardinality(S) \in N
    BY <1>4, FS_CardinalityType
  <2> QED BY <2>1 DEF N
<1>6. PICK m \in Bounds(S) : \A b \in Bounds(S) : m <= b
  <2>1. Bounds(S) \subseteq Nat
    OBVIOUS
  <2> HIDE DEF Bounds
  <2> QED BY <1>5, <2>1, LeastNumber
<1>7. m \in Nat /\ \A s \in S : f[s] \in Nat /\ f[s] <= m
  BY <1>6
<1>8. \E s \in S : f[s] = m
  <2> SUFFICES ASSUME \A s \in S : f[s] # m PROVE FALSE
    OBVIOUS
  <2>1. \A s \in S : f[s] <= m - 1 /\ f[s] >= 0
    BY <1>7
  <2>2. m - 1 \in Nat
    BY <1>7, <2>1
  <2>3. m - 1 \in Bounds(S)
    BY <2>1, <2>2
  <2> QED BY <1>6, <1>7, <2>3
<1> DEFINE lengths == {f[t] : t \in S}
<1>9. m \in lengths /\ \A y \in lengths : m >= y
  BY <1>7, <1>8
<1>10. \E x \in lengths : \A y \in lengths : x >= y
  BY <1>9
<1>11. Max(lengths) \in lengths /\ \A y \in lengths : Max(lengths) >= y
  <2> HIDE DEF lengths
  <2> QED BY <1>10 DEF Max
<1>12. \A y \in lengths : y \in Nat
  BY <1>7
<1> QED BY <1>11, <1>12

(* A row of a batch gets the next cell of its own text, as if it were      *)
(* decoded alone: the padding of shorter rows is not seen, and the new     *)
(* cell is found behind it.                                                *)
LEMMA BatchIsAlone ==
  ASSUME NEW D \in SUBSET Seqs, D # {}, NEW texts \in [D -> Seq(Tokens)],
         NEW tokens \in [D -> Tokens],
         NEW caches, caches = [s \in D |-> CellsOf(texts[s])],
         NEW s \in D
  PROVE  DecodeBatch(tokens, caches)[s]
           = Tensors(CellsOf(Append(texts[s], tokens[s])), Append(texts[s], tokens[s]))
<1>1. PICK text, token, max, stacked :
         /\ text = texts[s] /\ token = tokens[s]
         /\ max = MaxPast(caches) /\ stacked = StackCaches(caches)
  OBVIOUS
<1>2. DOMAIN caches = D /\ caches[s] = CellsOf(text)
      /\ text \in Seq(Tokens) /\ token \in Tokens
  BY <1>1
<1>3. Len(caches[s]) = Len(text) /\ Len(text) \in Nat
  BY <1>2, CellsType
<1>4. max \in Nat /\ Len(text) <= max
  <2> DEFINE f == [t \in D |-> Len(caches[t])]
  <2>1. \A t \in D : Len(caches[t]) \in Nat
    BY CellsType
  <2>2. f \in [D -> Nat]
    BY <2>1
  <2>3. IsFiniteSet(D)
    BY SeqsAssumption, FS_Subset
  <2>4. {f[t] : t \in D} = {Len(caches[t]) : t \in DOMAIN caches}
    BY <1>2
  <2>5. f[s] = Len(text)
    BY <1>3
  <2> HIDE DEF f
  <2>6. f[s] <= Max({f[t] : t \in D}) /\ Max({f[t] : t \in D}) \in Nat
    BY <2>2, <2>3, Longest
  <2> QED BY <1>1, <2>4, <2>5, <2>6 DEF MaxPast
<1>5. PICK old : old = stacked[s]
  OBVIOUS
<1>6. /\ old = [i \in 1 .. max |-> IF i <= Len(text) THEN caches[s][i] ELSE Nothing]
  BY <1>1, <1>2, <1>3, <1>5 DEF StackCaches
<1>7. /\ old \in Seq(Seq(Tokens)) /\ Len(old) = max
      /\ \A i \in 1 .. Len(text) : old[i] = SubSeq(text, 1, i)
  <2>1. /\ CellsOf(text) \in Seq(Seq(Tokens)) /\ Len(CellsOf(text)) = Len(text)
        /\ \A i \in 1 .. Len(text) : CellsOf(text)[i] = SubSeq(text, 1, i)
    BY <1>2, CellsType
  <2>2. \A i \in 1 .. max : (IF i <= Len(text) THEN caches[s][i] ELSE Nothing) \in Seq(Tokens)
    <3> TAKE i \in 1 .. max
    <3>1. CASE i <= Len(text)
      <4>1. i \in 1 .. Len(text)
        BY <1>3, <1>4, <3>1
      <4> QED BY <1>2, <2>1, <3>1, <4>1, CellsType
    <3>2. CASE ~(i <= Len(text))
      BY <3>2, EmptySeq DEF Nothing
    <3> QED BY <3>1, <3>2
  <2>3. old \in [1 .. max -> Seq(Tokens)]
    BY <1>6, <2>2
  <2>4. old \in Seq(Seq(Tokens))
    BY <1>4, <2>3, SeqDef
  <2>5. Len(old) = max
    BY <1>4, <2>3, <2>4, LenProperties
  <2>6. ASSUME NEW i \in 1 .. Len(text)
        PROVE  old[i] = SubSeq(text, 1, i)
    <3>1. i \in 1 .. max /\ i <= Len(text)
      BY <1>3, <1>4
    <3> QED BY <1>2, <1>6, <2>1, <3>1
  <2> QED BY <2>4, <2>5, <2>6
<1>8. PICK new : new = Append(text, token)
  OBVIOUS
<1>9. NewCell(old, Attended(Len(caches[s]), max), Len(caches[s]), token) = new
  <2>1. NewCell(old, 1 .. Len(text), Len(text), token) = Append(text, token)
    BY <1>2, <1>7, NewCellIsNext
  <2> QED BY <1>3, <1>8, <2>1 DEF Attended
<1>10. new \in Seq(Tokens) /\ CellsOf(new) = Append(CellsOf(text), new)
  BY <1>2, <1>8, Beginnings, CellsGrow
<1>11. PICK row : row = Append(old, new)
  OBVIOUS
<1>12. /\ row \in Seq(Seq(Tokens)) /\ Len(row) = max + 1
       /\ \A i \in 1 .. max : row[i] = old[i]
       /\ row[max + 1] = new
  <2>1. /\ row \in Seq(Seq(Tokens)) /\ Len(row) = Len(old) + 1
        /\ \A i \in 1 .. Len(old) : row[i] = old[i]
        /\ row[Len(old) + 1] = new
    BY <1>7, <1>10, <1>11, AppendProperties
  <2> QED BY <1>7, <2>1
<1>13. Last(row) = new
  BY <1>12 DEF Last
<1>14. SubSeq(row, 1, Len(text)) = CellsOf(text)
  <2>1. PICK cut : cut = SubSeq(row, 1, Len(text))
    OBVIOUS
  <2>2. Len(text) \in Int /\ 1 \in Int /\ Len(text) - 1 + 1 = Len(text)
        /\ \A i \in 1 .. Len(text) : 1 + i - 1 = i /\ i \in 1 .. max
    BY <1>3, <1>4
  <2>3. \A i \in 1 .. Len(text) : row[i] = SubSeq(text, 1, i) /\ row[i] \in Seq(Tokens)
    BY <1>2, <1>7, <1>12, <2>2, CellsType
  <2>4. /\ cut \in Seq(Seq(Tokens)) /\ Len(cut) = Len(text)
        /\ \A i \in 1 .. Len(text) : cut[i] = row[i]
    <3>1. \A i \in 1 .. Len(text) : row[i] \in Seq(Tokens)
      BY <2>3
    <3>2. /\ cut \in Seq(Seq(Tokens))
          /\ Len(cut) = IF 1 <= Len(text) THEN Len(text) - 1 + 1 ELSE 0
          /\ \A i \in 1 .. Len(text) - 1 + 1 : cut[i] = row[1 + i - 1]
      BY <2>1, <2>2, <3>1, SubSeqProperties
    <3>3. Len(cut) = Len(text)
      BY <1>3, <3>2
    <3>4. \A i \in 1 .. Len(text) : cut[i] = row[i]
      <4> TAKE i \in 1 .. Len(text)
      <4>1. i \in 1 .. Len(text) - 1 + 1 /\ 1 + i - 1 = i
        BY <2>2
      <4> QED BY <3>2, <4>1
    <3> QED BY <3>2, <3>3, <3>4
  <2>5. /\ CellsOf(text) \in Seq(Seq(Tokens)) /\ Len(CellsOf(text)) = Len(text)
        /\ \A i \in 1 .. Len(text) : CellsOf(text)[i] = SubSeq(text, 1, i)
    BY <1>2, CellsType
  <2>6. cut = CellsOf(text)
    BY <2>3, <2>4, <2>5, SeqEqual, ZenonT(60)
  <2> QED BY <2>1, <2>6
<1>15. ExtractRow(row, Len(caches[s])) = CellsOf(new)
  BY <1>3, <1>10, <1>13, <1>14 DEF ExtractRow
<1>16. DecodeBatch(tokens, caches)[s]
         = LET r == Append(stacked[s],
                           NewCell(stacked[s], Attended(Len(caches[s]), max),
                                   Len(caches[s]), tokens[s]))
           IN  Tensors(ExtractRow(r, Len(caches[s])), Last(r))
  BY <1>1, <1>2 DEF DecodeBatch
<1>17. DecodeBatch(tokens, caches)[s] = Tensors(ExtractRow(row, Len(caches[s])), Last(row))
  BY <1>1, <1>5, <1>9, <1>11, <1>16
<1> QED BY <1>1, <1>8, <1>13, <1>15, <1>17

-----------------------------------------------------------------------------
(* The accounting of KvAccounting: who is admitted through the scheduler,  *)
(* and who is over.                                                        *)
AccHeld == IF engine = "cached" THEN {} ELSE held
AccDone == {s \in Seqs : outcome[s] # "none"}

Acc == INSTANCE KvAccountingProofs WITH held <- AccHeld, done <- AccDone

(* TypeOK without the accounting, whose type the theorems of KvAccounting  *)
(* give.                                                                   *)
Types ==
    /\ engine \in {"cached", "queued", "continuous"}
    /\ content \in [Keys -> TensorType]
    /\ held \subseteq Seqs /\ todo \subseteq held
    /\ bound \in [Seqs -> TensorType]
    /\ cache \in [Seqs -> Seq(Seq(Tokens))]
    /\ output \in [Seqs -> Seq(Tokens)]
    /\ outcome \in [Seqs -> {"none", "stop", "length", "abort"}]
    /\ pc \in {"idle", "store", "rows"}
    /\ cands \subseteq Nat
    /\ fresh \in [Seqs -> TensorType]

(* The text of a request, and its tensors when all of it has been read.    *)
TextOf(s) == PromptOf[s] \o output[s]
ReadAll(s) == Tensors(CellsOf(TextOf(s)), TextOf(s))

(* A request that is being served is not over.  It has no cache before its *)
(* first token; then the cache lacks the last token, which is read by the  *)
(* next decode step.                                                       *)
Serving(s) ==
    /\ outcome[s] = "none" /\ Len(output[s]) < MaxTokensOf[s]
    /\ cache[s] = << >> => output[s] = << >>
    /\ cache[s] # << >> => /\ output[s] # << >>
                           /\ cache[s] = CellsOf(PromptOf[s] \o Front(output[s]))

NotServed(s) == cache[s] = << >> /\ (outcome[s] = "none" => output[s] = << >>)

(* What a prefill may start from: the cache of a beginning of the prompt,  *)
(* with logits only if it is all of it.                                    *)
IsPrefixOf(s, b) ==
    \E n \in 0 .. Len(PromptOf[s]) :
       /\ b.cells = CellsOf(PrefixOf(s, n))
       /\ b.logits # NoLogits => n = Len(PromptOf[s]) /\ b.logits = PromptOf[s]

(* What an entry of the prefix cache may hold.                             *)
IsEntryOf(k, c) == c.cells = CellsOf(k) /\ c.logits \in {NoLogits, k}

(* The prefixes that a call is about to store are those of a prompt it has *)
(* just read, and what it returned for a sequence has read all its text.   *)
CallInv ==
    /\ \A s \in todo : fresh[s] = ReadAll(s)
    /\ pc = "store" => /\ engine # "cached"
                       /\ \A s \in todo : /\ output[s] = << >>
                                          /\ cands \subseteq CandidateLengths(s)

(* The inductive invariant.                                                *)
CacheInv ==
    /\ Types
    /\ \A s \in held : Serving(s)
    /\ \A s \in Seqs \ held : NotServed(s)
    /\ \A s \in Seqs : IsPrefixOf(s, bound[s])
    /\ \A k \in kv.stored : IsEntryOf(k, content[k])
    /\ CallInv

Inv == CacheInv /\ Acc!Inv


(* The operations of the instance are those of this module.                *)
LEMMA SameInTheorems ==
    ASSUME NEW K, NEW s, NEW n
    PROVE  /\ Acc!InitKv = InitKv
           /\ Acc!Admitted(K, s) = Admitted(K, s)
           /\ Acc!LateBind(K, s) = LateBind(K, s)
           /\ Acc!CandidateLengths(s) = CandidateLengths(s)
           /\ Acc!Insert(K, s, n) = Insert(K, s, n)
           /\ Acc!Adopt(K, s) = Adopt(K, s)
           /\ Acc!ReleaseSeq(K, s) = ReleaseSeq(K, s)
           /\ Acc!Hits(K, s) = Hits(K, s)
           /\ Acc!PrefixOf(s, n) = PrefixOf(s, n)
           /\ Acc!NoKey = NoKey
           /\ Acc!KvType = KvType
<1>1. Acc!InitKv = InitKv
  BY DEF InitKv, Acc!InitKv, NoKey, Acc!NoKey, Keys, Acc!Keys, PrefixOf,
         Acc!PrefixOf
<1>2. Acc!Admitted(K, s) = Admitted(K, s)
  BY DEF Admitted, Acc!Admitted, Reservations, Acc!Reservations,
         BlocksNeeded, Acc!BlocksNeeded, kSubset, Acc!kSubset, Cardinality,
         Acc!Cardinality, Allocate, Acc!Allocate, LookedUp, Acc!LookedUp,
         Hits, Acc!Hits, IsPrefix, Acc!IsPrefix, Lookup, Acc!Lookup,
         Acquire, Acc!Acquire, Reserve, Acc!Reserve, AddRef, Acc!AddRef,
         Pin, Acc!Pin, Donors, Acc!Donors, Shares, Acc!Shares, AtMost,
         Acc!AtMost, Touch, Acc!Touch, OwnTokens, Acc!OwnTokens,
         ReservationTokens, Acc!ReservationTokens
<1>3. Acc!LateBind(K, s) = LateBind(K, s)
  BY DEF LateBind, Acc!LateBind, BlocksNeeded, Acc!BlocksNeeded, Release,
         Acc!Release, Detachable, Acc!Detachable, AtMost, Acc!AtMost,
         kSubset, Acc!kSubset, Cardinality, Acc!Cardinality, Detach,
         Acc!Detach, NoKey, Acc!NoKey, LookedUp, Acc!LookedUp, Hits,
         Acc!Hits, IsPrefix, Acc!IsPrefix, Lookup, Acc!Lookup, Acquire,
         Acc!Acquire, Reservations, Acc!Reservations, Reserve, Acc!Reserve,
         AddRef, Acc!AddRef, Pin, Acc!Pin, Donors, Acc!Donors, Shares,
         Acc!Shares, Touch, Acc!Touch
<1>4. Acc!CandidateLengths(s) = CandidateLengths(s)
  BY DEF CandidateLengths, Acc!CandidateLengths
<1>5. Acc!Insert(K, s, n) = Insert(K, s, n)
  BY DEF Insert, Acc!Insert, PrefixOf, Acc!PrefixOf, Unused, Acc!Unused,
         Victims, Acc!Victims, Full, Acc!Full, Cardinality, Acc!Cardinality,
         DropEntry, Acc!DropEntry, Unpin, Acc!Unpin, Release, Acc!Release,
         AddEntry, Acc!AddEntry, Touch, Acc!Touch
<1>6. Acc!Adopt(K, s) = Adopt(K, s)
  BY DEF Adopt, Acc!Adopt, BlocksNeeded, Acc!BlocksNeeded, Detachable,
         Acc!Detachable, AtMost, Acc!AtMost, kSubset, Acc!kSubset,
         Cardinality, Acc!Cardinality, Detach, Acc!Detach, NoKey, Acc!NoKey,
         AddRef, Acc!AddRef, Pin, Acc!Pin, Acquire, Acc!Acquire,
         Reservations, Acc!Reservations, Reserve, Acc!Reserve, Donors,
         Acc!Donors, IsPrefix, Acc!IsPrefix, Shares, Acc!Shares, Touch,
         Acc!Touch
<1>7. Acc!ReleaseSeq(K, s) = ReleaseSeq(K, s)
  BY DEF ReleaseSeq, Acc!ReleaseSeq, Free, Acc!Free, ReleaseKey,
         Acc!ReleaseKey, Unpin, Acc!Unpin, Release, Acc!Release
<1>8. Acc!Hits(K, s) = Hits(K, s)
  BY DEF Hits, Acc!Hits, IsPrefix, Acc!IsPrefix
<1>9. Acc!PrefixOf(s, n) = PrefixOf(s, n) /\ Acc!NoKey = NoKey
  BY DEF PrefixOf, Acc!PrefixOf, NoKey, Acc!NoKey
<1>10. Acc!KvType = KvType
  BY DEF KvType, Acc!KvType, Keys, Acc!Keys, PrefixOf, Acc!PrefixOf, NoKey, Acc!NoKey
<1> QED BY <1>1, <1>2, <1>3, <1>4, <1>5, <1>6, <1>7, <1>8, <1>9, <1>10

(* A step of the accounting keeps it good.                                 *)
LEMMA AccountingStep ==
    ASSUME Acc!Inv, Acc!Next \/ UNCHANGED Acc!vars
    PROVE  Acc!Inv'
BY Acc!NextInv, BlocksAssumption, BlockSizeAssumption, SeqsAssumption, PromptAssumption,
   LengthAssumption, MinAssumption, EntriesAssumption, CacheAssumption
DEF IsFiniteSet, Acc!IsFiniteSet

(* A lookup, at admission or at the prefill, binds the sequence to a hit   *)
(* and stores nothing.                                                     *)
Binds(L, s) == L.stored = kv.stored /\ (L.key[s] = NoKey \/ L.key[s] \in Hits(kv, s))

(* A lookup that succeeds binds as said, and stores nothing.               *)
LEMMA LookupsBind ==
    ASSUME Acc!Inv, NEW s \in Seqs
    PROVE  /\ s \notin AccHeld \cup AccDone => \A L \in Admitted(kv, s) : Binds(L, s)
           /\ s \in AccHeld => \A L \in LateBind(kv, s) :
                 IF kv.key[s] # NoKey THEN L = kv ELSE Binds(L, s)
<1>1. Acc!Good(kv, AccHeld) /\ (s \notin AccHeld \cup AccDone => kv.key[s] = NoKey)
  BY SameInTheorems DEF Acc!Inv
<1>2. ASSUME s \notin AccHeld \cup AccDone, NEW L \in Admitted(kv, s)
      PROVE  Binds(L, s)
  <2>1. L \in Acc!Admitted(kv, s) /\ kv.key[s] = Acc!NoKey
    BY <1>1, <1>2, SameInTheorems
  <2>2. Acc!BindsHit(kv, L, s)
    BY <1>1, <1>2, <2>1, Acc!AdmittedBinds, BlocksAssumption, BlockSizeAssumption,
       SeqsAssumption, PromptAssumption, LengthAssumption, MinAssumption,
       EntriesAssumption, CacheAssumption
    DEF IsFiniteSet, Acc!IsFiniteSet
  <2> QED BY <2>2, SameInTheorems DEF Acc!BindsHit, Binds
<1>3. ASSUME s \in AccHeld, NEW L \in LateBind(kv, s)
      PROVE  IF kv.key[s] # NoKey THEN L = kv ELSE Binds(L, s)
  <2>1. L \in Acc!LateBind(kv, s)
    BY <1>3, SameInTheorems
  <2>2. IF kv.key[s] # Acc!NoKey THEN L = kv ELSE Acc!BindsHit(kv, L, s)
    BY <1>1, <1>3, <2>1, Acc!LateBindBinds, BlocksAssumption, BlockSizeAssumption,
       SeqsAssumption, PromptAssumption, LengthAssumption, MinAssumption,
       EntriesAssumption, CacheAssumption
    DEF IsFiniteSet, Acc!IsFiniteSet
  <2> QED BY <2>2, SameInTheorems DEF Acc!BindsHit, Binds
<1> QED BY <1>2, <1>3

(* Of the other operations only insert changes which entries are stored.   *)
LEMMA WhatIsStored ==
    ASSUME Acc!Inv, NEW s \in Seqs
    PROVE  /\ s \in AccHeld =>
                 /\ \A n \in CandidateLengths(s) : \A L \in Insert(kv, s, n) :
                       L.stored \subseteq kv.stored \cup {PrefixOf(s, n)}
                 /\ \A L \in Adopt(kv, s) : L.stored = kv.stored
           /\ ReleaseSeq(kv, s).stored = kv.stored
<1>1. Acc!Good(kv, AccHeld) /\ kv \in Acc!KvType
  BY DEF Acc!Inv, Acc!Good
<1>2. ASSUME s \in AccHeld, NEW n \in CandidateLengths(s), NEW L \in Insert(kv, s, n)
      PROVE  L.stored \subseteq kv.stored \cup {PrefixOf(s, n)}
  <2>1. L \in Acc!Insert(kv, s, n) /\ n \in Acc!CandidateLengths(s)
    BY <1>2, SameInTheorems
  <2>2. L.stored \subseteq kv.stored \cup {Acc!PrefixOf(s, n)}
    BY <1>1, <1>2, <2>1, Acc!InsertStores, BlocksAssumption, BlockSizeAssumption,
       SeqsAssumption, PromptAssumption, LengthAssumption, MinAssumption,
       EntriesAssumption, CacheAssumption
    DEF IsFiniteSet, Acc!IsFiniteSet
  <2> QED BY <2>2, SameInTheorems
<1>3. ASSUME s \in AccHeld, NEW L \in Adopt(kv, s)
      PROVE  L.stored = kv.stored
  <2>1. L \in Acc!Adopt(kv, s)
    BY <1>3, SameInTheorems
  <2> QED BY <1>1, <1>3, <2>1, Acc!AdoptKeepsStored, BlocksAssumption, BlockSizeAssumption,
             SeqsAssumption, PromptAssumption, LengthAssumption, MinAssumption,
             EntriesAssumption, CacheAssumption
          DEF IsFiniteSet, Acc!IsFiniteSet
<1>4. ReleaseSeq(kv, s).stored = kv.stored
  <2>1. Acc!ReleaseSeq(kv, s).stored = kv.stored
    BY <1>1, Acc!ReleaseSeqKeepsStored, BlocksAssumption, BlockSizeAssumption,
       SeqsAssumption, PromptAssumption, LengthAssumption, MinAssumption,
       EntriesAssumption, CacheAssumption
    DEF IsFiniteSet, Acc!IsFiniteSet
  <2> QED BY <2>1, SameInTheorems
<1> QED BY <1>2, <1>3, <1>4


-----------------------------------------------------------------------------
(* The last token of a text, and what is before it.                        *)
LEMMA FrontAndLast ==
  ASSUME NEW text \in Seq(Tokens), NEW ids \in Seq(Tokens), ids # << >>
  PROVE  /\ Front(ids) \in Seq(Tokens) /\ Last(ids) \in Tokens
         /\ text \o Front(ids) \in Seq(Tokens)
         /\ Append(text \o Front(ids), Last(ids)) = text \o ids
<1>1. Len(ids) \in Nat \ {0}
  BY EmptySeq
<1>2. /\ Len(ids) \in 1 .. Len(ids) /\ Len(ids) - 1 \in 0 .. Len(ids)
  BY <1>1
<1>3. /\ ids[Len(ids)] \in Tokens
      /\ TextAfter(text, ids, Len(ids)) = text \o ids
      /\ TextAfter(text, ids, Len(ids))
           = Append(TextAfter(text, ids, Len(ids) - 1), ids[Len(ids)])
      /\ TextAfter(text, ids, Len(ids) - 1) \in Seq(Tokens)
  BY <1>2, TextAfterGrows
<1>4. SubSeq(ids, 1, Len(ids) - 1) \in Seq(Tokens)
  BY <1>2, SliceIsBeginning
<1> QED BY <1>3, <1>4 DEF TextAfter, Front, Last

(* The same of a text that has just grown.                                 *)
LEMMA GrownFrontAndLast ==
  ASSUME NEW ids \in Seq(Tokens), NEW token \in Tokens
  PROVE  /\ Append(ids, token) \in Seq(Tokens) /\ Append(ids, token) # << >>
         /\ Len(Append(ids, token)) = Len(ids) + 1
         /\ Front(Append(ids, token)) = ids
         /\ Last(Append(ids, token)) = token
<1>1. PICK long : long = Append(ids, token)
  OBVIOUS
<1>2. /\ long \in Seq(Tokens) /\ long # << >> /\ Len(long) = Len(ids) + 1
      /\ long[Len(ids) + 1] = token
  BY <1>1, AppendProperties
<1>3. Len(ids) \in Nat /\ Len(long) - 1 = Len(ids)
  BY <1>2, LenProperties
<1>4. SubSeq(long, 1, Len(ids)) = ids
  <2>1. CASE ids = << >>
    <3>1. Len(ids) = 0
      BY <2>1, EmptySeq
    <3> QED BY <2>1, <3>1, SubSeqEmpty
  <2>2. CASE ids # << >>
    <3>1. Len(ids) \in 1 .. Len(ids)
      BY <1>3, <2>2, EmptySeq
    <3>2. SubSeq(long, 1, Len(ids)) = SubSeq(ids, 1, Len(ids))
      BY <1>1, <3>1, Beginnings
    <3> QED BY <3>2, SubSeqFull
  <2> QED BY <2>1, <2>2
<1> QED BY <1>1, <1>2, <1>3, <1>4 DEF Front, Last

(* A text that is not empty stays so.                                      *)
LEMMA LongerText ==
  ASSUME NEW text \in Seq(Tokens), NEW ids \in Seq(Tokens)
  PROVE  /\ text \o ids \in Seq(Tokens) /\ Len(text \o ids) = Len(text) + Len(ids)
         /\ text # << >> => text \o ids # << >> /\ CellsOf(text \o ids) # << >>
         /\ ids # << >> => text \o ids # << >>
         /\ ids = << >> => text \o ids = text
<1>1. PICK long : long = text \o ids
  OBVIOUS
<1>2. long \in Seq(Tokens) /\ Len(long) = Len(text) + Len(ids)
  BY <1>1, ConcatProperties
<1>3. long = << >> <=> text = << >> /\ ids = << >>
  BY <1>1, ConcatEqualIffEmpty
<1>4. ids = << >> => long = text
  BY <1>1, ConcatEmptySeq
<1>5. long # << >> => CellsOf(long) # << >>
  <2>1. long # << >> => Len(long) # 0
    BY <1>2, EmptySeq
  <2>2. Len(CellsOf(long)) = Len(long)
    BY <1>2, CellsType
  <2> QED BY <2>1, <2>2, EmptySeq
<1> QED BY <1>1, <1>2, <1>3, <1>4, <1>5

(* CachedEngine.prefill reads the prompt,                                  *)
LEMMA PrefillReads ==
  ASSUME NEW prompt \in Seq(Tokens), prompt # << >>
  PROVE  Prefill(prompt) = Tensors(CellsOf(prompt), prompt)
<1>1. PICK none : none = << >>
  OBVIOUS
<1>2. none \in Seq(Tokens) /\ Len(none) = 0
  BY <1>1, EmptySeq
<1>3. CellsOf(none) = << >>
  <2>1. CellsOf(none) \in Seq(Seq(Tokens)) /\ Len(CellsOf(none)) = 0
    BY <1>2, CellsType
  <2> QED BY <2>1, EmptySeq
<1>4. Forward(CellsOf(none), Len(none), prompt) = CellsOf(none \o prompt)
  BY <1>2, ForwardReads
<1>5. none \o prompt = prompt
  BY <1>1, ConcatEmptySeq
<1>6. Forward(<< >>, 0, prompt) = CellsOf(prompt)
  BY <1>2, <1>3, <1>4, <1>5
<1> QED BY <1>6, LastCell DEF Prefill, Returned

(* prefill_from_prefix what is not in the prefix,                          *)
LEMMA SuffixReads ==
  ASSUME NEW text \in Seq(Tokens), NEW suffix \in Seq(Tokens), suffix # << >>
  PROVE  PrefillFromPrefix(suffix, CellsOf(text))
           = Tensors(CellsOf(text \o suffix), text \o suffix)
<1>1. Len(CellsOf(text)) = Len(text)
  BY CellsType
<1>2. Forward(CellsOf(text), Len(text), suffix) = CellsOf(text \o suffix)
  BY ForwardReads
<1>3. Last(CellsOf(text \o suffix)) = text \o suffix
  BY LongerText, LastCell, ZenonT(60)
<1> QED BY <1>1, <1>2, <1>3 DEF PrefillFromPrefix, Returned

(* and decode one token.                                                   *)
LEMMA DecodeReads ==
  ASSUME NEW text \in Seq(Tokens), NEW token \in Tokens
  PROVE  Decode(token, CellsOf(text))
           = Tensors(CellsOf(Append(text, token)), Append(text, token))
<1>1. <<token>> \in Seq(Tokens) /\ <<token>> # << >>
  OBVIOUS
<1>2. Append(text, token) = text \o <<token>>
  BY AppendIsConcat
<1>3. Decode(token, CellsOf(text)) = PrefillFromPrefix(<<token>>, CellsOf(text))
  BY DEF Decode, PrefillFromPrefix
<1> QED BY <1>1, <1>2, <1>3, SuffixReads

(* Whatever stored prefix the prefill starts from, it has then read the    *)
(* prompt and nothing else.                                                *)
LEMMA PrefilledReads ==
  ASSUME NEW s \in Seqs, NEW b, IsPrefixOf(s, b)
  PROVE  Prefilled(s, b) = Tensors(CellsOf(PromptOf[s]), PromptOf[s])
<1>1. PICK prompt : prompt = PromptOf[s]
  OBVIOUS
<1>2. prompt \in Seq(Tokens) /\ prompt # << >> /\ Len(prompt) \in Nat
  BY <1>1, PromptAssumption, TextAssumption, LenProperties
<1>3. PICK n \in 0 .. Len(prompt) :
         /\ b.cells = CellsOf(PrefixOf(s, n))
         /\ b.logits # NoLogits => n = Len(prompt) /\ b.logits = prompt
  BY <1>1 DEF IsPrefixOf
<1>4. PICK first, suffix : first = SubSeq(prompt, 1, n)
                           /\ suffix = SubSeq(prompt, n + 1, Len(prompt))
  OBVIOUS
<1>5. first \in Seq(Tokens) /\ Len(first) = n /\ b.cells = CellsOf(first)
  BY <1>1, <1>2, <1>3, <1>4, SliceIsBeginning DEF PrefixOf
<1>6. PICK prefix : prefix = SliceCache(b.cells, Len(b.cells))
  OBVIOUS
<1>7. prefix = CellsOf(first) /\ Len(prefix) = n
  <2>1. b.cells \in Seq(Seq(Tokens)) /\ Len(b.cells) = n
    BY <1>5, CellsType
  <2>2. SubSeq(b.cells, 1, Len(b.cells)) = b.cells
    BY <2>1, SubSeqFull
  <2> QED BY <1>5, <1>6, <2>1, <2>2 DEF SliceCache
<1>8. Prefilled(s, b) =
        IF b.logits # NoLogits /\ Len(prefix) >= Len(prompt)
        THEN Tensors(prefix, b.logits)
        ELSE IF prefix # << >> /\ suffix # << >>
        THEN PrefillFromPrefix(suffix, prefix)
        ELSE Prefill(prompt)
  BY <1>1, <1>4, <1>6, <1>7 DEF Prefilled
<1>9. CASE b.logits # NoLogits /\ Len(prefix) >= Len(prompt)
  <2>1. n = Len(prompt) /\ b.logits = prompt
    BY <1>3, <1>9
  <2>2. first = prompt
    BY <1>2, <1>4, <2>1, SubSeqFull
  <2> QED BY <1>1, <1>7, <1>8, <1>9, <2>1, <2>2
<1>10. CASE ~(b.logits # NoLogits /\ Len(prefix) >= Len(prompt))
            /\ prefix # << >> /\ suffix # << >>
  <2>1. first \o suffix = prompt
    <3>1. 1 \in 1 .. Len(prompt) + 1 /\ n \in 1 - 1 .. Len(prompt)
          /\ Len(prompt) \in n .. Len(prompt)
      BY <1>2
    <3>2. SubSeq(prompt, 1, n) \o SubSeq(prompt, n + 1, Len(prompt))
            = SubSeq(prompt, 1, Len(prompt))
      BY <1>2, <3>1, ConcatAdjacentSubSeq
    <3> QED BY <1>2, <1>4, <3>2, SubSeqFull
  <2>2. suffix \in Seq(Tokens)
    <3>1. n + 1 \in Int /\ Len(prompt) \in Int
          /\ \A i \in n + 1 .. Len(prompt) : i \in 1 .. Len(prompt)
      BY <1>2
    <3>2. \A i \in n + 1 .. Len(prompt) : prompt[i] \in Tokens
      BY <1>2, <3>1, ElementOfSeq
    <3> QED BY <1>4, <3>1, <3>2, SubSeqProperties
  <2>3. PrefillFromPrefix(suffix, prefix) = Tensors(CellsOf(prompt), prompt)
    BY <1>5, <1>7, <1>10, <2>1, <2>2, SuffixReads
  <2> QED BY <1>1, <1>8, <1>10, <2>3
<1>11. CASE ~(b.logits # NoLogits /\ Len(prefix) >= Len(prompt))
            /\ ~(prefix # << >> /\ suffix # << >>)
  <2>1. Prefill(prompt) = Tensors(CellsOf(prompt), prompt)
    BY <1>2, PrefillReads
  <2> QED BY <1>1, <1>8, <1>11, <2>1
<1> QED BY <1>9, <1>10, <1>11


-----------------------------------------------------------------------------
(* A key of the prefix cache is a text.                                    *)
LEMMA KeysAreTexts ==
  ASSUME NEW k \in Keys
  PROVE  k \in Seq(Tokens)
<1>1. PICK s \in Seqs : \E n \in MinTokens .. Len(PromptOf[s]) : k = PrefixOf(s, n)
  BY DEF Keys
<1>2. PICK n \in MinTokens .. Len(PromptOf[s]) : k = PrefixOf(s, n)
  BY <1>1
<1>3. PromptOf[s] \in Seq(Tokens) /\ n \in 0 .. Len(PromptOf[s])
  <2>1. PromptOf[s] \in Seq(Tokens)
    BY PromptAssumption
  <2>2. Len(PromptOf[s]) \in Nat
    BY <2>1, LenProperties
  <2> QED BY <2>1, <2>2, MinAssumption
<1> QED BY <1>2, <1>3, SliceIsBeginning DEF PrefixOf

(* A text and its cells have the types of tensors, and so has what a call  *)
(* returned when it has read all.                                          *)
LEMMA TensorTypes ==
  ASSUME NEW text \in Seq(Tokens)
  PROVE  Tensors(CellsOf(text), text) \in TensorType
BY CellsType DEF Tensors, TensorType

(* What has been read is a text, with tensors of the same length.          *)
LEMMA ReadAllType ==
  ASSUME Types, NEW s \in Seqs
  PROVE  /\ TextOf(s) \in Seq(Tokens) /\ TextOf(s) # << >>
         /\ Len(TextOf(s)) = Len(PromptOf[s]) + Len(output[s])
         /\ ReadAll(s) \in TensorType
         /\ ReadAll(s).cells = CellsOf(TextOf(s)) /\ ReadAll(s).logits = TextOf(s)
         /\ CellsOf(TextOf(s)) # << >>
         /\ output[s] = << >> => TextOf(s) = PromptOf[s]
<1>1. PromptOf[s] \in Seq(Tokens) /\ PromptOf[s] # << >> /\ output[s] \in Seq(Tokens)
  BY PromptAssumption, TextAssumption DEF Types
<1>2. /\ TextOf(s) \in Seq(Tokens) /\ TextOf(s) # << >>
      /\ Len(TextOf(s)) = Len(PromptOf[s]) + Len(output[s])
      /\ CellsOf(TextOf(s)) # << >>
      /\ output[s] = << >> => TextOf(s) = PromptOf[s]
  BY <1>1, LongerText DEF TextOf
<1> QED BY <1>2, TensorTypes DEF ReadAll, Tensors

(* A sampled token is a token: the model gives every text a request may    *)
(* come to have a distribution over all of them.                           *)
LEMMA DrawsTokens ==
  ASSUME Types, NEW s \in Seqs, Len(output[s]) < MaxTokensOf[s], fresh[s] = ReadAll(s)
  PROVE  /\ Draws(s) \subseteq Tokens
         /\ Prob(s, TextOf(s)) \in [Tokens -> Nat]
         /\ Draws(s) = SampleLogits(Prob(s, TextOf(s)), SamplingOf[s])
<1>1. PICK text : text = TextOf(s)
  OBVIOUS
<1>2. /\ text \in Seq(Tokens) /\ text # << >>
      /\ Len(text) = Len(PromptOf[s]) + Len(output[s]) /\ fresh[s].logits = text
  BY <1>1, ReadAllType
<1>3. text \in Texts(s)
  <2>1. /\ Len(text) \in Nat \ {0} /\ text \in [1 .. Len(text) -> Tokens]
    BY <1>2, LenProperties, EmptySeq
  <2>2. Len(PromptOf[s]) \in Nat /\ Len(output[s]) \in Nat /\ MaxTokensOf[s] \in Nat
    BY PromptAssumption, LengthAssumption, LenProperties DEF Types
  <2>3. Len(text) \in 1 .. Len(PromptOf[s]) + MaxTokensOf[s]
    <3>1. PICK n, p, o, m : /\ n = Len(text) /\ p = Len(PromptOf[s])
                            /\ o = Len(output[s]) /\ m = MaxTokensOf[s]
      OBVIOUS
    <3>2. n \in Nat \ {0} /\ p \in Nat /\ o \in Nat /\ m \in Nat /\ n = p + o /\ o < m
      BY <1>2, <2>1, <2>2, <3>1
    <3>3. n \in 1 .. p + m
      BY <3>2
    <3> QED BY <3>1, <3>3
  <2> QED BY <2>1, <2>3 DEF Texts
<1>4. PICK w : w = Prob(s, text)
  OBVIOUS
<1>5. w \in [Tokens -> Nat]
  BY <1>3, <1>4, ProbAssumption
<1>6. Draws(s) = SampleLogits(w, SamplingOf[s])
  BY <1>2, <1>4 DEF Draws, Nothing
<1>7. SampleLogits(w, SamplingOf[s]) \subseteq DOMAIN w
  BY DEF SampleLogits
<1> QED BY <1>1, <1>4, <1>5, <1>6, <1>7

(* What a lookup hits is a beginning of the prompt.                        *)
LEMMA HitIsPrefix ==
  ASSUME kv \in KvType, NEW s \in Seqs, NEW k \in Hits(kv, s),
         IsEntryOf(k, content[k])
  PROVE  IsPrefixOf(s, HitOn(k, s)) /\ k \in Keys
<1>1. PICK prompt : prompt = PromptOf[s]
  OBVIOUS
<1>2. /\ k \in kv.stored /\ Len(k) <= Len(prompt)
      /\ SubSeq(k, 1, Len(k)) = SubSeq(prompt, 1, Len(k))
  BY <1>1 DEF Hits, IsPrefix
<1>3. k \in Keys /\ k \in Seq(Tokens) /\ prompt \in Seq(Tokens)
  <2>1. k \in Keys
    BY <1>2 DEF KvType
  <2> QED BY <1>1, <2>1, KeysAreTexts, PromptAssumption
<1>4. Len(k) \in 0 .. Len(prompt)
  <2>1. Len(k) \in Nat /\ Len(prompt) \in Nat
    BY <1>3, LenProperties
  <2> QED BY <1>2, <2>1
<1>5. k = PrefixOf(s, Len(k))
  BY <1>1, <1>2, <1>3, SubSeqFull DEF PrefixOf
<1>6. Len(k) = Len(prompt) => k = prompt
  BY <1>1, <1>3, <1>5, SubSeqFull DEF PrefixOf
<1>7. PICK b : b = HitOn(k, s)
  OBVIOUS
<1>8. /\ b.cells = content[k].cells
      /\ b.logits = IF Len(k) = Len(prompt) THEN content[k].logits ELSE NoLogits
  BY <1>1, <1>7 DEF HitOn, Tensors
<1>9. b.cells = CellsOf(PrefixOf(s, Len(k)))
  BY <1>5, <1>8 DEF IsEntryOf
<1>10. b.logits # NoLogits => Len(k) = Len(prompt) /\ b.logits = prompt
  BY <1>6, <1>8 DEF IsEntryOf
<1>11. IsPrefixOf(s, b)
  BY <1>1, <1>4, <1>9, <1>10 DEF IsPrefixOf
<1> QED BY <1>3, <1>7, <1>11

(* So what a sequence is bound to stays a beginning of its prompt.         *)
LEMMA BindToKeeps ==
  ASSUME kv \in KvType, Types,
         \A t \in Seqs : IsPrefixOf(t, bound[t]),
         \A k \in kv.stored : IsEntryOf(k, content[k]),
         NEW s \in Seqs, NEW k, k = NoKey \/ k \in Hits(kv, s),
         BindTo(k, s)
  PROVE  bound' \in [Seqs -> TensorType] /\ \A t \in Seqs : IsPrefixOf(t, bound'[t])
<1>1. CASE k = NoKey
  BY <1>1 DEF BindTo, Types
<1>2. CASE k # NoKey
  <2>1. bound' = [bound EXCEPT ![s] = HitOn(k, s)] /\ k \in Hits(kv, s)
    BY <1>2 DEF BindTo
  <2>2. IsPrefixOf(s, HitOn(k, s)) /\ k \in Keys
    <3>1. k \in kv.stored
      BY <2>1 DEF Hits
    <3> QED BY <2>1, <3>1, HitIsPrefix
  <2>3. HitOn(k, s) \in TensorType
    <3>1. content[k] \in TensorType /\ NoLogits \in Seq(Tokens)
      BY <2>2, EmptySeq DEF Types, NoLogits
    <3> QED BY <3>1 DEF TensorType, HitOn, Tensors
  <2>4. bound \in [Seqs -> TensorType]
    BY DEF Types
  <2> QED BY <2>1, <2>2, <2>3, <2>4
<1> QED BY <1>1, <1>2

(* The accounting has its type.                                            *)
LEMMA KvHasType == Inv => kv \in KvType
BY SameInTheorems DEF Inv, Acc!Inv, Acc!Good


-----------------------------------------------------------------------------
(* A step on behalf of others leaves a request as it is.                   *)
LEMMA OthersStay ==
  ASSUME NEW t \in Seqs,
         output'[t] = output[t], cache'[t] = cache[t], outcome'[t] = outcome[t]
  PROVE  /\ Serving(t) => Serving(t)'
         /\ NotServed(t) => NotServed(t)'
         /\ ReadAll(t)' = ReadAll(t)
BY DEF Serving, NotServed, ReadAll, TextOf

(* What the steps of the engine and of the loops around it must keep, part *)
(* by part; the accounting comes along when they keep to it.               *)
Keeps == CacheInv' /\ (Acc!Next \/ UNCHANGED Acc!vars)

(* A sequence that is bound to nothing starts its prefill from nothing.     *)
LEMMA NoTensorsArePrefix ==
  ASSUME NEW s \in Seqs
  PROVE  IsPrefixOf(s, NoTensors) /\ NoTensors \in TensorType
<1>1. NoTensors.cells = << >> /\ NoTensors.logits = NoLogits
  BY DEF NoTensors, Tensors
<1>2. 0 \in 0 .. Len(PromptOf[s])
  BY PromptAssumption, LenProperties
<1>3. PrefixOf(s, 0) = << >>
  BY SubSeqEmpty DEF PrefixOf
<1>4. CellsOf(<< >>) = << >>
  <2>1. PICK none : none = << >>
    OBVIOUS
  <2>2. none \in Seq(Tokens) /\ Len(none) = 0
    BY <2>1, EmptySeq
  <2>3. CellsOf(none) \in Seq(Seq(Tokens)) /\ Len(CellsOf(none)) = 0
    BY <2>2, CellsType
  <2> QED BY <2>1, <2>3, EmptySeq
<1>5. NoTensors \in TensorType
  BY EmptySeq DEF NoTensors, Tensors, NoLogits, TensorType
<1> QED BY <1>1, <1>2, <1>3, <1>4, <1>5 DEF IsPrefixOf

(* Nobody is served at first, and nothing is stored.                       *)
LEMMA InitInv == Init => Inv
<1> SUFFICES ASSUME Init PROVE Inv
  OBVIOUS
<1>1. NoTensors \in TensorType /\ << >> \in Seq(Tokens) /\ << >> \in Seq(Seq(Tokens))
  BY EmptySeq DEF NoTensors, Tensors, NoLogits, TensorType
<1>2. Types
  BY <1>1 DEF Init, Types
<1>3. held = {} /\ todo = {} /\ pc = "idle" /\ kv.stored = {}
  BY DEF Init, InitKv
<1>4. \A s \in Seqs : NotServed(s)
  BY DEF Init, NotServed
<1>5. \A s \in Seqs : IsPrefixOf(s, bound[s])
  BY NoTensorsArePrefix DEF Init
<1>6. CacheInv
  BY <1>2, <1>3, <1>4, <1>5 DEF CacheInv, CallInv
<1>7. Acc!Init
  BY SameInTheorems DEF Init, Acc!Init, AccHeld, AccDone
<1>8. Acc!Inv
  BY <1>7, Acc!InitInv, BlocksAssumption, BlockSizeAssumption, SeqsAssumption,
     PromptAssumption, LengthAssumption, MinAssumption, EntriesAssumption, CacheAssumption
  DEF IsFiniteSet, Acc!IsFiniteSet
<1> QED BY <1>6, <1>8 DEF Inv

(* An admission may bind the sequence to a stored prefix.                  *)
LEMMA AdmitKeeps ==
  ASSUME Inv, NEW s \in Seqs, Admit(s)
  PROVE  Keeps
<1>1. /\ pc = "idle" /\ engine # "cached" /\ s \notin held /\ outcome[s] = "none"
      /\ kv' \in Admitted(kv, s) /\ BindTo(kv'.key[s], s) /\ held' = held \cup {s}
      /\ UNCHANGED <<engine, content, cache, output, outcome, pc, cands, todo, fresh>>
  BY DEF Admit
<1>2. /\ CacheInv /\ Acc!Inv /\ Types /\ kv \in KvType
  BY KvHasType DEF Inv, CacheInv
<1>3. /\ AccHeld = held /\ AccHeld' = held \cup {s} /\ AccDone' = AccDone
      /\ s \notin AccHeld \cup AccDone
  BY <1>1 DEF AccHeld, AccDone
<1>4. Acc!Admit(s)
  BY <1>1, <1>3, SameInTheorems DEF Acc!Admit
<1>5. Binds(kv', s)
  BY <1>1, <1>2, <1>3, LookupsBind
<1>6. bound' \in [Seqs -> TensorType] /\ \A t \in Seqs : IsPrefixOf(t, bound'[t])
  <2>1. kv'.key[s] = NoKey \/ kv'.key[s] \in Hits(kv, s)
    BY <1>5, SameInTheorems DEF Binds
  <2> QED BY <1>1, <1>2, <2>1, BindToKeeps DEF CacheInv
<1>7. Types'
  BY <1>1, <1>2, <1>6 DEF Types
<1>8. \A t \in held' : Serving(t)'
  <2> TAKE t \in held'
  <2>1. CASE t \in held
    BY <1>1, <1>2, <2>1, OthersStay DEF CacheInv, Types
  <2>2. CASE t = s
    <3>1. cache[s] = << >> /\ output[s] = << >> /\ Len(output[s]) = 0
      BY <1>1, <1>2, EmptySeq DEF CacheInv, NotServed
    <3>2. 0 < MaxTokensOf[s]
      BY LengthAssumption
    <3> QED BY <1>1, <2>2, <3>1, <3>2 DEF Serving
  <2> QED BY <1>1, <2>1, <2>2
<1>9. \A t \in Seqs \ held' : NotServed(t)'
  BY <1>1, <1>2, OthersStay DEF CacheInv
<1>10. \A k \in kv'.stored : IsEntryOf(k, content'[k])
  BY <1>1, <1>2, <1>5 DEF CacheInv, Binds
<1>11. CallInv'
  <2>1. \A t \in todo' : fresh'[t] = ReadAll(t)'
    BY <1>1, <1>2, OthersStay DEF CacheInv, CallInv, Types
  <2> QED BY <1>1, <2>1 DEF CallInv
<1>12. CacheInv'
  BY <1>6, <1>7, <1>8, <1>9, <1>10, <1>11 DEF CacheInv, IsPrefixOf, IsEntryOf
<1> QED BY <1>4, <1>12 DEF Keeps, Acc!Next

(* The prefill reads the prompt, from whatever prefix it starts.           *)
LEMMA PrefillOneKeeps ==
  ASSUME Inv, NEW s \in Seqs, PrefillOne(s)
  PROVE  Keeps
<1>1. /\ engine # "cached" /\ s \in held /\ cache[s] = << >>
      /\ kv' \in LateBind(kv, s)
      /\ BindTo(IF kv.key[s] = NoKey THEN kv'.key[s] ELSE NoKey, s)
      /\ fresh' = [fresh EXCEPT ![s] = Prefilled(s, bound'[s])]
      /\ todo' = {s} /\ cands' = CandidateLengths(s) /\ pc' = "store"
      /\ UNCHANGED <<engine, content, held, cache, output, outcome>>
  BY DEF PrefillOne, Waiting
<1>2. /\ CacheInv /\ Acc!Inv /\ Types /\ kv \in KvType
  BY KvHasType DEF Inv, CacheInv
<1>3. AccHeld = held /\ AccHeld' = AccHeld /\ AccDone' = AccDone
  BY <1>1 DEF AccHeld, AccDone
<1>4. Acc!Bind(s)
  BY <1>1, <1>3, SameInTheorems DEF Acc!Bind
<1>5. IF kv.key[s] # NoKey THEN kv' = kv ELSE Binds(kv', s)
  BY <1>1, <1>2, <1>3, LookupsBind
<1>6. bound' \in [Seqs -> TensorType] /\ \A t \in Seqs : IsPrefixOf(t, bound'[t])
  <2>1. PICK k : k = IF kv.key[s] = NoKey THEN kv'.key[s] ELSE NoKey
    OBVIOUS
  <2>2. k = NoKey \/ k \in Hits(kv, s)
    BY <1>5, <2>1, SameInTheorems DEF Binds
  <2> QED BY <1>1, <1>2, <2>1, <2>2, BindToKeeps DEF CacheInv
<1>7. output[s] = << >>
  BY <1>1, <1>2 DEF CacheInv, Serving
<1>8. fresh'[s] = ReadAll(s) /\ fresh' \in [Seqs -> TensorType]
  <2>1. Prefilled(s, bound'[s]) = Tensors(CellsOf(PromptOf[s]), PromptOf[s])
    BY <1>6, PrefilledReads
  <2>2. Prefilled(s, bound'[s]) = ReadAll(s) /\ ReadAll(s) \in TensorType
    BY <1>2, <1>7, <2>1, ReadAllType DEF ReadAll
  <2>3. fresh \in [Seqs -> TensorType]
    BY <1>2 DEF Types
  <2> QED BY <1>1, <2>2, <2>3
<1>9. Types'
  <2>1. CandidateLengths(s) \subseteq Nat
    <3>1. Len(PromptOf[s]) \in Nat
      BY PromptAssumption, LenProperties
    <3> QED BY <3>1, MinAssumption DEF CandidateLengths
  <2> QED BY <1>1, <1>2, <1>6, <1>8, <2>1 DEF Types
<1>10. /\ \A t \in held' : Serving(t)'
       /\ \A t \in Seqs \ held' : NotServed(t)'
  BY <1>1, <1>2, OthersStay DEF CacheInv, Types
<1>11. \A k \in kv'.stored : IsEntryOf(k, content'[k])
  <2>1. kv'.stored = kv.stored
    BY <1>5 DEF Binds
  <2> QED BY <1>1, <1>2, <2>1 DEF CacheInv
<1>12. CallInv'
  <2>1. ReadAll(s)' = ReadAll(s)
    BY <1>1, OthersStay
  <2> QED BY <1>1, <1>7, <1>8, <2>1 DEF CallInv, CandidateLengths
<1>13. CacheInv'
  BY <1>6, <1>9, <1>10, <1>11, <1>12 DEF CacheInv, IsPrefixOf, IsEntryOf
<1> QED BY <1>4, <1>13 DEF Keeps, Acc!Next

(* An entry that is stored encodes its key.                                *)
LEMMA StoreNextKeeps ==
  ASSUME Inv, NEW s \in Seqs, StoreNext(s)
  PROVE  Keeps
<1>1. PICK n \in cands :
         /\ pc = "store" /\ s \in todo
         /\ cands' = cands \ {n} /\ kv' \in Insert(kv, s, n)
         /\ content' = [k \in Keys |->
                          IF k \notin kv'.stored THEN NoTensors
                          ELSE IF k \notin kv.stored THEN StoredTensors(s, n)
                          ELSE content[k]]
         /\ UNCHANGED <<engine, held, bound, cache, output, outcome, pc, todo, fresh>>
  BY DEF StoreNext
<1>2. /\ CacheInv /\ Acc!Inv /\ Types /\ kv \in KvType
  BY KvHasType DEF Inv, CacheInv
<1>3. /\ engine # "cached" /\ output[s] = << >> /\ n \in CandidateLengths(s)
      /\ fresh[s] = ReadAll(s) /\ s \in held
  BY <1>1, <1>2 DEF CacheInv, CallInv, Types
<1>4. AccHeld = held /\ AccHeld' = AccHeld /\ AccDone' = AccDone
  BY <1>1, <1>3 DEF AccHeld, AccDone
<1>5. Acc!Store(s)
  BY <1>1, <1>3, <1>4, SameInTheorems DEF Acc!Store
<1>6. kv'.stored \subseteq kv.stored \cup {PrefixOf(s, n)}
  BY <1>1, <1>2, <1>3, <1>4, WhatIsStored
<1>7. PICK k : k = PrefixOf(s, n)
  OBVIOUS
<1>8. k \in Keys /\ IsEntryOf(k, StoredTensors(s, n)) /\ StoredTensors(s, n) \in TensorType
  <2>1. PICK prompt : prompt = PromptOf[s]
    OBVIOUS
  <2>2. prompt \in Seq(Tokens) /\ n \in 0 .. Len(prompt) /\ n \in MinTokens .. Len(prompt)
    <3>1. prompt \in Seq(Tokens) /\ Len(prompt) \in Nat
      BY <2>1, PromptAssumption, LenProperties
    <3> QED BY <1>3, <2>1, <3>1, MinAssumption DEF CandidateLengths
  <2>3. fresh[s].cells = CellsOf(prompt) /\ fresh[s].logits = prompt
    BY <1>2, <1>3, <2>1, ReadAllType
  <2>4. SliceCache(CellsOf(prompt), n) = CellsOf(k) /\ k \in Seq(Tokens)
    BY <1>7, <2>1, <2>2, SliceIsBeginning DEF PrefixOf
  <2>5. n = Len(prompt) => k = prompt
    BY <1>7, <2>1, <2>2, SubSeqFull DEF PrefixOf
  <2>6. PICK c : c = StoredTensors(s, n)
    OBVIOUS
  <2>7. c = Tensors(CellsOf(k), IF n = Len(prompt) THEN prompt ELSE NoLogits)
    BY <2>1, <2>3, <2>4, <2>6 DEF StoredTensors
  <2>8. /\ c.cells = CellsOf(k) /\ c.logits \in {NoLogits, k}
        /\ CellsOf(k) \in Seq(Seq(Tokens)) /\ NoLogits \in Seq(Tokens)
    BY <2>4, <2>5, <2>7, CellsType, EmptySeq DEF Tensors, NoLogits
  <2>9. c \in TensorType
    BY <2>2, <2>7, <2>8 DEF Tensors, TensorType
  <2>10. k \in Keys
    BY <1>7, <2>1, <2>2 DEF Keys
  <2> QED BY <2>6, <2>8, <2>9, <2>10 DEF IsEntryOf
<1>9. Types'
  <2>1. NoTensors \in TensorType
    BY EmptySeq DEF NoTensors, Tensors, NoLogits, TensorType
  <2>2. content' \in [Keys -> TensorType]
    BY <1>1, <1>2, <1>8, <2>1 DEF Types
  <2> QED BY <1>1, <1>2, <2>2 DEF Types
<1>10. ASSUME NEW j \in kv'.stored
       PROVE  IsEntryOf(j, content'[j])
  <2>1. CASE j \in kv.stored
    <3>1. j \in Keys
      BY <1>2, <2>1 DEF KvType
    <3>2. content'[j] = content[j]
      BY <1>1, <2>1, <3>1
    <3> QED BY <1>2, <2>1, <3>2 DEF CacheInv
  <2>2. CASE j \notin kv.stored
    <3>1. j = k
      BY <1>6, <1>7, <2>2
    <3>2. content'[j] = StoredTensors(s, n)
      BY <1>1, <1>8, <2>2, <3>1
    <3> QED BY <1>8, <3>1, <3>2
  <2> QED BY <2>1, <2>2
<1>11. /\ \A t \in held' : Serving(t)'
       /\ \A t \in Seqs \ held' : NotServed(t)'
  BY <1>1, <1>2, OthersStay DEF CacheInv, Types
<1>12. CallInv'
  <2>1. \A t \in todo' : fresh'[t] = ReadAll(t)'
    BY <1>1, <1>2, OthersStay DEF CacheInv, CallInv, Types
  <2> QED BY <1>1, <1>2, <2>1 DEF CacheInv, CallInv, CandidateLengths
<1>13. \A t \in Seqs : IsPrefixOf(t, bound'[t])
  BY <1>1, <1>2 DEF CacheInv
<1>14. CacheInv'
  BY <1>9, <1>10, <1>11, <1>12, <1>13 DEF CacheInv, IsPrefixOf, IsEntryOf
<1> QED BY <1>5, <1>14 DEF Keeps, Acc!Next


(* adopt is about the pool only.                                           *)
LEMMA AdoptEntryKeeps ==
  ASSUME Inv, NEW s \in Seqs, AdoptEntry(s)
  PROVE  Keeps
<1>1. /\ pc = "store" /\ s \in todo /\ kv' \in Adopt(kv, s) /\ pc' = "rows"
      /\ UNCHANGED <<engine, content, held, bound, cache, output, outcome, cands, todo, fresh>>
  BY DEF AdoptEntry
<1>2. /\ CacheInv /\ Acc!Inv /\ Types
  BY DEF Inv, CacheInv
<1>3. engine # "cached" /\ s \in held
  BY <1>1, <1>2 DEF CacheInv, CallInv, Types
<1>4. AccHeld = held /\ AccHeld' = AccHeld /\ AccDone' = AccDone
  BY <1>1, <1>3 DEF AccHeld, AccDone
<1>5. Acc!AdoptEntry(s)
  BY <1>1, <1>3, <1>4, SameInTheorems DEF Acc!AdoptEntry
<1>6. kv'.stored = kv.stored
  BY <1>1, <1>2, <1>3, <1>4, WhatIsStored
<1>7. /\ \A t \in held' : Serving(t)'
      /\ \A t \in Seqs \ held' : NotServed(t)'
      /\ \A t \in todo' : fresh'[t] = ReadAll(t)'
  BY <1>1, <1>2, OthersStay DEF CacheInv, CallInv, Types
<1>8. /\ \A t \in Seqs : IsPrefixOf(t, bound'[t])
      /\ \A k \in kv'.stored : IsEntryOf(k, content'[k])
  BY <1>1, <1>2, <1>6 DEF CacheInv
<1>9. Types' /\ CallInv'
  BY <1>1, <1>2, <1>7 DEF Types, CallInv
<1>10. CacheInv'
  BY <1>7, <1>8, <1>9 DEF CacheInv, IsPrefixOf, IsEntryOf
<1> QED BY <1>5, <1>10 DEF Keeps, Acc!Next

(* A sequence that leaves leaves nothing of itself but the entries, which  *)
(* others may go on using.                                                 *)
LEMMA LeaveKeeps ==
  ASSUME Inv, NEW s \in held, Leave(s), NEW o \in {"stop", "length", "abort"},
         outcome' = [outcome EXCEPT ![s] = o], UNCHANGED <<engine, content>>
  PROVE  /\ Acc!Retire(s)
         /\ held' = held \ {s} /\ NotServed(s)'
         /\ cache' \in [Seqs -> Seq(Seq(Tokens))]
         /\ \A t \in Seqs \ {s} : cache'[t] = cache[t] /\ outcome'[t] = outcome[t]
         /\ bound' \in [Seqs -> TensorType] /\ \A t \in Seqs : IsPrefixOf(t, bound'[t])
         /\ \A k \in kv'.stored : IsEntryOf(k, content'[k])
<1>1. /\ kv' = ReleaseSeq(kv, s) /\ held' = held \ {s}
      /\ bound' = [bound EXCEPT ![s] = NoTensors]
      /\ cache' = [cache EXCEPT ![s] = << >>]
  BY DEF Leave
<1>2. CacheInv /\ Acc!Inv /\ Types /\ s \in Seqs
  BY DEF Inv, CacheInv, Types
<1>3. /\ bound \in [Seqs -> TensorType] /\ cache \in [Seqs -> Seq(Seq(Tokens))]
      /\ outcome \in [Seqs -> {"none", "stop", "length", "abort"}]
      /\ outcome[s] = "none"
  BY <1>2 DEF Types, CacheInv, Serving
<1>4. Acc!Retire(s)
  <2>1. AccHeld' = AccHeld \ {s} /\ AccDone' = AccDone \cup {s} /\ s \notin AccDone
    BY <1>1, <1>2, <1>3 DEF AccHeld, AccDone
  <2> QED BY <1>1, <2>1, SameInTheorems DEF Acc!Retire
<1>5. NotServed(s)'
  BY <1>1, <1>2, <1>3 DEF NotServed
<1>6. cache' \in [Seqs -> Seq(Seq(Tokens))]
  BY <1>1, <1>3, EmptySeq
<1>7. \A t \in Seqs \ {s} : cache'[t] = cache[t] /\ outcome'[t] = outcome[t]
  BY <1>1, <1>3
<1>8. bound' \in [Seqs -> TensorType] /\ \A t \in Seqs : IsPrefixOf(t, bound'[t])
  BY <1>1, <1>2, <1>3, NoTensorsArePrefix DEF CacheInv
<1>9. \A k \in kv'.stored : IsEntryOf(k, content'[k])
  <2>1. kv'.stored = kv.stored
    BY <1>1, <1>2, WhatIsStored
  <2> QED BY <1>2, <2>1 DEF CacheInv
<1> QED BY <1>1, <1>4, <1>5, <1>6, <1>7, <1>8, <1>9

(* Its place in the call, too, does not concern the others.                *)
LEMMA CallDoneKeeps ==
  ASSUME CacheInv, NEW s \in Seqs, CallDone(s)
  PROVE  /\ todo' = todo \ {s} /\ fresh' \in [Seqs -> TensorType]
         /\ \A t \in todo' : t # s /\ t \in todo /\ fresh'[t] = fresh[t]
         /\ pc' \in {"idle", pc}
<1>1. fresh \in [Seqs -> TensorType] /\ NoTensors \in TensorType /\ todo \subseteq Seqs
  BY NoTensorsArePrefix DEF CacheInv, Types
<1> QED BY <1>1 DEF CallDone

(* A sequence that ends, by its last token or by an abort, while a call    *)
(* may go on for others.                                                   *)
LEMMA EndKeeps ==
  ASSUME Inv, NEW s \in held, Leave(s), NEW o \in {"stop", "length", "abort"},
         outcome' = [outcome EXCEPT ![s] = o], UNCHANGED <<engine, content, cands>>,
         output' \in [Seqs -> Seq(Tokens)], \A t \in Seqs \ {s} : output'[t] = output[t],
         pc # "store", pc' \in {"idle", pc},
         todo' = todo \ {s}, fresh' \in [Seqs -> TensorType],
         \A t \in todo' : fresh'[t] = fresh[t]
  PROVE  Keeps
<1>1. /\ Acc!Retire(s)
      /\ held' = held \ {s} /\ NotServed(s)'
      /\ cache' \in [Seqs -> Seq(Seq(Tokens))]
      /\ \A t \in Seqs \ {s} : cache'[t] = cache[t] /\ outcome'[t] = outcome[t]
      /\ bound' \in [Seqs -> TensorType] /\ \A t \in Seqs : IsPrefixOf(t, bound'[t])
      /\ \A k \in kv'.stored : IsEntryOf(k, content'[k])
  BY LeaveKeeps
<1>2. CacheInv /\ Types /\ s \in Seqs
  BY DEF Inv, CacheInv, Types
<1>3. \A t \in Seqs \ {s} : /\ Serving(t) => Serving(t)'
                            /\ NotServed(t) => NotServed(t)'
                            /\ ReadAll(t)' = ReadAll(t)
  BY <1>1, OthersStay
<1>4. Types'
  <2>1. outcome' \in [Seqs -> {"none", "stop", "length", "abort"}]
    BY <1>2 DEF Types
  <2> QED BY <1>1, <1>2, <2>1 DEF Types
<1>5. \A t \in held' : Serving(t)'
  BY <1>1, <1>2, <1>3 DEF CacheInv, Types
<1>6. \A t \in Seqs \ held' : NotServed(t)'
  BY <1>1, <1>2, <1>3 DEF CacheInv
<1>7. CallInv'
  <2>1. \A t \in todo' : fresh'[t] = ReadAll(t)'
    BY <1>2, <1>3 DEF CacheInv, CallInv, Types
  <2>2. pc' # "store"
    OBVIOUS
  <2> QED BY <2>1, <2>2 DEF CallInv
<1>8. CacheInv'
  BY <1>1, <1>4, <1>5, <1>6, <1>7 DEF CacheInv, IsPrefixOf, IsEntryOf
<1> QED BY <1>1, <1>2, <1>8 DEF Keeps, Acc!Next

(* Aborted between two calls, or when its row is reached.                  *)
LEMMA AbortOneKeeps ==
  ASSUME Inv, NEW s \in Seqs, AbortOne(s)
  PROVE  Keeps
<1>1. /\ s \in held /\ pc # "store" /\ Leave(s)
      /\ outcome' = [outcome EXCEPT ![s] = "abort"]
      /\ IF s \in todo THEN CallDone(s) ELSE UNCHANGED <<todo, fresh, pc>>
      /\ UNCHANGED <<engine, content, output, cands>>
  BY DEF AbortOne
<1>2. CacheInv /\ Types
  BY DEF Inv, CacheInv
<1>3. /\ pc' \in {"idle", pc} /\ todo' = todo \ {s} /\ fresh' \in [Seqs -> TensorType]
      /\ \A t \in todo' : fresh'[t] = fresh[t]
  <2>1. CASE s \in todo
    BY <1>1, <1>2, <2>1, CallDoneKeeps
  <2>2. CASE s \notin todo
    BY <1>1, <1>2, <2>2 DEF Types
  <2> QED BY <2>1, <2>2
<1>4. output' \in [Seqs -> Seq(Tokens)]
  BY <1>1, <1>2 DEF Types
<1> QED BY <1>1, <1>3, <1>4, EndKeeps

(* A row is taken: the text has one token more, and the cache is that of   *)
(* the text before it.                                                     *)
LEMMA TakeTokenKeeps ==
  ASSUME Inv, NEW s \in Seqs, TakeToken(s)
  PROVE  Keeps
<1>1. PICK t \in Draws(s) :
         /\ pc = "rows" /\ s \in todo
         /\ output' = [output EXCEPT ![s] = Append(@, t)]
         /\ \E o \in {Reason(s, output'[s])}
                        \cup IF engine # "cached" /\ output[s] = << >> THEN {"abort"} ELSE {} :
               /\ outcome' = [outcome EXCEPT ![s] = o]
               /\ IF o = "none"
                  THEN /\ cache' = [cache EXCEPT ![s] = fresh[s].cells]
                       /\ UNCHANGED <<kv, held, bound>>
                  ELSE Leave(s)
         /\ CallDone(s)
         /\ UNCHANGED <<engine, content, cands>>
  BY DEF TakeToken
<1>2. PICK o :
         /\ o = Reason(s, output'[s]) \/ o = "abort"
         /\ outcome' = [outcome EXCEPT ![s] = o]
         /\ IF o = "none"
            THEN /\ cache' = [cache EXCEPT ![s] = fresh[s].cells]
                 /\ UNCHANGED <<kv, held, bound>>
            ELSE Leave(s)
  BY <1>1
<1>3. /\ CacheInv /\ Types /\ s \in held /\ Serving(s) /\ fresh[s] = ReadAll(s)
      /\ output \in [Seqs -> Seq(Tokens)]
  BY <1>1 DEF Inv, CacheInv, CallInv, Types
<1>4. t \in Tokens /\ Len(output[s]) < MaxTokensOf[s]
  BY <1>3, DrawsTokens DEF Serving
<1>5. /\ output'[s] = Append(output[s], t) /\ output'[s] \in Seq(Tokens)
      /\ output'[s] # << >> /\ Front(output'[s]) = output[s]
      /\ output' \in [Seqs -> Seq(Tokens)] /\ \A r \in Seqs \ {s} : output'[r] = output[r]
  <2>1. output[s] \in Seq(Tokens)
    BY <1>3
  <2>2. /\ Append(output[s], t) \in Seq(Tokens) /\ Append(output[s], t) # << >>
        /\ Front(Append(output[s], t)) = output[s]
    BY <1>4, <2>1, GrownFrontAndLast
  <2> QED BY <1>1, <1>3, <2>2
<1>6. /\ todo' = todo \ {s} /\ fresh' \in [Seqs -> TensorType]
      /\ \A r \in todo' : r # s /\ r \in todo /\ fresh'[r] = fresh[r]
      /\ pc' \in {"idle", pc}
  BY <1>1, <1>3, CallDoneKeeps
<1>7. CASE o # "none"
  <2>1. o \in {"stop", "length", "abort"}
    BY <1>2, <1>7 DEF Reason
  <2> QED BY <1>1, <1>2, <1>3, <1>5, <1>6, <1>7, <2>1, EndKeeps
<1>8. CASE o = "none"
  <2>1. Len(output'[s]) < MaxTokensOf[s]
    <3>1. ~(Len(output'[s]) >= MaxTokensOf[s])
      BY <1>2, <1>8 DEF Reason
    <3>2. Len(output'[s]) \in Nat /\ MaxTokensOf[s] \in Nat
      BY <1>5, LenProperties, LengthAssumption
    <3> QED BY <3>1, <3>2
  <2>2. /\ cache' = [cache EXCEPT ![s] = CellsOf(TextOf(s))]
        /\ CellsOf(TextOf(s)) # << >> /\ CellsOf(TextOf(s)) \in Seq(Seq(Tokens))
        /\ kv' = kv /\ held' = held /\ bound' = bound
    BY <1>2, <1>3, <1>8, ReadAllType, CellsType
  <2>3. outcome' = outcome
    BY <1>2, <1>3, <1>8 DEF Serving, Types
  <2>4. Types'
    BY <1>1, <1>3, <1>5, <1>6, <2>2, <2>3 DEF Types
  <2>5. \A r \in Seqs \ {s} : /\ Serving(r) => Serving(r)'
                              /\ NotServed(r) => NotServed(r)'
                              /\ ReadAll(r)' = ReadAll(r)
    BY <1>3, <1>5, <2>2, <2>3, OthersStay DEF Types
  <2>6. Serving(s)'
    <3>1. cache'[s] = CellsOf(TextOf(s)) /\ cache'[s] # << >>
      BY <1>3, <2>2 DEF Types
    <3>2. CellsOf(TextOf(s)) = CellsOf(PromptOf[s] \o Front(output'[s]))
      BY <1>5 DEF TextOf
    <3> QED BY <1>3, <1>5, <2>1, <2>3, <3>1, <3>2 DEF Serving
  <2>7. /\ \A r \in held' : Serving(r)'
        /\ \A r \in Seqs \ held' : NotServed(r)'
    BY <1>3, <2>2, <2>5, <2>6 DEF CacheInv, Types
  <2>8. /\ \A r \in Seqs : IsPrefixOf(r, bound'[r])
        /\ \A k \in kv'.stored : IsEntryOf(k, content'[k])
    BY <1>1, <1>3, <2>2 DEF CacheInv
  <2>9. CallInv'
    <3>1. \A r \in todo' : fresh'[r] = ReadAll(r)'
      BY <1>3, <1>6, <2>5 DEF CacheInv, CallInv, Types
    <3>2. pc' # "store"
      BY <1>1, <1>6
    <3> QED BY <3>1, <3>2 DEF CallInv
  <2>10. CacheInv'
    BY <2>4, <2>7, <2>8, <2>9 DEF CacheInv, IsPrefixOf, IsEntryOf
  <2>11. UNCHANGED Acc!vars
    BY <1>1, <2>2, <2>3 DEF Acc!vars, AccHeld, AccDone
  <2> QED BY <2>10, <2>11 DEF Keeps
<1> QED BY <1>7, <1>8


(* A decode step changes nothing until its rows are taken; the rows are    *)
(* those of the whole texts.                                               *)
LEMMA CallStarts ==
  ASSUME Inv, UNCHANGED <<engine, kv, content, held, bound, cache, output, outcome, cands>>,
         pc' = "rows", todo' \subseteq held, fresh' \in [Seqs -> TensorType],
         \A t \in todo' : fresh'[t] = ReadAll(t)
  PROVE  Keeps
<1>1. CacheInv /\ Types
  BY DEF Inv, CacheInv
<1>2. \A t \in Seqs : /\ Serving(t) => Serving(t)'
                      /\ NotServed(t) => NotServed(t)'
                      /\ ReadAll(t)' = ReadAll(t)
  BY OthersStay
<1>3. Types'
  BY <1>1 DEF Types
<1>4. CallInv'
  BY <1>1, <1>2 DEF CallInv, Types
<1>5. CacheInv'
  BY <1>1, <1>2, <1>3, <1>4 DEF CacheInv, Types, IsPrefixOf, IsEntryOf
<1>6. UNCHANGED Acc!vars
  BY DEF Acc!vars, AccHeld, AccDone
<1> QED BY <1>5, <1>6 DEF Keeps

(* The text a decode step goes on from lacks the last token, which it      *)
(* reads.                                                                  *)
LEMMA DecodingTexts ==
  ASSUME CacheInv, NEW s \in Decoding
  PROVE  /\ s \in held /\ s \in Seqs
         /\ PromptOf[s] \o Front(output[s]) \in Seq(Tokens) /\ Last(output[s]) \in Tokens
         /\ cache[s] = CellsOf(PromptOf[s] \o Front(output[s]))
         /\ Append(PromptOf[s] \o Front(output[s]), Last(output[s])) = TextOf(s)
<1>1. /\ s \in held /\ s \in Seqs /\ cache[s] # << >> /\ Serving(s)
  BY DEF Decoding, Waiting, CacheInv, Types
<1>2. /\ output[s] # << >> /\ cache[s] = CellsOf(PromptOf[s] \o Front(output[s]))
  BY <1>1 DEF Serving
<1>3. PromptOf[s] \in Seq(Tokens) /\ output[s] \in Seq(Tokens)
  BY <1>1, PromptAssumption DEF CacheInv, Types
<1> QED BY <1>1, <1>2, <1>3, FrontAndLast DEF TextOf

(* The batch.                                                              *)
LEMMA DecodeAllKeeps ==
  ASSUME Inv, DecodeAll
  PROVE  Keeps
<1>1. PICK tokens, caches :
         /\ tokens = [s \in Decoding |-> Last(output[s])]
         /\ caches = [s \in Decoding |-> cache[s]]
  OBVIOUS
<1>2. /\ fresh' = [s \in Seqs |-> IF s \in Decoding THEN DecodeBatch(tokens, caches)[s]
                                  ELSE NoTensors]
      /\ Decoding # {} /\ todo' = Decoding /\ pc' = "rows"
      /\ UNCHANGED <<engine, kv, content, held, bound, cache, output, outcome, cands>>
  BY <1>1 DEF DecodeAll
<1>3. CacheInv /\ Types
  BY DEF Inv, CacheInv
<1>4. \A s \in Decoding :
         /\ s \in held /\ s \in Seqs
         /\ PromptOf[s] \o Front(output[s]) \in Seq(Tokens) /\ Last(output[s]) \in Tokens
         /\ cache[s] = CellsOf(PromptOf[s] \o Front(output[s]))
         /\ Append(PromptOf[s] \o Front(output[s]), Last(output[s])) = TextOf(s)
  BY <1>3, DecodingTexts
<1>5. PICK texts : texts = [s \in Decoding |-> PromptOf[s] \o Front(output[s])]
  OBVIOUS
<1>6. ASSUME NEW s \in Decoding
      PROVE  DecodeBatch(tokens, caches)[s] = ReadAll(s)
  <2>1. /\ Decoding \in SUBSET Seqs /\ texts \in [Decoding -> Seq(Tokens)]
        /\ tokens \in [Decoding -> Tokens]
        /\ caches = [t \in Decoding |-> CellsOf(texts[t])]
    BY <1>1, <1>4, <1>5
  <2>2. DecodeBatch(tokens, caches)[s]
          = Tensors(CellsOf(Append(texts[s], tokens[s])), Append(texts[s], tokens[s]))
    BY <1>2, <2>1, BatchIsAlone
  <2>3. Append(texts[s], tokens[s]) = TextOf(s)
    BY <1>1, <1>4, <1>5
  <2> QED BY <2>2, <2>3 DEF ReadAll
<1>7. \A s \in todo' : fresh'[s] = ReadAll(s)
  BY <1>2, <1>4, <1>6
<1>8. fresh' \in [Seqs -> TensorType]
  <2>1. \A s \in Decoding : DecodeBatch(tokens, caches)[s] \in TensorType
    BY <1>3, <1>4, <1>6, ReadAllType
  <2>2. \A s \in Seqs : NoTensors \in TensorType
    BY NoTensorsArePrefix
  <2> QED BY <1>2, <2>1, <2>2
<1>9. todo' \subseteq held
  BY <1>2, <1>4
<1> QED BY <1>2, <1>7, <1>8, <1>9, CallStarts

(* One sequence alone.                                                     *)
LEMMA DecodeAloneKeeps ==
  ASSUME Inv, NEW s \in Seqs, DecodeAlone(s)
  PROVE  Keeps
<1>1. /\ s \in Decoding
      /\ fresh' = [fresh EXCEPT ![s] = Decode(Last(output[s]), cache[s])]
      /\ todo' = {s} /\ pc' = "rows"
      /\ UNCHANGED <<engine, kv, content, held, bound, cache, output, outcome, cands>>
  BY DEF DecodeAlone
<1>2. CacheInv /\ Types
  BY DEF Inv, CacheInv
<1>3. Decode(Last(output[s]), cache[s]) = ReadAll(s) /\ s \in held
  BY <1>1, <1>2, DecodingTexts, DecodeReads DEF ReadAll
<1>4. fresh'[s] = ReadAll(s) /\ fresh' \in [Seqs -> TensorType]
  BY <1>1, <1>2, <1>3, ReadAllType DEF Types
<1> QED BY <1>1, <1>3, <1>4, CallStarts

(* CachedEngine by itself, which knows neither the pool nor the cache.     *)
LEMMA GenerateIdsKeeps ==
  ASSUME Inv, NEW s \in Seqs, GenerateIds(s)
  PROVE  Keeps
<1>1. /\ engine = "cached" /\ held = {} /\ outcome[s] = "none"
      /\ held' = {s} /\ todo' = {s} /\ pc' = "rows"
      /\ fresh' = [fresh EXCEPT ![s] = Prefill(PromptOf[s])]
      /\ UNCHANGED <<engine, kv, content, bound, cache, output, outcome, cands>>
  BY DEF GenerateIds
<1>2. CacheInv /\ Types
  BY DEF Inv, CacheInv
<1>3. cache[s] = << >> /\ output[s] = << >>
  BY <1>1, <1>2 DEF CacheInv, NotServed
<1>4. Prefill(PromptOf[s]) = ReadAll(s)
  <2>1. PromptOf[s] \in Seq(Tokens) /\ PromptOf[s] # << >> /\ TextOf(s) = PromptOf[s]
    BY <1>2, <1>3, PromptAssumption, TextAssumption, ReadAllType
  <2> QED BY <2>1, PrefillReads DEF ReadAll
<1>5. fresh'[s] = ReadAll(s) /\ fresh' \in [Seqs -> TensorType]
  BY <1>1, <1>2, <1>4, ReadAllType DEF Types
<1>6. \A t \in Seqs : /\ NotServed(t) => NotServed(t)'
                      /\ ReadAll(t)' = ReadAll(t)
  BY <1>1, OthersStay
<1>7. Types'
  BY <1>1, <1>2, <1>5 DEF Types
<1>8. Serving(s)'
  <2>1. 0 < MaxTokensOf[s] /\ Len(output[s]) = 0
    BY <1>3, LengthAssumption, EmptySeq
  <2> QED BY <1>1, <1>3, <2>1 DEF Serving
<1>9. /\ \A t \in held' : Serving(t)'
      /\ \A t \in Seqs \ held' : NotServed(t)'
  BY <1>1, <1>2, <1>6, <1>8 DEF CacheInv
<1>10. CallInv'
  BY <1>1, <1>5, <1>6 DEF CallInv
<1>11. CacheInv'
  BY <1>1, <1>2, <1>7, <1>9, <1>10 DEF CacheInv, IsPrefixOf, IsEntryOf
<1>12. UNCHANGED Acc!vars
  BY <1>1 DEF Acc!vars, AccHeld, AccDone
<1> QED BY <1>11, <1>12 DEF Keeps

-----------------------------------------------------------------------------
(* Every step keeps the caches what they are, and keeps to KvAccounting.   *)
LEMMA NextKeeps == Inv /\ [Next]_vars => Keeps
<1> SUFFICES ASSUME Inv, [Next]_vars PROVE Keeps
  OBVIOUS
<1>1. CASE DecodeAll
  BY <1>1, DecodeAllKeeps
<1>2. CASE \E s \in Seqs :
              \/ Admit(s) \/ PrefillOne(s) \/ StoreNext(s) \/ AdoptEntry(s)
              \/ TakeToken(s) \/ DecodeAlone(s) \/ GenerateIds(s) \/ AbortOne(s)
  BY <1>2, AdmitKeeps, PrefillOneKeeps, StoreNextKeeps, AdoptEntryKeeps, TakeTokenKeeps,
     DecodeAloneKeeps, GenerateIdsKeeps, AbortOneKeeps
<1>3. CASE UNCHANGED vars
  <2>1. CacheInv
    BY DEF Inv
  <2>2. Types' /\ CallInv'
    BY <1>3, <2>1 DEF vars, CacheInv, Types, CallInv, ReadAll, TextOf
  <2>3. \A t \in Seqs : /\ Serving(t) => Serving(t)'
                        /\ NotServed(t) => NotServed(t)'
    BY <1>3, OthersStay DEF vars
  <2>4. CacheInv'
    BY <1>3, <2>1, <2>2, <2>3 DEF vars, CacheInv, Types, IsPrefixOf, IsEntryOf
  <2>5. UNCHANGED Acc!vars
    BY <1>3 DEF vars, Acc!vars, AccHeld, AccDone
  <2> QED BY <2>4, <2>5 DEF Keeps
<1> QED BY <1>1, <1>2, <1>3 DEF Next

(* The invariant is inductive.                                             *)
LEMMA NextInv == Inv /\ [Next]_vars => Inv'
<1> SUFFICES ASSUME Inv, [Next]_vars PROVE Inv'
  OBVIOUS
<1>1. CacheInv' /\ (Acc!Next \/ UNCHANGED Acc!vars)
  BY NextKeeps DEF Keeps
<1>2. Acc!Inv'
  BY <1>1, AccountingStep DEF Inv
<1> QED BY <1>1, <1>2 DEF Inv

(* The inductive invariant holds in every reachable state.                 *)
THEOREM InvariantHolds == Spec => []Inv
BY InitInv, NextInv, PTL DEF Spec

(* Type correctness.                                                       *)
THEOREM TypeCorrect == Spec => []TypeOK
<1>1. Inv => TypeOK
  BY KvHasType DEF Inv, CacheInv, Types, TypeOK
<1> QED BY <1>1, InvariantHolds, PTL

(* The cache of a sequence holds its own text and nothing else, whatever   *)
(* prefix its prefill started from and whichever batches it was in; an     *)
(* entry of the prefix cache encodes its key.                              *)
THEOREM CachesHoldText == Spec => []CacheHoldsText
<1>1. Inv => CacheHoldsText
  <2> SUFFICES ASSUME Inv PROVE CacheHoldsText
    OBVIOUS
  <2>1. CacheInv
    BY DEF Inv
  <2> QED BY <2>1, DecodingTexts DEF CacheHoldsText, CacheInv, IsEntryOf
<1> QED BY <1>1, InvariantHolds, PTL

(* The engine uses the pool and the cache as KvAccounting allows, so that  *)
(* its theorems hold of it.                                                *)
THEOREM ImplementsAccounting == Spec => Acc!Spec
<1>1. Init => Acc!Init
  BY SameInTheorems DEF Init, Acc!Init, AccHeld, AccDone
<1>2. Inv /\ [Next]_vars => [Acc!Next]_(Acc!vars)
  BY NextKeeps DEF Keeps
<1> QED BY <1>1, <1>2, InvariantHolds, PTL DEF Spec, Acc!Spec


-----------------------------------------------------------------------------
(* Probabilities add up.  The mass of a set of tokens, a recursive         *)
(* function of the set, is the number of its units.                        *)
UnitsOf(w, x) == {x} \X (1 .. w[x])
Units(w, A) == UNION {UnitsOf(w, x) : x \in A}

(* One token more, one token's units more.                                 *)
LEMMA UnitsOfOneMore ==
  ASSUME NEW T, IsFiniteSet(T), NEW w \in [T -> Nat], NEW A \in SUBSET T, NEW x \in A,
         IsFiniteSet(Units(w, A \ {x}))
  PROVE  /\ IsFiniteSet(Units(w, A))
         /\ Cardinality(Units(w, A)) = w[x] + Cardinality(Units(w, A \ {x}))
<1>1. PICK one, rest : one = UnitsOf(w, x) /\ rest = Units(w, A \ {x})
  OBVIOUS
<1>2. IsFiniteSet(one) /\ Cardinality(one) = w[x]
  <2>1. w[x] \in Nat
    OBVIOUS
  <2>2. IsFiniteSet(1 .. w[x]) /\ Cardinality(1 .. w[x]) = w[x]
    <3>1. /\ IsFiniteSet(1 .. w[x])
          /\ Cardinality(1 .. w[x]) = IF 1 > w[x] THEN 0 ELSE w[x] - 1 + 1
      BY <2>1, FS_Interval
    <3> QED BY <2>1, <3>1
  <2>3. IsFiniteSet({x}) /\ Cardinality({x}) = 1
    BY FS_Singleton
  <2>4. PICK steps : steps = 1 .. w[x]
    OBVIOUS
  <2>5. IsFiniteSet({x} \X steps) /\ Cardinality({x} \X steps) = 1 * w[x]
    <3>1. PICK n : n = w[x]
      OBVIOUS
    <3>2. IsFiniteSet(steps) /\ Cardinality(steps) = n
      BY <2>2, <2>4, <3>1
    <3>3. PICK only : only = {x}
      OBVIOUS
    <3>4. IsFiniteSet(only) /\ Cardinality(only) = 1
      BY <2>3, <3>3
    <3>5. /\ IsFiniteSet(only \X steps)
          /\ Cardinality(only \X steps) = Cardinality(only) * Cardinality(steps)
      BY <3>2, <3>4, FS_Product
    <3> QED BY <3>1, <3>2, <3>3, <3>4, <3>5
  <2> QED BY <1>1, <2>1, <2>4, <2>5 DEF UnitsOf
<1>3. one \cap rest = {}
  BY <1>1 DEF Units, UnitsOf
<1>4. Units(w, A) = one \cup rest
  BY <1>1 DEF Units
<1>5. /\ IsFiniteSet(rest) /\ IsFiniteSet(one \cup rest)
      /\ Cardinality(one \cup rest) = Cardinality(one) + Cardinality(rest) - Cardinality({})
  <2>1. IsFiniteSet(one) /\ IsFiniteSet(rest)
    BY <1>1, <1>2
  <2>2. /\ IsFiniteSet(one \cup rest)
        /\ Cardinality(one \cup rest)
             = Cardinality(one) + Cardinality(rest) - Cardinality(one \cap rest)
    BY <2>1, FS_Union
  <2> QED BY <1>3, <2>1, <2>2
<1>6. Cardinality(rest) \in Nat /\ Cardinality({}) = 0
  BY <1>5, FS_CardinalityType, FS_EmptySet
<1> QED BY <1>1, <1>2, <1>4, <1>5, <1>6

(* So a finite set of tokens has finitely many.                            *)
LEMMA UnitsAreFinite ==
  ASSUME NEW T, IsFiniteSet(T), NEW w \in [T -> Nat], NEW S \in SUBSET T
  PROVE  IsFiniteSet(Units(w, S)) /\ IsFiniteSet(S)
<1> DEFINE N == {n \in Nat : \A A \in SUBSET T : Cardinality(A) = n => IsFiniteSet(Units(w, A))}
<1>1. 0 \in N
  <2> SUFFICES ASSUME NEW A \in SUBSET T, Cardinality(A) = 0 PROVE IsFiniteSet(Units(w, A))
    OBVIOUS
  <2>1. A = {}
    BY FS_Subset, FS_EmptySet
  <2>2. Units(w, A) = {}
    BY <2>1 DEF Units
  <2> QED BY <2>2, FS_EmptySet
<1>2. ASSUME NEW n \in N
      PROVE  n + 1 \in N
  <2> SUFFICES ASSUME NEW A \in SUBSET T, Cardinality(A) = n + 1 PROVE IsFiniteSet(Units(w, A))
    OBVIOUS
  <2>1. IsFiniteSet(A) /\ A # {}
    BY FS_Subset, FS_EmptySet
  <2>2. PICK x \in A : TRUE
    BY <2>1
  <2>3. A \ {x} \in SUBSET T /\ Cardinality(A \ {x}) = n
    <3>1. Cardinality(A \ {x}) = Cardinality(A) - 1
      BY <2>1, <2>2, FS_RemoveElement
    <3> QED BY <3>1
  <2>4. IsFiniteSet(Units(w, A \ {x}))
    BY <2>3
  <2> QED BY <2>2, <2>4, UnitsOfOneMore
<1>3. N \subseteq Nat
  OBVIOUS
<1> HIDE DEF N
<1>4. N = Nat
  BY <1>1, <1>2, <1>3, Induction
<1>5. IsFiniteSet(S) /\ Cardinality(S) \in N
  BY <1>4, FS_Subset, FS_CardinalityType
<1> QED BY <1>5 DEF N

(* The functions that add up a set token by token, whichever comes first.  *)
Adding(f, w, S) ==
    f = [A \in SUBSET S |->
            IF A = {} THEN 0
            ELSE LET x == CHOOSE x \in A : TRUE IN w[x] + f[A \ {x}]]

(* The mass is the value of such a function, also in NaiveDecoding.        *)
LEMMA MassIsAdding ==
  ASSUME NEW w, NEW S
  PROVE  Mass(w, S) = (CHOOSE f : Adding(f, w, S))[S]
BY Zenon DEF Mass, MapThenSumSet, MapThenFoldSet, Adding

(* The mass of a set is the same thing in both modules.                    *)
LEMMA SameMass ==
  ASSUME NEW w, NEW S
  PROVE  Naive!Mass(w, S) = Mass(w, S)
BY Zenon DEF Mass, MapThenSumSet, MapThenFoldSet,
             Naive!Mass, Naive!MapThenSumSet, Naive!MapThenFoldSet

(* There is one such function, and it counts the units.                    *)
LEMMA MassCountsUnits ==
  ASSUME NEW T, IsFiniteSet(T), NEW w \in [T -> Nat], NEW S \in SUBSET T
  PROVE  Mass(w, S) = Cardinality(Units(w, S))
<1> DEFINE g == [A \in SUBSET S |-> Cardinality(Units(w, A))]
<1>1. ASSUME NEW A \in SUBSET S, NEW f,
             A # {} => \A x \in A : f[A \ {x}] = g[A \ {x}]
      PROVE  g[A] = IF A = {} THEN 0
                    ELSE LET x == CHOOSE x \in A : TRUE IN w[x] + f[A \ {x}]
  <2>1. CASE A = {}
    <3>1. Units(w, A) = {}
      BY <2>1 DEF Units
    <3> QED BY <2>1, <3>1, FS_EmptySet
  <2>2. CASE A # {}
    <3>1. PICK x : x = CHOOSE y \in A : TRUE
      OBVIOUS
    <3>2. x \in A
      BY <2>2, <3>1
    <3>3. IsFiniteSet(Units(w, A \ {x}))
      BY UnitsAreFinite
    <3>4. Cardinality(Units(w, A)) = w[x] + Cardinality(Units(w, A \ {x}))
      BY <3>2, <3>3, UnitsOfOneMore
    <3>5. f[A \ {x}] = Cardinality(Units(w, A \ {x}))
      BY <1>1, <2>2, <3>2
    <3> QED BY <2>2, <3>1, <3>4, <3>5
  <2> QED BY <2>1, <2>2
<1>2. \A A \in SUBSET S : g[A] = Cardinality(Units(w, A))
  OBVIOUS
<1>3. g = [A \in SUBSET S |-> g[A]]
  OBVIOUS
<1> HIDE DEF g
<1>4. Adding(g, w, S)
  <2>1. \A A \in SUBSET S :
           g[A] = IF A = {} THEN 0
                  ELSE LET x == CHOOSE x \in A : TRUE IN w[x] + g[A \ {x}]
    BY <1>1
  <2> QED BY <1>3, <2>1 DEF Adding
<1>5. ASSUME NEW f, Adding(f, w, S)
      PROVE  f[S] = g[S]
  <2> DEFINE N == {n \in Nat : \A A \in SUBSET S : Cardinality(A) = n => f[A] = g[A]}
  <2>1. \A A \in SUBSET S :
           f[A] = IF A = {} THEN 0
                  ELSE LET x == CHOOSE x \in A : TRUE IN w[x] + f[A \ {x}]
    BY <1>5, Zenon DEF Adding
  <2>2. IsFiniteSet(S)
    BY UnitsAreFinite
  <2>3. 0 \in N
    <3> SUFFICES ASSUME NEW A \in SUBSET S, Cardinality(A) = 0 PROVE f[A] = g[A]
      OBVIOUS
    <3>1. A = {}
      BY <2>2, FS_Subset, FS_EmptySet
    <3> QED BY <1>1, <2>1, <3>1
  <2>4. ASSUME NEW n \in N
        PROVE  n + 1 \in N
    <3> SUFFICES ASSUME NEW A \in SUBSET S, Cardinality(A) = n + 1 PROVE f[A] = g[A]
      OBVIOUS
    <3>1. IsFiniteSet(A)
      BY <2>2, FS_Subset
    <3>2. ASSUME NEW x \in A
          PROVE  f[A \ {x}] = g[A \ {x}]
      <4>1. Cardinality(A \ {x}) = Cardinality(A) - 1
        BY <3>1, FS_RemoveElement
      <4>2. Cardinality(A \ {x}) = n
        BY <4>1
      <4> QED BY <4>2
    <3> HIDE DEF N
    <3> QED BY <1>1, <2>1, <3>2, ZenonT(60)
  <2>5. N \subseteq Nat
    OBVIOUS
  <2> HIDE DEF N
  <2>6. N = Nat
    BY <2>3, <2>4, <2>5, Induction
  <2>7. Cardinality(S) \in N
    BY <2>2, <2>6, FS_CardinalityType
  <2> QED BY <2>7 DEF N
<1>6. Mass(w, S) = g[S]
  <2>1. PICK f : f = CHOOSE h : Adding(h, w, S)
    OBVIOUS
  <2>2. Adding(f, w, S)
    BY <1>4, <2>1, Zenon
  <2>3. Mass(w, S) = f[S]
    BY <2>1, MassIsAdding
  <2> QED BY <1>5, <2>2, <2>3
<1> QED BY <1>2, <1>6

(* A set of more tokens has no less mass, and none has none.               *)
LEMMA MassGrows ==
  ASSUME NEW T, IsFiniteSet(T), NEW w \in [T -> Nat],
         NEW S \in SUBSET T, NEW R \in SUBSET S
  PROVE  /\ Mass(w, R) \in Nat /\ Mass(w, S) \in Nat /\ Mass(w, R) <= Mass(w, S)
         /\ Mass(w, {}) = 0
<1>1. IsFiniteSet(Units(w, S)) /\ Units(w, R) \in SUBSET Units(w, S)
  BY UnitsAreFinite DEF Units
<1>2. /\ IsFiniteSet(Units(w, R))
      /\ Cardinality(Units(w, R)) <= Cardinality(Units(w, S))
      /\ Cardinality(Units(w, R)) \in Nat /\ Cardinality(Units(w, S)) \in Nat
  BY <1>1, FS_Subset, FS_CardinalityType
<1>3. /\ Mass(w, R) = Cardinality(Units(w, R))
      /\ Mass(w, S) = Cardinality(Units(w, S))
      /\ Mass(w, {}) = Cardinality(Units(w, {}))
  <2>1. R \in SUBSET T /\ {} \in SUBSET T
    OBVIOUS
  <2> QED BY <2>1, MassCountsUnits
<1>4. Units(w, {}) = {}
  BY DEF Units
<1> QED BY <1>2, <1>3, <1>4, FS_EmptySet


-----------------------------------------------------------------------------
(* torch.sort.  A ranking has every token once,                            *)
LEMMA RankingHasAll ==
  ASSUME NEW T, IsFiniteSet(T), NEW r \in SetToSeqs(T)
  PROVE  /\ Cardinality(T) \in Nat /\ DOMAIN r = 1 .. Cardinality(T)
         /\ \A i \in 1 .. Cardinality(T) : r[i] \in T
         /\ \A i, j \in 1 .. Cardinality(T) : i # j => r[i] # r[j]
         /\ \A u \in T : \E i \in 1 .. Cardinality(T) : r[i] = u
<1>1. PICK n, D : n = Cardinality(T) /\ D = 1 .. n
  OBVIOUS
<1>2. n \in Nat
  BY <1>1, FS_CardinalityType
<1>3. r \in [D -> T] /\ \A i, j \in D : i # j => r[i] # r[j]
  BY <1>1 DEF SetToSeqs
<1>4. r \in Injection(D, T)
  BY <1>3 DEF Injection, IsInjective
<1>5. Cardinality(D) = n
  <2>1. Cardinality(1 .. n) = IF 1 > n THEN 0 ELSE n - 1 + 1
    BY <1>2, FS_Interval
  <2> QED BY <1>1, <1>2, <2>1
<1>6. r \in Surjection(D, T)
  BY <1>1, <1>4, <1>5, FS_Injection
<1>7. \A u \in T : \E i \in D : r[i] = u
  BY <1>6 DEF Surjection
<1> QED BY <1>1, <1>2, <1>3, <1>7

(* and there is one in descending order.                                   *)
LEMMA SortingWorks ==
  ASSUME NEW T, IsFiniteSet(T), NEW v \in [T -> Nat]
  PROVE  \E r \in SetToSeqs(T) : \A i, j \in DOMAIN r : i < j => v[r[i]] >= v[r[j]]
<1> DEFINE Sorted(A, n) ==
             \E r \in [1 .. n -> A] :
                \A i, j \in 1 .. n : /\ i # j => r[i] # r[j]
                                     /\ i < j => v[r[i]] >= v[r[j]]
           N == {n \in Nat : \A A \in SUBSET T : Cardinality(A) = n => Sorted(A, n)}
<1>1. 0 \in N
  <2> SUFFICES ASSUME NEW A \in SUBSET T, Cardinality(A) = 0 PROVE Sorted(A, 0)
    OBVIOUS
  <2>1. 1 .. 0 = {}
    OBVIOUS
  <2>2. [i \in 1 .. 0 |-> i] \in [1 .. 0 -> A]
    BY <2>1
  <2> QED BY <2>1, <2>2
<1>2. ASSUME NEW n \in N
      PROVE  n + 1 \in N
  <2> SUFFICES ASSUME NEW A \in SUBSET T, Cardinality(A) = n + 1 PROVE Sorted(A, n + 1)
    OBVIOUS
  <2>1. IsFiniteSet(A) /\ A # {}
    BY FS_Subset, FS_EmptySet
  <2>2. PICK x \in A : \A y \in A : v[x] <= v[y]
    <3> DEFINE values == {v[y] : y \in A}
    <3>1. values \in SUBSET Nat /\ values # {}
      BY <2>1
    <3> HIDE DEF values
    <3>2. PICK m \in values : \A k \in values : m <= k
      BY <3>1, LeastNumber
    <3> QED BY <3>2 DEF values
  <2>3. Cardinality(A \ {x}) = n /\ A \ {x} \in SUBSET T
    <3>1. Cardinality(A \ {x}) = Cardinality(A) - 1
      BY <2>1, <2>2, FS_RemoveElement
    <3> QED BY <3>1
  <2>4. PICK r \in [1 .. n -> A \ {x}] :
           \A i, j \in 1 .. n : /\ i # j => r[i] # r[j]
                                /\ i < j => v[r[i]] >= v[r[j]]
    BY <2>3
  <2>5. PICK q : q = [i \in 1 .. n + 1 |-> IF i <= n THEN r[i] ELSE x]
    OBVIOUS
  <2>6. ASSUME NEW i \in 1 .. n + 1
        PROVE  \/ i \in 1 .. n /\ q[i] = r[i] /\ r[i] \in A \ {x}
               \/ i = n + 1 /\ q[i] = x
    BY <2>4, <2>5
  <2>7. q \in [1 .. n + 1 -> A]
    BY <2>5, <2>6
  <2>8. ASSUME NEW i \in 1 .. n + 1, NEW j \in 1 .. n + 1
        PROVE  /\ i # j => q[i] # q[j]
               /\ i < j => v[q[i]] >= v[q[j]]
    <3>1. CASE i \in 1 .. n /\ j \in 1 .. n
      BY <2>4, <2>6, <3>1
    <3>2. CASE i \in 1 .. n /\ j = n + 1
      <4>1. q[i] \in A \ {x} /\ q[j] = x /\ q[i] \in T /\ x \in T
        BY <2>6, <3>2
      <4>2. v[x] <= v[q[i]] /\ v[x] \in Nat /\ v[q[i]] \in Nat
        BY <2>2, <4>1
      <4> QED BY <4>1, <4>2
    <3>3. CASE i = n + 1 /\ j \in 1 .. n
      BY <2>6, <3>3
    <3>4. CASE i = n + 1 /\ j = n + 1
      BY <3>4
    <3> QED BY <2>6, <3>1, <3>2, <3>3, <3>4
  <2> QED BY <2>7, <2>8
<1>3. N \subseteq Nat
  OBVIOUS
<1> HIDE DEF N
<1>4. N = Nat
  BY <1>1, <1>2, <1>3, Induction
<1>5. Sorted(T, Cardinality(T))
  <2>1. Cardinality(T) \in N
    BY <1>4, FS_CardinalityType
  <2> QED BY <2>1 DEF N
<1>6. PICK r \in [1 .. Cardinality(T) -> T] :
         \A i, j \in 1 .. Cardinality(T) : /\ i # j => r[i] # r[j]
                                           /\ i < j => v[r[i]] >= v[r[j]]
  BY <1>5
<1>7. r \in SetToSeqs(T) /\ DOMAIN r = 1 .. Cardinality(T)
  BY <1>6 DEF SetToSeqs
<1> QED BY <1>6, <1>7

(* What is more probable than t.                                           *)
Above(w, t) == {u \in DOMAIN w : w[u] > w[t]}

(* It comes before t in every ranking, so that the mask keeps no token     *)
(* after the threshold is crossed.                                         *)
LEMMA KeptIsLikely ==
  ASSUME NEW w \in [Tokens -> Nat], NEW topP \in Nat, NEW r \in Rankings(w),
         NEW t \in Kept(w, r, topP)
  PROVE  t \in Tokens /\ Mass(w, Above(w, t)) <= topP
<1>1. /\ r \in SetToSeqs(Tokens)
      /\ \A i, j \in DOMAIN r : i < j => w[r[i]] >= w[r[j]]
  BY DEF Rankings
<1>2. PICK n : n = Cardinality(Tokens)
  OBVIOUS
<1>3. /\ n \in Nat /\ DOMAIN r = 1 .. n
      /\ \A i \in 1 .. n : r[i] \in Tokens
      /\ \A u \in Tokens : \E i \in 1 .. n : r[i] = u
  BY <1>1, <1>2, TokensAssumption, RankingHasAll
<1>4. PICK i \in 1 .. n : t = r[i] /\ (i = 1 \/ ~Exceeds(w, r, i - 1, topP))
  BY <1>3 DEF Kept
<1>5. PICK before : before = {r[j] : j \in 1 .. i - 1}
  OBVIOUS
<1>6. before \in SUBSET Tokens
  <2>1. \A j \in 1 .. i - 1 : j \in 1 .. n
    BY <1>3
  <2> QED BY <1>3, <1>5, <2>1
<1>7. Above(w, t) \in SUBSET before
  <2> SUFFICES ASSUME NEW u \in Tokens, w[u] > w[t] PROVE u \in before
    BY DEF Above
  <2>1. PICK j \in 1 .. n : r[j] = u
    BY <1>3
  <2>2. w[u] \in Nat /\ w[t] \in Nat
    BY <1>3, <1>4
  <2>3. ~(i < j) /\ i # j
    <3>1. ~(w[t] >= w[u])
      BY <2>2
    <3>2. i < j => w[r[i]] >= w[r[j]]
      BY <1>1, <1>3
    <3>3. w[r[i]] = w[t] /\ w[r[j]] = w[u]
      BY <1>4, <2>1
    <3>4. i = j => w[u] = w[t]
      BY <3>3
    <3> QED BY <2>2, <3>1, <3>2, <3>3, <3>4
  <2>4. j \in 1 .. i - 1
    BY <1>3, <2>3
  <2> QED BY <1>5, <2>1, <2>4
<1>8. /\ Mass(w, Above(w, t)) \in Nat /\ Mass(w, before) \in Nat
      /\ Mass(w, Above(w, t)) <= Mass(w, before) /\ Mass(w, {}) = 0
  BY <1>6, <1>7, TokensAssumption, MassGrows
<1>9. Mass(w, before) <= topP
  <2>1. CASE i = 1
    <3>1. 1 .. i - 1 = {}
      BY <2>1
    <3>2. before = {}
      BY <1>5, <3>1
    <3> QED BY <1>8, <3>2
  <2>2. CASE i # 1
    <3>1. ~(Mass(w, before) > topP)
      BY <1>4, <1>5, <2>2 DEF Exceeds
    <3> QED BY <1>8, <3>1
  <2> QED BY <2>1, <2>2
<1> QED BY <1>3, <1>4, <1>8, <1>9

(* And a token with no more than the threshold above it is kept in some    *)
(* ranking: in one where it is the first of its ties.                      *)
LEMMA LikelyIsKept ==
  ASSUME NEW w \in [Tokens -> Nat], NEW topP \in Nat, NEW t \in Tokens,
         Mass(w, Above(w, t)) <= topP
  PROVE  \E r \in Rankings(w) : t \in Kept(w, r, topP)
<1>1. PICK v : v = [u \in Tokens |-> IF u = t THEN 2 * w[u] + 1 ELSE 2 * w[u]]
  OBVIOUS
<1>2. /\ v \in [Tokens -> Nat] /\ v[t] = 2 * w[t] + 1
      /\ \A u \in Tokens : u # t => v[u] = 2 * w[u]
      /\ \A u \in Tokens : w[u] \in Nat
  BY <1>1
<1>3. PICK r \in SetToSeqs(Tokens) :
         \A i, j \in DOMAIN r : i < j => v[r[i]] >= v[r[j]]
  BY <1>2, TokensAssumption, SortingWorks
<1>4. PICK n : n = Cardinality(Tokens)
  OBVIOUS
<1>5. /\ n \in Nat /\ DOMAIN r = 1 .. n
      /\ \A i \in 1 .. n : r[i] \in Tokens
      /\ \A i, j \in 1 .. n : i # j => r[i] # r[j]
      /\ \A u \in Tokens : \E i \in 1 .. n : r[i] = u
  BY <1>3, <1>4, TokensAssumption, RankingHasAll
<1>6. r \in Rankings(w)
  <2>1. ASSUME NEW i \in 1 .. n, NEW j \in 1 .. n, i < j
        PROVE  w[r[i]] >= w[r[j]]
    <3>1. PICK a, b : a = r[i] /\ b = r[j]
      OBVIOUS
    <3>2. a \in Tokens /\ b \in Tokens /\ v[a] >= v[b] /\ w[a] \in Nat /\ w[b] \in Nat
      BY <1>2, <1>3, <1>5, <2>1, <3>1
    <3>3. /\ v[a] = 2 * w[a] \/ v[a] = 2 * w[a] + 1
          /\ v[b] = 2 * w[b] \/ v[b] = 2 * w[b] + 1
      BY <1>2, <3>2
    <3>4. w[a] >= w[b]
      BY <3>2, <3>3
    <3> QED BY <3>1, <3>4
  <2> QED BY <1>3, <1>5, <2>1 DEF Rankings
<1>7. PICK i \in 1 .. n : r[i] = t
  BY <1>5
<1>8. PICK before : before = {r[j] : j \in 1 .. i - 1}
  OBVIOUS
<1>9. before \in SUBSET Above(w, t)
  <2> SUFFICES ASSUME NEW j \in 1 .. i - 1 PROVE r[j] \in Above(w, t)
    BY <1>8
  <2>1. PICK u : u = r[j]
    OBVIOUS
  <2>2. j \in 1 .. n /\ j < i /\ j # i
    BY <1>5
  <2>3. u \in Tokens /\ u # t /\ v[u] >= v[t]
    BY <1>3, <1>5, <1>7, <2>1, <2>2
  <2>4. w[u] \in Nat /\ w[t] \in Nat /\ 2 * w[u] >= 2 * w[t] + 1
    BY <1>2, <2>3
  <2>5. w[u] > w[t]
    BY <2>4
  <2> QED BY <2>1, <2>3, <2>5 DEF Above
<1>10. /\ Mass(w, before) \in Nat /\ Mass(w, Above(w, t)) \in Nat
       /\ Mass(w, before) <= Mass(w, Above(w, t))
  <2>1. Above(w, t) \in SUBSET Tokens
    BY DEF Above
  <2> QED BY <1>9, <2>1, TokensAssumption, MassGrows
<1>11. ~Exceeds(w, r, i - 1, topP)
  BY <1>8, <1>10 DEF Exceeds
<1>12. t \in Kept(w, r, topP)
  BY <1>5, <1>7, <1>11 DEF Kept
<1> QED BY <1>6, <1>12

(* What the sampler may return is exactly what is likely.                  *)
LEMMA SampledIsLikely ==
  ASSUME NEW w \in [Tokens -> Nat], NEW p, p.topP \in Nat \ {0}
  PROVE  SampleLogits(w, p) = Naive!Likely(w, p)
<1>1. CASE p.greedy
  BY <1>1 DEF SampleLogits, Naive!Likely
<1>2. CASE ~p.greedy
  <2>1. PICK possible, topP : possible = {t \in Tokens : w[t] > 0} /\ topP = p.topP
    OBVIOUS
  <2>2. topP \in Nat \ {0}
    BY <2>1
  <2>3. Naive!Likely(w, p) = {t \in possible : Mass(w, Above(w, t)) <= topP}
    BY <1>2, <2>1, SameMass DEF Naive!Likely, Naive!Nucleus, Above
  <2>4. SampleLogits(w, p) =
          IF 0 < topP /\ topP < Mass(w, Tokens)
          THEN possible \cap UNION {Kept(w, r, topP) : r \in Rankings(w)}
          ELSE possible
    BY <1>2, <2>1 DEF SampleLogits
  <2>5. CASE topP < Mass(w, Tokens)
    <3>1. SampleLogits(w, p) = possible \cap UNION {Kept(w, r, topP) : r \in Rankings(w)}
      BY <2>2, <2>4, <2>5
    <3>2. \A t \in possible :
             (\E r \in Rankings(w) : t \in Kept(w, r, topP)) <=> Mass(w, Above(w, t)) <= topP
      BY <2>1, <2>2, KeptIsLikely, LikelyIsKept
    <3> QED BY <2>3, <3>1, <3>2
  <2>6. CASE ~(topP < Mass(w, Tokens))
    <3>1. ASSUME NEW t \in possible
          PROVE  Mass(w, Above(w, t)) <= topP
      <4>1. Above(w, t) \in SUBSET Tokens /\ Tokens \in SUBSET Tokens
        BY DEF Above
      <4>2. /\ Mass(w, Above(w, t)) \in Nat /\ Mass(w, Tokens) \in Nat
            /\ Mass(w, Above(w, t)) <= Mass(w, Tokens)
        BY <4>1, TokensAssumption, MassGrows
      <4> QED BY <2>2, <2>6, <4>2
    <3> QED BY <2>3, <2>4, <2>6, <3>1
  <2> QED BY <2>5, <2>6
<1> QED BY <1>1, <1>2


(* A token about to be drawn for s is one that is likely after the text of *)
(* s, and any of those.                                                    *)
LEMMA DrawnIsLikely ==
  ASSUME Inv, NEW s \in todo
  PROVE  Draws(s) = Naive!Likely(Prob(s, PromptOf[s] \o output[s]), SamplingOf[s])
<1>1. /\ Types /\ s \in held /\ s \in Seqs /\ Len(output[s]) < MaxTokensOf[s]
      /\ fresh[s] = ReadAll(s)
  BY DEF Inv, CacheInv, CallInv, Serving, Types
<1>2. PICK w, p : w = Prob(s, TextOf(s)) /\ p = SamplingOf[s]
  OBVIOUS
<1>3. w \in [Tokens -> Nat] /\ Draws(s) = SampleLogits(w, p)
  BY <1>1, <1>2, DrawsTokens
<1>4. p.topP \in Nat \ {0}
  BY <1>1, <1>2, SamplingAssumption
<1>5. SampleLogits(w, p) = Naive!Likely(w, p)
  BY <1>3, <1>4, SampledIsLikely
<1> QED BY <1>2, <1>3, <1>5 DEF TextOf

(* Where a token is about to be drawn, the candidates are exactly the      *)
(* likely tokens after the sequence's own text.                            *)
THEOREM DrawnTokensAreLikely == Spec => []DrawsTheLikely
<1>1. Inv => DrawsTheLikely
  BY DrawnIsLikely DEF DrawsTheLikely
<1> QED BY <1>1, InvariantHolds, PTL

(* The two engines look for the same reasons to stop.                      *)
LEMMA SameReason ==
  ASSUME NEW s, NEW ids
  PROVE  Reason(s, ids) = Naive!Reason(s, ids)
BY DEF Reason, Naive!Reason, StopIds, Naive!StopIds, Last, Naive!Last

(* A row of a batch is an iteration of the naive engine.                   *)
LEMMA TakeTokenGenerates ==
  ASSUME Inv, NEW s \in Seqs, TakeToken(s)
  PROVE  Naive!Generate(s)
<1>1. s \in todo /\ outcome[s] = "none"
  <2>1. s \in todo
    BY DEF TakeToken
  <2> QED BY <2>1 DEF Inv, CacheInv, Types, Serving
<1>2. PICK t \in Draws(s) : output' = [output EXCEPT ![s] = Append(@, t)]
  BY DEF TakeToken
<1>3. t \in Naive!Likely(Prob(s, PromptOf[s] \o output[s]), SamplingOf[s])
  BY <1>1, <1>2, DrawnIsLikely
<1>4. \E o \in {Reason(s, output'[s]), "abort"} : outcome' = [outcome EXCEPT ![s] = o]
  BY DEF TakeToken
<1>5. \E o \in {Naive!Reason(s, output'[s]), "abort"} :
         outcome' = [outcome EXCEPT ![s] = o]
  BY <1>4, SameReason
<1> QED BY <1>1, <1>2, <1>3, <1>5 DEF Naive!Generate

(* Whatever is reused, padded and batched, every request gets tokens that  *)
(* the naive engine could have given it, and stops for the same reasons:   *)
(* the cached engine implements the naive one.                             *)
THEOREM ImplementsNaive == Spec => NaiveSpec
<1>1. Init => Naive!Init
  BY DEF Init, Naive!Init
<1>2. Inv /\ [Next]_vars => [Naive!Next]_(Naive!vars)
  <2> SUFFICES ASSUME Inv, [Next]_vars
               PROVE  Naive!Next \/ UNCHANGED Naive!vars
    OBVIOUS
  <2>1. CASE UNCHANGED vars
    BY <2>1 DEF vars, Naive!vars
  <2>2. CASE DecodeAll
    BY <2>2 DEF DecodeAll, Naive!vars
  <2>3. ASSUME NEW s \in Seqs, \/ Admit(s) \/ PrefillOne(s) \/ StoreNext(s)
                               \/ AdoptEntry(s) \/ DecodeAlone(s) \/ GenerateIds(s)
        PROVE  UNCHANGED Naive!vars
    BY <2>3 DEF Admit, PrefillOne, StoreNext, AdoptEntry, DecodeAlone, GenerateIds, Naive!vars
  <2>4. ASSUME NEW s \in Seqs, TakeToken(s)
        PROVE  Naive!Next
    BY <2>4, TakeTokenGenerates DEF Naive!Next
  <2>5. ASSUME NEW s \in Seqs, AbortOne(s)
        PROVE  Naive!Next
    <3>1. /\ s \in held /\ UNCHANGED output
          /\ outcome' = [outcome EXCEPT ![s] = "abort"]
      BY <2>5 DEF AbortOne
    <3>2. outcome[s] = "none"
      BY <3>1 DEF Inv, CacheInv, Serving
    <3>3. Naive!Abort(s)
      BY <3>1, <3>2 DEF Naive!Abort
    <3> QED BY <3>3 DEF Naive!Next
  <2> QED BY <2>1, <2>2, <2>3, <2>4, <2>5 DEF Next
<1> QED BY <1>1, <1>2, InvariantHolds, PTL DEF Spec, NaiveSpec, Naive!Spec

(* And so no block is ever lent twice or lost: the ledger of BlockLedger   *)
(* is kept here, too.                                                      *)
THEOREM ImplementsLedger == Spec => Acc!LedgerSpec
<1>1. Acc!Spec => Acc!LedgerSpec
  BY Acc!ImplementsLedger, BlocksAssumption, BlockSizeAssumption, SeqsAssumption,
     PromptAssumption, LengthAssumption, MinAssumption, EntriesAssumption,
     CacheAssumption
  DEF IsFiniteSet, Acc!IsFiniteSet
<1> QED BY <1>1, ImplementsAccounting
=============================================================================
