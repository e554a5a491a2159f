-------------------------- MODULE PageantChannelProofs --------------------------
(***************************************************************************)
(* Proofs about PageantChannel, for any clients, keys, names and mapping.  *)
(*                                                                         *)
(* First what requests, listings and mappings read as; this rests on the   *)
(* round trips of WireProofs, and for listings on an induction over their  *)
(* pairs.  Then Consistent is inductive, and the safety properties follow, *)
(* and that the channel implements AtomicServer.                           *)
(***************************************************************************)
EXTENDS PageantChannel, KeyRingProofs, WireProofs

-----------------------------------------------------------------------------
\* FlattenSeq is a recursive function; it exists because there is no least
\* position at which it would not.
LEMMA FlattenExists ==
  ASSUME NEW T, NEW seqs \in Seq(Seq(T)), NEW n \in Nat, n <= Len(seqs)
  PROVE  \E f : f = [i \in 1..n |-> IF i = 1 THEN seqs[i] ELSE f[i - 1] \o seqs[i]]
<1> DEFINE Ok(m) == \E f : f = [i \in 1..m |-> IF i = 1 THEN seqs[i] ELSE f[i - 1] \o seqs[i]]
<1> SUFFICES ASSUME ~Ok(n) PROVE FALSE
  OBVIOUS
<1>1. PICK m \in {k \in 0..n : ~Ok(k)} : \A k \in {k \in 0..n : ~Ok(k)} : m <= k
  <2> HIDE DEF Ok
  <2>1. {k \in 0..n : ~Ok(k)} \in SUBSET Nat /\ n \in {k \in 0..n : ~Ok(k)}
    OBVIOUS
  <2> QED
    BY <2>1, Smallest
<1>2. m # 0
  <2>1. << >> = [i \in 1..0 |-> IF i = 1 THEN seqs[i] ELSE << >>[i - 1] \o seqs[i]]
    OBVIOUS
  <2>2. Ok(0)
    BY <2>1
  <2> HIDE DEF Ok
  <2> QED
    BY <1>1, <2>2
<1>3. Ok(m - 1)
  <2> HIDE DEF Ok
  <2> QED
    BY <1>1, <1>2
<1>4. PICK f : f = [i \in 1..(m - 1) |-> IF i = 1 THEN seqs[i] ELSE f[i - 1] \o seqs[i]]
  BY <1>3
<1> DEFINE g == [i \in 1..m |-> IF i = m THEN (IF m = 1 THEN seqs[1] ELSE f[m - 1] \o seqs[m]) ELSE f[i]]
<1>5. \A i \in 1..m : g[i] = IF i = 1 THEN seqs[i] ELSE g[i - 1] \o seqs[i]
  <2> SUFFICES ASSUME NEW i \in 1..m PROVE g[i] = IF i = 1 THEN seqs[i] ELSE g[i - 1] \o seqs[i]
    OBVIOUS
  <2>1. CASE i = m
    BY <1>2, <2>1
  <2>2. CASE i # m
    <3>1. i \in 1..(m - 1) /\ g[i] = f[i] /\ (i # 1 => g[i - 1] = f[i - 1])
      BY <2>2
    <3>2. f[i] = IF i = 1 THEN seqs[i] ELSE f[i - 1] \o seqs[i]
      BY <1>4, <3>1
    <3> HIDE DEF g
    <3> QED
      BY <3>1, <3>2
  <2> QED
    BY <2>1, <2>2
<1>6. g = [i \in 1..m |-> IF i = 1 THEN seqs[i] ELSE g[i - 1] \o seqs[i]]
  <2>1. g = [i \in 1..m |-> g[i]]
    OBVIOUS
  <2> HIDE DEF g
  <2> QED
    BY <1>5, <2>1
<1>7. Ok(m)
  <2> HIDE DEF g
  <2> QED
    BY <1>6
<1> QED
  BY <1>1, <1>7

\* Flattening sequences of elements of T gives a sequence of elements of T:
\* there is no least position at which it would not.
LEMMA FlattenType ==
  ASSUME NEW T, NEW seqs \in Seq(Seq(T))
  PROVE FlattenSeq(seqs) \in Seq(T)
<1> DEFINE n == Len(seqs)
           f == CHOOSE f : f = [i \in 1..n |-> IF i = 1 THEN seqs[i] ELSE f[i - 1] \o seqs[i]]
           Bad == {i \in 1..n : f[i] \notin Seq(T)}
<1>1. CASE n = 0
  <2>1. seqs = << >>
    BY <1>1
  <2>2. FlattenSeq(seqs) = << >>
    BY <1>1, <2>1 DEF FlattenSeq
  <2> QED
    BY <2>2
<1>2. CASE n # 0
  <2>1. FlattenSeq(seqs) = f[n]
    BY <1>2 DEF FlattenSeq
  <2>2. f = [i \in 1..n |-> IF i = 1 THEN seqs[i] ELSE f[i - 1] \o seqs[i]]
    <3>1. \E h : h = [i \in 1..n |-> IF i = 1 THEN seqs[i] ELSE h[i - 1] \o seqs[i]]
      <4>1. n \in Nat /\ n <= Len(seqs)
        OBVIOUS
      <4> HIDE DEF n
      <4> QED
        BY <4>1, FlattenExists, Zenon
    <3> QED
      BY <3>1
  <2> HIDE DEF f
  <2>3. Bad = {}
    <3> SUFFICES ASSUME Bad # {} PROVE FALSE
      OBVIOUS
    <3>1. PICK m \in Bad : \A k \in Bad : m <= k
      <4>1. Bad \in SUBSET Nat
        OBVIOUS
      <4> HIDE DEF Bad
      <4> QED
        BY <4>1, Smallest
    <3>2. m \in 1..n /\ f[m] \notin Seq(T) /\ seqs[m] \in Seq(T)
      OBVIOUS
    <3>3. f[m] = IF m = 1 THEN seqs[m] ELSE f[m - 1] \o seqs[m]
      BY <2>2, <3>2
    <3>4. m # 1 => f[m - 1] \in Seq(T)
      BY <3>1, <3>2
    <3> QED
      BY <3>2, <3>3, <3>4
  <2>4. n \in 1..n
    BY <1>2
  <2> QED
    BY <2>1, <2>3, <2>4
<1> QED
  BY <1>1, <1>2

\* What remains, when the last m elements of a flattened sequence are read from
\* the front, before and after each of them.
Remainders(T, seqs, m) ==
  {h \in [(Len(seqs) - m)..Len(seqs) -> Seq(T)] :
     /\ h[Len(seqs)] = << >>
     /\ \A i \in (Len(seqs) - m + 1)..Len(seqs) : h[i - 1] = seqs[i] \o h[i]}

\* There is no least number of elements for which no such function exists.
LEMMA RemaindersExist ==
  ASSUME NEW T, NEW seqs \in Seq(Seq(T)), NEW k \in Nat, k <= Len(seqs)
  PROVE  Remainders(T, seqs, k) # {}
<1> DEFINE n == Len(seqs)
           Ok(m) == \E h \in [(n - m)..n -> Seq(T)] :
                      /\ h[n] = << >>
                      /\ \A i \in (n - m + 1)..n : h[i - 1] = seqs[i] \o h[i]
           Bad == {m \in 0..k : ~Ok(m)}
<1> SUFFICES ASSUME ~Ok(k)
             PROVE  FALSE
  BY DEF Remainders
<1>1. n \in Nat
  OBVIOUS
<1>2. PICK m \in Bad : \A j \in Bad : m <= j
  <2> HIDE DEF Ok
  <2>1. Bad \in SUBSET Nat /\ k \in Bad
    OBVIOUS
  <2> HIDE DEF Bad
  <2> QED
    BY <2>1, Smallest
<1>3. m # 0
  <2> DEFINE h == [i \in (n - 0)..n |-> << >>]
  <2>1. h \in [(n - 0)..n -> Seq(T)] /\ h[n] = << >>
    BY <1>1
  <2>2. (n - 0 + 1)..n = {}
    BY <1>1
  <2>3. Ok(0)
    BY <2>1, <2>2
  <2> HIDE DEF Ok
  <2> QED
    BY <1>2, <2>3
<1>4. Ok(m - 1) /\ m \in 1..n
  <2> HIDE DEF Ok
  <2> QED
    BY <1>1, <1>2, <1>3
<1>5. PICK h \in [(n - (m - 1))..n -> Seq(T)] :
         /\ h[n] = << >>
         /\ \A i \in (n - (m - 1) + 1)..n : h[i - 1] = seqs[i] \o h[i]
  BY <1>4
<1> HIDE DEF n
<1> DEFINE first == n - m
<1>6. /\ first \in Nat /\ first < n /\ first + 1 = n - (m - 1) /\ first + 2 = n - (m - 1) + 1
      /\ first + 1 = n - m + 1
  BY <1>1, <1>4
<1>7. seqs[first + 1] \in Seq(T) /\ h[first + 1] \in Seq(T)
  <2>1. first + 1 \in 1..n /\ first + 1 \in (n - (m - 1))..n
    BY <1>1, <1>6
  <2>2. seqs \in [1..n -> Seq(T)]
    BY DEF n
  <2> QED
    BY <1>5, <2>1, <2>2, Zenon
<1> DEFINE g == [i \in first..n |-> IF i = first THEN seqs[first + 1] \o h[first + 1] ELSE h[i]]
<1>8. g \in [first..n -> Seq(T)]
  <2>1. seqs[first + 1] \o h[first + 1] \in Seq(T)
    BY <1>7
  <2>2. \A i \in first..n : i # first => h[i] \in Seq(T)
    BY <1>1, <1>5, <1>6
  <2> QED
    BY <2>1, <2>2
<1>9. g[n] = << >>
  BY <1>1, <1>5, <1>6
<1>10. \A i \in (first + 1)..n : g[i - 1] = seqs[i] \o g[i]
  <2> SUFFICES ASSUME NEW i \in (first + 1)..n
               PROVE  g[i - 1] = seqs[i] \o g[i]
    OBVIOUS
  <2>1. i \in first..n /\ i - 1 \in first..n /\ i # first
    BY <1>1, <1>6
  <2>2. g[i] = h[i]
    BY <2>1
  <2>3. CASE i = first + 1
    <3>1. g[i - 1] = seqs[first + 1] \o h[first + 1]
      <4>1. i - 1 = first /\ first \in first..n
        BY <1>1, <1>6, <2>3
      <4> QED
        BY <4>1, Zenon
    <3> HIDE DEF g
    <3> QED
      BY <2>2, <2>3, <3>1
  <2>4. CASE i # first + 1
    <3>1. i - 1 # first /\ i \in (first + 2)..n
      BY <1>1, <1>6, <2>1, <2>4
    <3>2. g[i - 1] = h[i - 1]
      BY <2>1, <3>1
    <3>3. h[i - 1] = seqs[i] \o h[i]
      BY <1>5, <1>6, <3>1
    <3> HIDE DEF g
    <3> QED
      BY <2>2, <3>2, <3>3
  <2> QED
    BY <2>3, <2>4
<1>11. Ok(m)
  <2> HIDE DEF g
  <2> QED
    BY <1>6, <1>8, <1>9, <1>10
<1> QED
  BY <1>2, <1>11

\* All of it is what remains in the beginning.
LEMMA FlattenFromFront ==
  ASSUME NEW T, NEW seqs \in Seq(Seq(T))
  PROVE  \E h \in [0..Len(seqs) -> Seq(T)] :
           /\ h[0] = FlattenSeq(seqs)
           /\ h[Len(seqs)] = << >>
           /\ \A i \in 1..Len(seqs) : h[i - 1] = seqs[i] \o h[i]
<1> DEFINE n == Len(seqs)
           f == CHOOSE f : f = [i \in 1..n |-> IF i = 1 THEN seqs[i] ELSE f[i - 1] \o seqs[i]]
<1>1. n \in Nat
  OBVIOUS
<1>2. \A s, t, u \in Seq(T) : (s \o t) \o u = s \o (t \o u)
  BY ConcatAssociative
<1>3. PICK h \in [0..n -> Seq(T)] :
         /\ h[n] = << >>
         /\ \A i \in 1..n : h[i - 1] = seqs[i] \o h[i]
  <2>1. n - n = 0 /\ n - n + 1 = 1 /\ n <= Len(seqs)
    BY <1>1
  <2>2. PICK h \in Remainders(T, seqs, n) : TRUE
    BY <1>1, <2>1, RemaindersExist
  <2>3. /\ h \in [(n - n)..n -> Seq(T)]
        /\ h[n] = << >>
        /\ \A i \in (n - n + 1)..n : h[i - 1] = seqs[i] \o h[i]
    BY <2>2, Zenon DEF Remainders
  <2> HIDE DEF n
  <2> QED
    BY <2>1, <2>3
<1>4. CASE n = 0
  <2>1. seqs = << >>
    BY <1>4
  <2>2. FlattenSeq(seqs) = << >>
    BY <2>1 DEF FlattenSeq
  <2> HIDE DEF n
  <2> QED
    BY <1>3, <1>4, <2>2 DEF n
<1>5. CASE n # 0
  <2>1. FlattenSeq(seqs) = f[n]
    BY <1>5 DEF FlattenSeq
  <2>2. f = [i \in 1..n |-> IF i = 1 THEN seqs[i] ELSE f[i - 1] \o seqs[i]]
    <3>1. \E e : e = [i \in 1..n |-> IF i = 1 THEN seqs[i] ELSE e[i - 1] \o seqs[i]]
      <4>1. n \in Nat /\ n <= Len(seqs)
        BY <1>1
      <4> HIDE DEF n
      <4> QED
        BY <4>1, FlattenExists, Zenon
    <3> QED
      BY <3>1
  <2> HIDE DEF f
  <2> DEFINE Bad == {i \in 1..n : ~(f[i] \in Seq(T) /\ f[i] \o h[i] = h[0])}
  <2>3. Bad = {}
    <3> SUFFICES ASSUME Bad # {}
                 PROVE  FALSE
      OBVIOUS
    <3>1. PICK m \in Bad : \A k \in Bad : m <= k
      <4>1. Bad \in SUBSET Nat
        OBVIOUS
      <4> HIDE DEF Bad
      <4> QED
        BY <4>1, Smallest
    <3>2. m \in 1..n /\ ~(f[m] \in Seq(T) /\ f[m] \o h[m] = h[0])
      OBVIOUS
    <3>3. seqs[m] \in Seq(T) /\ h[m] \in Seq(T) /\ h[m - 1] = seqs[m] \o h[m]
      <4>1. m \in 0..n
        BY <1>1, <3>2
      <4>2. seqs \in [1..n -> Seq(T)]
        OBVIOUS
      <4> QED
        BY <1>3, <3>2, <4>1, <4>2, Zenon
    <3>4. f[m] = IF m = 1 THEN seqs[m] ELSE f[m - 1] \o seqs[m]
      BY <2>2, <3>2
    <3>5. CASE m = 1
      BY <3>2, <3>3, <3>4, <3>5
    <3>6. CASE m # 1
      <4>1. m - 1 \in 1..n /\ m - 1 \notin Bad
        <5>1. m - 1 \in 1..n /\ ~(m <= m - 1)
          BY <1>1, <3>2, <3>6
        <5> HIDE DEF Bad
        <5> QED
          BY <3>1, <5>1
      <4>2. f[m - 1] \in Seq(T) /\ f[m - 1] \o h[m - 1] = h[0]
        BY <4>1
      <4> DEFINE a == f[m - 1]
                 b == seqs[m]
                 c == h[m]
      <4>3. a \in Seq(T) /\ b \in Seq(T) /\ c \in Seq(T)
        BY <3>3, <4>2
      <4> HIDE DEF a, b, c
      <4>4. (a \o b) \o c = a \o (b \o c)
        BY <1>2, <4>3, Zenon
      <4>5. a \o b \in Seq(T)
        BY <4>3, ConcatProperties, Zenon
      <4> QED
        BY <3>2, <3>3, <3>4, <3>6, <4>2, <4>4, <4>5, Zenon DEF a, b, c
    <3> QED
      BY <3>5, <3>6
  <2>4. n \in 1..n
    BY <1>1, <1>5
  <2>5. f[n] \in Seq(T) /\ f[n] \o h[n] = h[0]
    BY <2>3, <2>4
  <2>6. f[n] \o << >> = f[n]
    BY <2>5, ConcatEmptySeq
  <2> HIDE DEF n
  <2> QED
    BY <1>3, <2>1, <2>5, <2>6 DEF n
<1> QED
  BY <1>4, <1>5

USE PageantAssumption DEF PageantAssumption

-----------------------------------------------------------------------------
(***************************************************************************)
(* Requests.                                                               *)
(***************************************************************************)

\* What write_string writes is a text, one cell longer than the string.
LEMMA WrittenString ==
  ASSUME NEW s \in Text
  PROVE  WriteString(s) \in Text /\ Len(WriteString(s)) = Len(s) + 1
  BY DEF WriteString, Text

\* A string that was written in front of a text is read, and the text remains.
LEMMA FrontString ==
  ASSUME NEW s \in Text, NEW rest \in Text
  PROVE  /\ HasString(WriteString(s) \o rest)
         /\ FirstString(WriteString(s) \o rest) = s
         /\ AfterString(WriteString(s) \o rest) = rest
  BY StringRoundTrip, Nat \subseteq Nat DEF Text

\* The same with nothing behind it.
LEMMA LoneString ==
  ASSUME NEW s \in Text
  PROVE  HasString(WriteString(s)) /\ FirstString(WriteString(s)) = s
<1>1. << >> \in Text /\ WriteString(s) \o << >> = WriteString(s)
  BY WrittenString DEF Text
<1> QED
  BY <1>1, FrontString

\* Tail drops the message type.
LEMMA TypeDropped ==
  ASSUME NEW x \in Nat, NEW rest \in Text
  PROVE  /\ (<< x >> \o rest) \in Text /\ Len(<< x >> \o rest) = Len(rest) + 1
         /\ (<< x >> \o rest)[1] = x /\ Tail(<< x >> \o rest) = rest
<1> DEFINE text == << x >> \o rest
           tail == Tail(text)
<1>1. /\ text \in Seq(Nat) /\ Len(text) = Len(rest) + 1 /\ text[1] = x
      /\ \A i \in 1..Len(rest) : text[i + 1] = rest[i]
  BY DEF Text
<1>2. rest \in Seq(Nat) /\ Len(rest) \in Nat
  BY DEF Text
<1> HIDE DEF text
<1>3. /\ tail \in Seq(Nat) /\ Len(tail) = Len(rest)
      /\ \A i \in 1..Len(rest) : tail[i] = rest[i]
  <2>1. text # << >>
    BY <1>1, <1>2
  <2> QED
    BY <1>1, <1>2, <2>1, HeadTailProperties
<1> HIDE DEF tail
<1>4. tail = rest
  BY <1>2, <1>3, SeqEqual
<1> QED
  BY <1>1, <1>4 DEF text, tail, Text

\* The digits of a number are a text.
LEMMA DigitsAreText ==
  ASSUME NEW d \in BigNum
  PROVE  d \in Text
<1>1. d \in [1..Len(d) -> 0..(Base - 1)] /\ Len(d) \in Nat
  BY LenProperties DEF BigNum
<1>2. \A i \in 1..Len(d) : d[i] \in Nat
  BY <1>1
<1> QED
  BY <1>1, <1>2 DEF Text

\* The numbers of a key, and the key itself, on the wire.
LEMMA KeyText ==
  ASSUME NEW k \in Key
  PROVE  /\ Mpint(k.e) \in Text /\ FromSlice(Mpint(k.e)) = k.e
         /\ Mpint(k.n) \in Text /\ FromSlice(Mpint(k.n)) = k.n
         /\ k = [e |-> k.e, n |-> k.n] /\ k.e \in Text /\ k.n \in Text
         /\ SshRsa \in Text /\ Encode(k) \in Text /\ Decode(Encode(k)) = k
<1>1. k \in PublicKey /\ k.e # << >> /\ k.n # << >>
  OBVIOUS
<1>2. k.e \in BigNum /\ k.n \in BigNum /\ k = [e |-> k.e, n |-> k.n]
  BY <1>1 DEF PublicKey
<1>3. Mpint(k.e) \in Text /\ Mpint(k.n) \in Text /\ SshRsa \in Text
  BY <1>1, <1>2, NumberRoundTrip DEF Text, SshRsa
<1>4. Encode(k) \in Text
  BY <1>3, WrittenString DEF Encode, Text
<1>5. k.e \in Text /\ k.n \in Text
  BY <1>2, DigitsAreText
<1> QED
  BY <1>1, <1>2, <1>3, <1>4, <1>5, NumberRoundTrip, KeyRoundTrip

\* A request to add a key is read exactly if it is well-formed, and as the pair
\* that was sent.
LEMMA AddRequestText ==
  ASSUME NEW r \in Request, r.op = "add"
  PROVE  /\ RequestText(r) \in Text /\ Len(RequestText(r)) > 0 /\ RequestText(r)[1] = 17
         /\ ReadsPair(Tail(RequestText(r))) <=> WellFormed(r)
         /\ FromWire(Tail(RequestText(r))) = [key |-> r.key, name |-> r.name]
         /\ r.key \in Key /\ r.name \in Nat
<1>1. r.type \in Text /\ r.key \in Key /\ r.name \in Nat /\ << r.name >> \in Text
  <2>1. r.type \in Text /\ r.key \in Key /\ r.name \in Nat
    BY DEF Request
  <2> QED
    BY <2>1 DEF Text
<1> DEFINE n == Mpint(r.key.n)
           e == Mpint(r.key.e)
           comment == WriteString(<< r.name >>)
           last == WriteString(e) \o comment
           numbers == WriteString(n) \o last
           text == WriteString(r.type) \o numbers
<1>2. n \in Text /\ e \in Text
  BY <1>1, KeyText
<1>3. /\ WriteString(r.type) \in Text /\ WriteString(n) \in Text /\ WriteString(e) \in Text
      /\ comment \in Text
  <2> HIDE DEF n, e
  <2> QED
    BY <1>1, <1>2, WrittenString
<1>4. last \in Text /\ numbers \in Text /\ text \in Text
  <2> HIDE DEF n, e, comment
  <2> QED
    BY <1>3 DEF Text
<1>6. RequestText(r) = << 17 >> \o text
  BY DEF RequestText
<1>7. /\ RequestText(r) \in Text /\ Len(RequestText(r)) > 0 /\ RequestText(r)[1] = 17
      /\ Tail(RequestText(r)) = text
  <2> HIDE DEF text
  <2>1. Len(text) \in Nat
    BY <1>4 DEF Text
  <2> QED
    BY <1>4, <1>6, <2>1, TypeDropped
<1>8. HasString(text) /\ FirstString(text) = r.type /\ AfterString(text) = numbers
  <2> HIDE DEF numbers
  <2> QED
    BY <1>1, <1>4, FrontString
<1>9. HasString(numbers) /\ FirstString(numbers) = n /\ AfterString(numbers) = last
  <2> HIDE DEF n, last
  <2> QED
    BY <1>2, <1>4, FrontString
<1>10. HasString(last) /\ FirstString(last) = e /\ AfterString(last) = comment
  <2> HIDE DEF e, comment
  <2> QED
    BY <1>2, <1>3, FrontString
<1>11. HasString(comment) /\ FirstString(comment) = << r.name >>
  BY <1>1, LoneString
<1>12. FromWire(text) = [key |-> [n |-> FromSlice(n), e |-> FromSlice(e)], name |-> r.name]
  <2> HIDE DEF text, numbers, last, comment, n, e
  <2> QED
    BY <1>8, <1>9, <1>10, <1>11 DEF FromWire
<1>13. FromWire(text) = [key |-> r.key, name |-> r.name]
  <2> HIDE DEF text
  <2> QED
    BY <1>1, <1>12, KeyText
<1>14. ReadsPair(text) <=> WellFormed(r)
  <2>1. << r.name >> \in {<< name >> : name \in Name} <=> r.name \in Name
    OBVIOUS
  <2>2. ReadsPair(text) <=> r.type = SshRsa /\ << r.name >> \in {<< name >> : name \in Name}
    <3> HIDE DEF text, numbers, last, comment
    <3> QED
      BY <1>8, <1>9, <1>10, <1>11, Zenon DEF ReadsPair
  <2> QED
    BY <2>1, <2>2 DEF WellFormed
<1> QED
  BY <1>1, <1>7, <1>13, <1>14

\* A request to sign reads as the key that was named.
LEMMA SignRequestText ==
  ASSUME NEW r \in Request, r.op = "sign"
  PROVE  /\ RequestText(r) \in Text /\ Len(RequestText(r)) > 0 /\ RequestText(r)[1] = 13
         /\ Decode(FirstString(Tail(RequestText(r)))) = r.key
         /\ r.key \in Key
<1>1. r.key \in Key /\ r.data \in Text
  BY DEF Request
<1> DEFINE blob == Encode(r.key)
           rest == WriteString(r.data) \o << 0 >>
           text == WriteString(blob) \o rest
<1>2. blob \in Text /\ Decode(blob) = r.key
  BY <1>1, KeyText
<1>3. WriteString(blob) \in Text /\ WriteString(r.data) \in Text /\ << 0 >> \in Text
      /\ << 13 >> \in Text
  <2> HIDE DEF blob
  <2> QED
    BY <1>1, <1>2, WrittenString DEF Text
<1>4. rest \in Text /\ text \in Text
  <2> HIDE DEF blob
  <2> QED
    BY <1>3 DEF Text
<1>6. RequestText(r) = << 13 >> \o text
  BY DEF RequestText
<1>7. /\ RequestText(r) \in Text /\ Len(RequestText(r)) > 0 /\ RequestText(r)[1] = 13
      /\ Tail(RequestText(r)) = text
  <2> HIDE DEF text
  <2>1. Len(text) \in Nat
    BY <1>4 DEF Text
  <2> QED
    BY <1>4, <1>6, <2>1, TypeDropped
<1>8. FirstString(text) = blob
  <2> HIDE DEF blob, rest
  <2> QED
    BY <1>2, <1>4, FrontString
<1> QED
  BY <1>1, <1>2, <1>7, <1>8

\* Every request is a text whose first cell says what it asks for.
LEMMA AnyRequestText ==
  ASSUME NEW r \in Request
  PROVE  /\ RequestText(r) \in Text /\ Len(RequestText(r)) \in Nat \ {0}
         /\ r.op \in {"list", "add", "sign", "other"}
         /\ RequestText(r)[1] = CASE r.op = "list" -> 11 [] r.op = "add" -> 17
                                  [] r.op = "sign" -> 13 [] r.op = "other" -> 1
<1>1. r.op \in {"list", "add", "sign", "other"}
  BY DEF Request
<1>2. CASE r.op \in {"list", "other"}
  BY <1>2 DEF RequestText, Text
<1>3. CASE r.op = "add"
  BY <1>3, AddRequestText DEF Text
<1>4. CASE r.op = "sign"
  BY <1>4, SignRequestText DEF Text
<1> QED
  BY <1>1, <1>2, <1>3, <1>4

-----------------------------------------------------------------------------
(***************************************************************************)
(* Mappings.                                                               *)
(***************************************************************************)

\* A mapping is a text of Region cells.
LEMMA MappingIsText ==
  ASSUME NEW m \in [1..Region -> Nat]
  PROVE  m \in Text /\ Len(m) = Region /\ SubSeq(m, 1, Region) = m
<1>1. m \in Seq(Nat) /\ Len(m) = Region
  OBVIOUS
<1>2. SubSeq(m, 1, Len(m)) = m
  <2> DEFINE whole == SubSeq(m, 1, Len(m))
  <2>1. whole \in Seq(Nat) /\ Len(whole) = Len(m) /\ \A i \in 1..Len(m) : whole[i] = m[i]
    BY <1>1
  <2> HIDE DEF whole
  <2> QED
    BY <1>1, <2>1, SeqEqual
<1> QED
  BY <1>1, <1>2 DEF Text

\* A text at the front of a mapping, with its length, is the string it holds.
LEMMA MappingHolds ==
  ASSUME NEW m \in [1..Region -> Nat], NEW t \in Text, Len(t) < Region,
         \A i \in 1..(Len(t) + 1) : m[i] = WriteString(t)[i]
  PROVE  HasString(m) /\ Head(m) = Len(t) /\ FirstString(m) = t
<1>1. m \in Seq(Nat) /\ Len(m) = Region /\ t \in Seq(Nat) /\ Len(t) \in Nat
  BY MappingIsText DEF Text
<1>2. m[1] = Len(t) /\ \A i \in 1..Len(t) : m[i + 1] = t[i]
  <2> DEFINE w == WriteString(t)
  <2>1. w[1] = Len(t) /\ \A i \in 1..Len(t) : w[i + 1] = t[i]
    BY <1>1 DEF WriteString
  <2> HIDE DEF w
  <2>2. \A i \in 1..(Len(t) + 1) : m[i] = w[i]
    BY DEF w
  <2>3. m[1] = w[1]
    BY <1>1, <2>2
  <2>4. \A i \in 1..Len(t) : m[i + 1] = w[i + 1]
    <3> SUFFICES ASSUME NEW i \in 1..Len(t)
                 PROVE  m[i + 1] = w[i + 1]
      OBVIOUS
    <3>1. i + 1 \in 1..(Len(t) + 1)
      BY <1>1
    <3> QED
      BY <2>2, <3>1
  <2> QED
    BY <2>1, <2>3, <2>4
<1>3. m # << >> /\ Head(m) = Len(t)
  BY <1>1, <1>2
<1>4. FirstString(m) = SubSeq(m, 2, Len(t) + 1)
  BY <1>3 DEF FirstString
<1> DEFINE s == SubSeq(m, 2, Len(t) + 1)
<1>5. s \in Seq(Nat) /\ Len(s) = Len(t) /\ \A i \in 1..Len(t) : s[i] = t[i]
  BY <1>1, <1>2
<1> HIDE DEF s
<1>6. s = t
  BY <1>1, <1>5, SeqEqual
<1> QED
  BY <1>1, <1>3, <1>4, <1>6 DEF HasString, s

\* In a fresh mapping the reader finds the request, and zeros behind it.
LEMMA FreshMapping ==
  ASSUME NEW t \in Text, Len(t) \in Nat \ {0}, Len(t) < Region
  PROVE  LET m == Fresh(WriteString(t))
         IN /\ m \in [1..Region -> Nat]
            /\ HasString(m) /\ Head(m) = Len(t) /\ FirstString(m) = t
            /\ HasString(SubSeq(m, Len(t) + 2, Region)) =>
                 Head(SubSeq(m, Len(t) + 2, Region)) = 0
            /\ m[2] = t[1]
<1> DEFINE m == Fresh(WriteString(t))
<1>1. /\ WriteString(t) \in Seq(Nat) /\ Len(WriteString(t)) = Len(t) + 1
      /\ WriteString(t)[2] = t[1]
  <2>1. WriteString(t) \in Text /\ Len(WriteString(t)) = Len(t) + 1
    BY WrittenString
  <2>2. WriteString(t)[2] = t[1]
    BY DEF WriteString, Text
  <2> QED
    BY <2>1, <2>2 DEF Text
<1>2. /\ m \in [1..Region -> Nat]
      /\ \A i \in 1..(Len(t) + 1) : m[i] = WriteString(t)[i]
      /\ \A i \in (Len(t) + 2)..Region : m[i] = 0
  <2> DEFINE w == WriteString(t)
  <2>1. \A i \in 1..Len(w) : w[i] \in Nat
    BY <1>1
  <2> HIDE DEF w
  <2>2. m = [i \in 1..Region |-> IF i <= Len(w) THEN w[i] ELSE 0]
    BY DEF Fresh, w
  <2>3. Len(w) = Len(t) + 1
    BY <1>1 DEF w
  <2> HIDE DEF m
  <2> QED
    BY <2>1, <2>2, <2>3 DEF w
<1> HIDE DEF m
<1>3. HasString(m) /\ Head(m) = Len(t) /\ FirstString(m) = t
  BY <1>2, MappingHolds
<1>4. HasString(SubSeq(m, Len(t) + 2, Region)) => Head(SubSeq(m, Len(t) + 2, Region)) = 0
  <2> DEFINE zeros == SubSeq(m, Len(t) + 2, Region)
  <2>1. m \in Seq(Nat) /\ Len(m) = Region
    BY <1>2, MappingIsText DEF Text
  <2>2. CASE Len(t) + 2 <= Region
    <3>1. zeros \in Seq(Nat) /\ zeros[1] = m[Len(t) + 2] /\ Len(zeros) > 0
      BY <2>1, <2>2
    <3>2. zeros[1] = 0
      BY <1>2, <2>2, <3>1
    <3> HIDE DEF zeros
    <3>3. Head(zeros) = 0
      BY <3>1, <3>2
    <3> QED
      BY <3>3 DEF zeros
  <2>3. CASE Len(t) + 2 > Region
    <3>1. zeros = << >>
      BY <2>1, <2>3
    <3> QED
      BY <3>1 DEF HasString
  <2> HIDE DEF zeros
  <2>4. Len(t) + 2 <= Region \/ Len(t) + 2 > Region
    OBVIOUS
  <2> QED
    BY <2>2, <2>3, <2>4, Zenon DEF zeros
<1>5. m[2] = t[1]
  BY <1>1, <1>2
<1> QED
  BY <1>2, <1>3, <1>4, <1>5 DEF m

\* A mapping with a request in it has no answer in it.
LEMMA IntactIsNoAnswer ==
  ASSUME NEW r \in Request, NEW m, Intact(r, m)
  PROVE  m[2] \notin AnswerTypes
<1> DEFINE t == RequestText(r)
<1>1. /\ t \in Text /\ Len(t) \in Nat \ {0} /\ r.op \in {"list", "add", "sign", "other"}
      /\ t[1] = CASE r.op = "list" -> 11 [] r.op = "add" -> 17
                  [] r.op = "sign" -> 13 [] r.op = "other" -> 1
  BY AnyRequestText
<1>2. Len(t) < Region /\ m = Fresh(WriteString(t))
  BY DEF Intact
<1> HIDE DEF t
<1>3. m[2] = t[1]
  BY <1>1, <1>2, FreshMapping
<1>4. t[1] \in {11, 17, 13, 1}
  BY <1>1
<1> QED
  BY <1>3, <1>4 DEF AnswerTypes

\* In a mapping to which an answer was copied, the client finds that answer.
LEMMA CopiedMapping ==
  ASSUME NEW m \in [1..Region -> Nat], NEW a \in Text, Len(a) < Region
  PROVE  LET w == WriteString(a)
             copy == [i \in 1..Region |-> IF i <= Len(w) THEN w[i] ELSE m[i]]
         IN /\ copy \in [1..Region -> Nat]
            /\ FirstString(copy) = a
            /\ Len(a) > 0 => copy[2] = a[1]
<1> DEFINE w == WriteString(a)
           copy == [i \in 1..Region |-> IF i <= Len(w) THEN w[i] ELSE m[i]]
<1>1. w \in Seq(Nat) /\ Len(w) = Len(a) + 1 /\ Len(a) \in Nat
  BY WrittenString DEF Text
<1>2. \A i \in 1..Len(w) : w[i] \in Nat
  BY <1>1
<1>3. copy \in [1..Region -> Nat] /\ \A i \in 1..(Len(a) + 1) : copy[i] = w[i]
  <2> HIDE DEF w
  <2> QED
    BY <1>1, <1>2
<1>4. FirstString(copy) = a
  <2> HIDE DEF copy
  <2> QED
    BY <1>3, MappingHolds
<1>5. w[2] = a[1] \/ Len(a) = 0
  BY DEF WriteString, Text
<1>6. Len(a) > 0 => copy[2] = a[1]
  <2> HIDE DEF copy, w
  <2> QED
    BY <1>1, <1>3, <1>5
<1> QED
  BY <1>3, <1>4, <1>6

-----------------------------------------------------------------------------
(***************************************************************************)
(* Answers.                                                                *)
(***************************************************************************)

\* The pairs of a listing are texts.
LEMMA PairsAreTexts ==
  ASSUME NEW r \in Seq(KeyPair)
  PROVE  LET pairs == [i \in DOMAIN r |-> ListedPair(r[i])]
         IN /\ pairs \in Seq(Text) /\ Len(pairs) = Len(r)
            /\ \A i \in 1..Len(r) : pairs[i] = ListedPair(r[i])
<1> DEFINE pairs == [i \in DOMAIN r |-> ListedPair(r[i])]
<1>1. ASSUME NEW i \in DOMAIN r
      PROVE  ListedPair(r[i]) \in Text
  <2>1. r[i] \in KeyPair
    OBVIOUS
  <2>2. r[i].key \in Key /\ r[i].name \in Nat
    BY <2>1 DEF KeyPair
  <2>3. Encode(r[i].key) \in Text /\ << r[i].name >> \in Text
    BY <2>2, KeyText DEF Text
  <2>4. WriteString(Encode(r[i].key)) \in Text /\ WriteString(<< r[i].name >>) \in Text
    BY <2>3, WrittenString
  <2> QED
    BY <2>4 DEF ListedPair, Text
<1>2. DOMAIN r = 1..Len(r) /\ Len(r) \in Nat
  OBVIOUS
<1>3. pairs \in [1..Len(r) -> Text] /\ \A i \in 1..Len(r) : pairs[i] = ListedPair(r[i])
  BY <1>1, <1>2, Zenon
<1> HIDE DEF pairs
<1>4. pairs \in Seq(Text) /\ Len(pairs) = Len(r)
  BY <1>2, <1>3
<1> QED
  BY <1>3, <1>4 DEF pairs

\* A text whose first cell tells a client that it is an answer.
IsAnswer(a) == a \in Text /\ Len(a) \in Nat \ {0} /\ a[1] \in AnswerTypes

\* A listing is one.
LEMMA ListingText ==
  ASSUME NEW r \in Seq(KeyPair)
  PROVE  IsAnswer(Listing(r))
<1> DEFINE pairs == [i \in DOMAIN r |-> ListedPair(r[i])]
           flat == FlattenSeq(pairs)
<1>1. pairs \in Seq(Text)
  BY PairsAreTexts
<1>2. flat \in Seq(Nat)
  <2> HIDE DEF pairs
  <2> QED
    BY <1>1, FlattenType DEF Text
<1>3. Listing(r) = << 12, Len(r) >> \o flat
  BY DEF Listing
<1> HIDE DEF flat
<1> QED
  BY <1>2, <1>3 DEF IsAnswer, Text, AnswerTypes

\* A pair of a listing, with a text behind it, is read from the front.
LEMMA PairIsRead ==
  ASSUME NEW pair \in KeyPair, NEW rest \in Text
  PROVE  LET text == ListedPair(pair) \o rest
         IN /\ FirstString(text) = Encode(pair.key)
            /\ FirstString(AfterString(text)) = << pair.name >>
            /\ AfterString(AfterString(text)) = rest
<1> DEFINE blob == Encode(pair.key)
           comment == << pair.name >>
           w1 == WriteString(blob)
           w2 == WriteString(comment)
           behind == w2 \o rest
<1>1. blob \in Text /\ comment \in Text
  BY KeyText DEF KeyPair, Text
<1>2. ListedPair(pair) = w1 \o w2
  BY DEF ListedPair
<1> HIDE DEF blob, comment
<1>3. w1 \in Text /\ w2 \in Text
  BY <1>1, WrittenString
<1>4. behind \in Text
  <2> HIDE DEF w2
  <2> QED
    BY <1>3 DEF Text
<1>5. (w1 \o w2) \o rest = w1 \o behind
  <2>1. \A s, t, u \in Seq(Nat) : (s \o t) \o u = s \o (t \o u)
    BY ConcatAssociative
  <2>2. w1 \in Seq(Nat) /\ w2 \in Seq(Nat) /\ rest \in Seq(Nat)
    BY <1>3 DEF Text
  <2> HIDE DEF w1, w2
  <2>3. (w1 \o w2) \o rest = w1 \o (w2 \o rest)
    BY <2>1, <2>2, ZenonT(30)
  <2> QED
    BY <2>3
<1>6. /\ FirstString(w1 \o behind) = blob
      /\ AfterString(w1 \o behind) = behind
  <2> HIDE DEF behind
  <2> QED
    BY <1>1, <1>4, FrontString
<1>7. FirstString(behind) = comment /\ AfterString(behind) = rest
  BY <1>1, FrontString
<1> QED
  BY <1>2, <1>5, <1>6, <1>7, Zenon DEF blob, comment

\* A client that reads a listing as the agent protocol says finds the pairs it
\* is of: what remains after each of them is there for it to read.
LEMMA ListingLists ==
  ASSUME NEW r \in Seq(KeyPair)
  PROVE  Lists(Listing(r), r)
<1> DEFINE pairs == [i \in DOMAIN r |-> ListedPair(r[i])]
           answer == Listing(r)
           tail == SubSeq(answer, 3, Len(answer))
           n == Len(r)
           rest == CHOOSE rest : rest = [i \in 0..n |-> IF i = 0 THEN tail
                                                        ELSE AfterString(AfterString(rest[i - 1]))]
<1>1. n \in Nat /\ DOMAIN r = 1..n
  OBVIOUS
<1>2. pairs \in Seq(Text) /\ Len(pairs) = n /\ \A i \in 1..n : pairs[i] = ListedPair(r[i])
  BY PairsAreTexts
<1> HIDE DEF pairs
<1>3. PICK h \in [0..n -> Text] :
         /\ h[0] = FlattenSeq(pairs)
         /\ h[n] = << >>
         /\ \A i \in 1..n : h[i - 1] = pairs[i] \o h[i]
  <2>1. pairs \in Seq(Seq(Nat))
    BY <1>2 DEF Text
  <2>2. \E h \in [0..Len(pairs) -> Seq(Nat)] :
          /\ h[0] = FlattenSeq(pairs)
          /\ h[Len(pairs)] = << >>
          /\ \A i \in 1..Len(pairs) : h[i - 1] = pairs[i] \o h[i]
    BY <2>1, FlattenFromFront, Zenon
  <2> HIDE DEF n
  <2> QED
    BY <1>2, <2>2, Zenon DEF Text
<1>4. answer[1] = 12 /\ answer[2] = n /\ tail = h[0]
  <2> DEFINE flat == FlattenSeq(pairs)
  <2>1. flat \in Seq(Nat)
    BY <1>1, <1>3 DEF Text
  <2>2. answer = << 12, n >> \o flat
    BY DEF Listing, pairs
  <2> HIDE DEF flat, answer, n
  <2>3. /\ answer \in Seq(Nat) /\ Len(answer) = Len(flat) + 2 /\ Len(flat) \in Nat
        /\ answer[1] = 12 /\ answer[2] = n
        /\ \A i \in 1..Len(flat) : answer[i + 2] = flat[i]
    BY <1>1, <2>1, <2>2
  <2>4. /\ tail \in Seq(Nat) /\ Len(tail) = Len(flat)
        /\ \A i \in 1..Len(flat) : tail[i] = flat[i]
    BY <2>3
  <2> HIDE DEF tail
  <2>5. tail = flat
    BY <2>1, <2>4, SeqEqual
  <2> QED
    BY <1>3, <2>3, <2>5 DEF flat
<1> HIDE DEF answer, tail
<1>5. ASSUME NEW i \in 1..n
      PROVE  /\ r[i] \in KeyPair
             /\ FirstString(h[i - 1]) = Encode(r[i].key)
             /\ FirstString(AfterString(h[i - 1])) = << r[i].name >>
             /\ AfterString(AfterString(h[i - 1])) = h[i]
  <2>1. r[i] \in KeyPair
    OBVIOUS
  <2>2. i \in 0..n /\ h[i] \in Text
    BY <1>1, <1>3
  <2>3. h[i - 1] = ListedPair(r[i]) \o h[i]
    BY <1>2, <1>3, Zenon
  <2> HIDE DEF n
  <2> QED
    BY <2>1, <2>2, <2>3, PairIsRead, Zenon
<1>6. rest = [i \in 0..n |-> IF i = 0 THEN tail ELSE AfterString(AfterString(rest[i - 1]))]
  <2>1. \A i \in 0..n : h[i] = IF i = 0 THEN tail ELSE AfterString(AfterString(h[i - 1]))
    <3> SUFFICES ASSUME NEW i \in 0..n
                 PROVE  h[i] = IF i = 0 THEN tail ELSE AfterString(AfterString(h[i - 1]))
      OBVIOUS
    <3>1. CASE i = 0
      BY <1>4, <3>1
    <3>2. CASE i # 0
      <4>1. i \in 1..n
        BY <1>1, <3>2
      <4> QED
        BY <1>5, <3>2, <4>1, Zenon
    <3> QED
      BY <3>1, <3>2
  <2>2. h = [i \in 0..n |-> h[i]]
    BY <1>3
  <2> HIDE DEF n
  <2>3. h = [i \in 0..n |-> IF i = 0 THEN tail ELSE AfterString(AfterString(h[i - 1]))]
    BY <2>1, <2>2
  <2> QED
    BY <2>3, Zenon
<1> HIDE DEF rest
<1> DEFINE Bad == {i \in 0..n : rest[i] # h[i]}
<1>7. Bad = {}
  <2> SUFFICES ASSUME Bad # {}
               PROVE  FALSE
    OBVIOUS
  <2>1. PICK m \in Bad : \A k \in Bad : m <= k
    <3>1. Bad \in SUBSET Nat
      OBVIOUS
    <3> HIDE DEF Bad
    <3> QED
      BY <3>1, Smallest
  <2>2. m \in 0..n /\ rest[m] # h[m]
    OBVIOUS
  <2>3. rest[m] = IF m = 0 THEN tail ELSE AfterString(AfterString(rest[m - 1]))
    BY <1>6, <2>2, Zenon
  <2>4. m # 0
    BY <1>4, <2>2, <2>3
  <2>5. m \in 1..n /\ m - 1 \in 0..n /\ ~(m <= m - 1)
    BY <1>1, <2>2, <2>4
  <2>6. m - 1 \notin Bad
    <3> HIDE DEF Bad
    <3> QED
      BY <2>1, <2>5
  <2>7. rest[m - 1] = h[m - 1]
    BY <2>5, <2>6
  <2> QED
    BY <1>5, <2>2, <2>3, <2>4, <2>5, <2>7, Zenon
<1>8. \A i \in DOMAIN r : /\ MeansKey(FirstString(rest[i - 1]), r[i].key)
                          /\ FirstString(AfterString(rest[i - 1])) = << r[i].name >>
  <2> SUFFICES ASSUME NEW i \in 1..n
               PROVE  /\ MeansKey(FirstString(rest[i - 1]), r[i].key)
                      /\ FirstString(AfterString(rest[i - 1])) = << r[i].name >>
    BY <1>1
  <2>1. i - 1 \in 0..n
    BY <1>1
  <2>2. rest[i - 1] = h[i - 1]
    BY <1>7, <2>1
  <2>3. r[i].key \in Key
    BY <1>5 DEF KeyPair
  <2>4. MeansKey(Encode(r[i].key), r[i].key)
    BY <2>3, KeyIsUnderstood
  <2> QED
    BY <1>5, <2>2, <2>4, Zenon
<1>9. n \in 0..n /\ rest[n] = << >>
  BY <1>1, <1>3, <1>7
<1> QED
  BY <1>4, <1>8, <1>9 DEF Lists, answer, tail, rest

\* A signature, in its response, is one.
LEMMA SignResponseText ==
  ASSUME NEW k \in Key
  PROVE  IsAnswer(SignResponse(k))
<1>1. k.e \in Text /\ k.n \in Text /\ SshRsa \in Text
  BY KeyText
<1>2. k.n \o k.e \in Text
  BY <1>1 DEF Text
<1>3. WriteString(SshRsa) \in Text /\ WriteString(k.n \o k.e) \in Text
  BY <1>1, <1>2, WrittenString
<1>4. Signature(k) \in Text
  BY <1>3 DEF Signature, Text
<1> DEFINE w == WriteString(Signature(k))
<1>5. w \in Text /\ Len(w) \in Nat
  BY <1>4, WrittenString DEF Text
<1>6. SignResponse(k) = << 14 >> \o w
  BY DEF SignResponse
<1> HIDE DEF w
<1> QED
  BY <1>5, <1>6, TypeDropped DEF IsAnswer, AnswerTypes

\* Every outcome of a request is one.
LEMMA OutcomeText ==
  ASSUME NEW r \in Request, NEW before \in Seq(KeyPair), NEW ok \in BOOLEAN
  PROVE  IsAnswer(Outcome(r, before, ok))
<1>1. r.op \in {"list", "add", "sign", "other"} /\ (r.op = "sign" => r.key \in Key)
  BY DEF Request
<1>2. IsAnswer(Failure) /\ IsAnswer(<< 6 >>)
  BY DEF IsAnswer, Failure, Text, AnswerTypes
<1> QED
  BY <1>1, <1>2, ListingText, SignResponseText DEF Outcome

\* So is what is expected of a request that was handled.
LEMMA ExpectedText ==
  ASSUME NEW r \in Request, NEW h \in History
  PROVE  Expected(r, h) \in Text
<1>1. h.before \in Seq(KeyPair) /\ h.ok \in BOOLEAN
  BY DEF History
<1> QED
  BY <1>1, OutcomeText DEF Expected, IsAnswer

-----------------------------------------------------------------------------
(***************************************************************************)
(* The inductive invariant.  One lemma per group of actions.               *)
(***************************************************************************)

\* A process begins consistently.
LEMMA InitIsConsistent == Init => Consistent
<1> SUFFICES ASSUME Init
             PROVE  Consistent
  OBVIOUS
<1>1. TypeOK
  <2>1. ring \in Seq(KeyPair) /\ DistinctKeys(ring)
    BY DEF Init
  <2>2. frame \in Text /\ resp \in Text
    BY DEF Init, Text
  <2>3. pos \in 0..Region /\ others \in 0..MaxOther
    BY DEF Init
  <2>4. mapping \in [Client -> [1..Region -> Nat]]
    BY DEF Init
  <2>5. asked \in [Client -> Request \cup {None}] /\ seen \in [Client -> History \cup {None}]
    BY DEF Init
  <2> QED
    BY <2>1, <2>2, <2>3, <2>4, <2>5 DEF Init, TypeOK
<1>2. MutexConsistent /\ CallerConsistent /\ MessagesConsistent /\ CursorConsistent
      /\ AnswersConsistent
  BY DEF Init, MutexConsistent, CallerConsistent, MessagesConsistent, CursorConsistent,
         AnswersConsistent, Unread
<1> QED
  BY <1>1, <1>2 DEF Consistent

\* Messages and answers are untouched by what leaves the clients alone.
LEMMA ClientsUntouched ==
  ASSUME MessagesConsistent, AnswersConsistent, UNCHANGED clientVars
  PROVE  MessagesConsistent' /\ AnswersConsistent'
  BY DEF MessagesConsistent, AnswersConsistent, Answer, clientVars

\* The steps of the thread that neither read nor write a message.
LEMMA QuietStepsAreSafe ==
  ASSUME Consistent,
         CreateWindow \/ CreateFails \/ ExitProcess \/ (\E c \in Client : TakeMessage(c))
         \/ FindOwner \/ LockForRequester \/ CollectRequester \/ LockForRequest
         \/ OtherLocks \/ OtherUnlocks
  PROVE  Consistent'
<1> USE DEF Consistent
<1>1. UNCHANGED clientVars
  BY DEF CreateWindow, CreateFails, ExitProcess, TakeMessage, FindOwner, LockForRequester,
         CollectRequester, LockForRequest, Lock, OtherLocks, OtherUnlocks
<1>2. CASE CreateWindow \/ CreateFails \/ ExitProcess
  <2>1. TypeOK'
    BY <1>1, <1>2 DEF CreateWindow, CreateFails, ExitProcess, Goto, TypeOK, clientVars, agentVars
  <2>2. MutexConsistent' /\ CallerConsistent'
    BY <1>1, <1>2 DEF CreateWindow, CreateFails, ExitProcess, Goto, TypeOK, MutexConsistent, CallerConsistent, clientVars,
       agentVars
  <2>3. CursorConsistent'
    BY <1>1, <1>2 DEF CreateWindow, CreateFails, ExitProcess, Goto, CursorConsistent, Unread, Read, Replied, clientVars,
       agentVars
  <2> QED
    BY <1>1, <2>1, <2>2, <2>3, ClientsUntouched
<1>3. CASE \E c \in Client : TakeMessage(c)
  <2>1. TypeOK'
    BY <1>1, <1>3 DEF TakeMessage, Goto, TypeOK, clientVars, agentVars
  <2>2. MutexConsistent' /\ CallerConsistent'
    BY <1>1, <1>3 DEF TakeMessage, Goto, TypeOK, MutexConsistent, CallerConsistent, clientVars,
       agentVars
  <2>3. CursorConsistent'
    BY <1>1, <1>3 DEF TakeMessage, Goto, CursorConsistent, Unread, Read, Replied, clientVars,
       agentVars
  <2> QED
    BY <1>1, <2>1, <2>2, <2>3, ClientsUntouched
<1>4. CASE FindOwner
  <2>1. TypeOK'
    BY <1>1, <1>4 DEF FindOwner, Goto, TypeOK, clientVars, agentVars
  <2>2. MutexConsistent' /\ CallerConsistent'
    BY <1>1, <1>4 DEF FindOwner, Goto, TypeOK, MutexConsistent, CallerConsistent, clientVars,
       agentVars
  <2>3. CursorConsistent'
    BY <1>1, <1>4 DEF FindOwner, Goto, CursorConsistent, Unread, Read, Replied, clientVars,
       agentVars
  <2> QED
    BY <1>1, <2>1, <2>2, <2>3, ClientsUntouched
<1>5. CASE LockForRequester
  <2>1. TypeOK'
    BY <1>1, <1>5 DEF LockForRequester, Lock, Goto, TypeOK, clientVars, agentVars
  <2>2. MutexConsistent' /\ CallerConsistent'
    BY <1>1, <1>5 DEF LockForRequester, Lock, Goto, TypeOK, MutexConsistent, CallerConsistent, clientVars,
       agentVars
  <2>3. CursorConsistent'
    BY <1>1, <1>5 DEF LockForRequester, Lock, Goto, CursorConsistent, Unread, Read, Replied, clientVars,
       agentVars
  <2> QED
    BY <1>1, <2>1, <2>2, <2>3, ClientsUntouched
<1>6. CASE CollectRequester
  <2>1. TypeOK'
    BY <1>1, <1>6 DEF CollectRequester, Goto, TypeOK, clientVars, agentVars
  <2>2. MutexConsistent' /\ CallerConsistent'
    BY <1>1, <1>6 DEF CollectRequester, Goto, TypeOK, MutexConsistent, CallerConsistent, clientVars,
       agentVars
  <2>3. CursorConsistent'
    BY <1>1, <1>6 DEF CollectRequester, Goto, CursorConsistent, Unread, Read, Replied, clientVars,
       agentVars
  <2> QED
    BY <1>1, <2>1, <2>2, <2>3, ClientsUntouched
<1>7. CASE LockForRequest
  <2>1. TypeOK'
    BY <1>1, <1>7 DEF LockForRequest, Lock, Goto, TypeOK, clientVars, agentVars
  <2>2. MutexConsistent' /\ CallerConsistent'
    BY <1>1, <1>7 DEF LockForRequest, Lock, Goto, TypeOK, MutexConsistent, CallerConsistent, clientVars,
       agentVars
  <2>3. CursorConsistent'
    BY <1>1, <1>7 DEF LockForRequest, Lock, Goto, CursorConsistent, Unread, Read, Replied, clientVars,
       agentVars
  <2> QED
    BY <1>1, <2>1, <2>2, <2>3, ClientsUntouched
<1>8. CASE OtherLocks
  <2>1. TypeOK'
    BY <1>1, <1>8 DEF OtherLocks, threadVars, Goto, TypeOK, clientVars, agentVars
  <2>2. MutexConsistent' /\ CallerConsistent'
    BY <1>1, <1>8 DEF OtherLocks, threadVars, Goto, TypeOK, MutexConsistent, CallerConsistent, clientVars,
       agentVars
  <2>3. CursorConsistent'
    BY <1>1, <1>8 DEF OtherLocks, threadVars, Goto, CursorConsistent, Unread, Read, Replied, clientVars,
       agentVars
  <2> QED
    BY <1>1, <2>1, <2>2, <2>3, ClientsUntouched
<1>9. CASE OtherUnlocks
  <2>1. TypeOK'
    BY <1>1, <1>9 DEF OtherUnlocks, threadVars, Goto, TypeOK, clientVars, agentVars
  <2>2. MutexConsistent' /\ CallerConsistent'
    BY <1>1, <1>9 DEF OtherUnlocks, threadVars, Goto, TypeOK, MutexConsistent, CallerConsistent, clientVars,
       agentVars
  <2>3. CursorConsistent'
    BY <1>1, <1>9 DEF OtherUnlocks, threadVars, Goto, CursorConsistent, Unread, Read, Replied, clientVars,
       agentVars
  <2> QED
    BY <1>1, <2>1, <2>2, <2>3, ClientsUntouched
<1> QED
  BY <1>2, <1>3, <1>4, <1>5, <1>6, <1>7, <1>8, <1>9

\* A client sends its request in a mapping of its own.
LEMMA SendingIsSafe ==
  ASSUME Consistent, NEW c \in Client, NEW r \in Request, SendCopyData(c, r)
  PROVE  Consistent'
<1> USE DEF Consistent
<1> DEFINE t == RequestText(r)
           m == Fresh(WriteString(t))
<1>1. t \in Text /\ Len(t) \in Nat \ {0} /\ Len(t) < Region
  BY AnyRequestText DEF SendCopyData
<1>2. m \in [1..Region -> Nat]
  <2> HIDE DEF t
  <2> QED
    BY <1>1, FreshMapping
<1>3. r # None
  BY DEF SendCopyData, Request
<1>4. Intact(r, m)
  BY <1>1, <1>3 DEF Intact
<1>5. /\ client[c] = "idle"
      /\ client' = [client EXCEPT ![c] = "waiting"] /\ asked' = [asked EXCEPT ![c] = r]
      /\ mapping' = [mapping EXCEPT ![c] = m]
      /\ UNCHANGED <<threadVars, agentVars, seen>>
  BY DEF SendCopyData
<1> HIDE DEF m
<1>6. TypeOK'
  BY <1>2, <1>5 DEF TypeOK, threadVars, agentVars
<1>7. MutexConsistent' /\ CallerConsistent'
  BY <1>5 DEF TypeOK, MutexConsistent, CallerConsistent, threadVars, agentVars
<1>8. MessagesConsistent'
  BY <1>4, <1>5 DEF TypeOK, MessagesConsistent
<1>9. CursorConsistent'
  BY <1>5 DEF TypeOK, CallerConsistent, CursorConsistent, Unread, Read, Replied, threadVars
<1>10. AnswersConsistent'
  BY <1>5 DEF TypeOK, AnswersConsistent, Answer
<1> QED
  BY <1>6, <1>7, <1>8, <1>9, <1>10

\* What the Cursor finds: the request first, and no second one behind it.
LEMMA CursorFinds ==
  ASSUME Consistent, place = "read"
  PROVE  LET t == RequestText(asked[caller])
         IN /\ caller \in Client
            /\ t \in Text /\ Len(t) \in Nat \ {0} /\ Len(t) < Region
            /\ Unread => HasString(Rest) /\ Head(Rest) = Len(t) /\ FirstString(Rest) = t
            /\ Read /\ HasString(Rest) => Head(Rest) = 0
<1> DEFINE r == asked[caller]
           t == RequestText(r)
           m == mapping[caller]
<1>1. /\ caller \in Client /\ r \in Request /\ m \in [1..Region -> Nat]
      /\ m = Fresh(WriteString(t)) /\ Len(t) < Region
  BY DEF Consistent, TypeOK, CallerConsistent, MessagesConsistent, Intact
<1>2. t \in Text /\ Len(t) \in Nat \ {0}
  <2> HIDE DEF r
  <2> QED
    BY <1>1, AnyRequestText
<1>3. /\ HasString(m) /\ Head(m) = Len(t) /\ FirstString(m) = t
      /\ HasString(SubSeq(m, Len(t) + 2, Region)) => Head(SubSeq(m, Len(t) + 2, Region)) = 0
  <2> HIDE DEF t, m
  <2> QED
    BY <1>1, <1>2, FreshMapping
<1>4. SubSeq(m, 1, Region) = m
  <2> HIDE DEF m
  <2> QED
    BY <1>1, MappingIsText
<1>5. Unread => Rest = m
  BY <1>4 DEF Unread, Rest
<1>6. Read => Rest = SubSeq(m, Len(t) + 2, Region)
  BY <1>2 DEF Read, Rest
<1> HIDE DEF t, m
<1> QED
  BY <1>1, <1>2, <1>3, <1>5, <1>6 DEF t

\* The request is read once, and then nothing more is read.
LEMMA ReadingIsSafe ==
  ASSUME Consistent, EndOfRequests \/ ReadRequest
  PROVE  Consistent'
<1> USE DEF Consistent
<1> DEFINE t == RequestText(asked[caller])
<1>1. UNCHANGED <<caller, resp, agentVars, clientVars>> /\ place = "read"
  BY DEF EndOfRequests, ReadRequest, Goto
<1>2. /\ caller \in Client
      /\ t \in Text /\ Len(t) \in Nat \ {0} /\ Len(t) < Region
      /\ Unread => HasString(Rest) /\ Head(Rest) = Len(t) /\ FirstString(Rest) = t
      /\ Read /\ HasString(Rest) => Head(Rest) = 0
  BY <1>1, CursorFinds
<1>3. Unread \/ (Read /\ Replied)
  BY <1>1 DEF CursorConsistent
<1> HIDE DEF t
<1>4. CASE EndOfRequests
  <2>1. Read /\ Replied
    BY <1>2, <1>3, <1>4 DEF EndOfRequests
  <2>2. place' = "copy" /\ UNCHANGED <<pos, frame>>
    BY <1>4 DEF EndOfRequests, Goto
  <2>3. TypeOK'
    BY <1>1, <2>2 DEF TypeOK, agentVars, clientVars
  <2>4. MutexConsistent' /\ CallerConsistent'
    BY <1>1, <2>2 DEF TypeOK, MutexConsistent, CallerConsistent, agentVars, clientVars
  <2>5. CursorConsistent'
    BY <1>1, <2>1, <2>2 DEF CursorConsistent, Unread, Read, Replied, clientVars
  <2> QED
    BY <1>1, <2>3, <2>4, <2>5, ClientsUntouched
<1>5. CASE ReadRequest
  <2>1. Unread /\ frame' = t /\ pos' = Len(t) + 1
    BY <1>2, <1>3, <1>5 DEF ReadRequest, Unread
  <2>2. place' = "await"
    BY <1>5 DEF ReadRequest, Goto
  <2>3. TypeOK'
    BY <1>1, <1>2, <2>1, <2>2 DEF TypeOK, agentVars, clientVars
  <2>4. MutexConsistent' /\ CallerConsistent'
    BY <1>1, <2>2 DEF TypeOK, MutexConsistent, CallerConsistent, agentVars, clientVars
  <2>5. CursorConsistent'
    BY <1>1, <2>1, <2>2 DEF CursorConsistent, Unread, Read, clientVars, t
  <2> QED
    BY <1>1, <2>3, <2>4, <2>5, ClientsUntouched
<1> QED
  BY <1>4, <1>5

\* A reply that is the expected one leaves everything consistent.
LEMMA ReplyIsSafe ==
  ASSUME Consistent, Goto("handle", "read"), NEW answer, NEW ok \in BOOLEAN, Reply(answer, ok),
         ring' \in Seq(KeyPair), DistinctKeys(ring'),
         Handled(asked[caller], [before |-> ring, after |-> ring', ok |-> ok]),
         answer = Expected(asked[caller], [before |-> ring, after |-> ring', ok |-> ok])
  PROVE  Consistent'
<1> USE DEF Consistent
<1> DEFINE h == [before |-> ring, after |-> ring', ok |-> ok]
<1>1. caller \in Client /\ client[caller] = "waiting" /\ asked[caller] \in Request
  BY DEF Goto, TypeOK, CallerConsistent, MessagesConsistent, Intact
<1>2. h \in History
  BY DEF TypeOK, History
<1>3. Read /\ resp = << >>
  BY DEF Goto, CursorConsistent
<1>4. /\ lock' = None /\ seen' = [seen EXCEPT ![caller] = h]
      /\ resp' = resp \o WriteString(answer)
      /\ UNCHANGED <<caller, pos, frame, poisoned, others, up, client, asked, mapping>>
      /\ place = "handle" /\ place' = "read"
  BY DEF Reply, Goto
<1>5. Handled(asked[caller], h) /\ answer = Expected(asked[caller], h)
  OBVIOUS
<1> HIDE DEF h
<1>6. answer \in Text
  BY <1>1, <1>2, <1>5, ExpectedText
<1>7. WriteString(answer) \in Text
  BY <1>6, WrittenString
<1>8. resp' = WriteString(answer)
  <2> DEFINE w == WriteString(answer)
  <2>1. w \in Seq(Nat)
    BY <1>7 DEF Text
  <2> HIDE DEF w
  <2>2. << >> \o w = w
    BY <2>1
  <2> QED
    BY <1>3, <1>4, <2>2 DEF w
<1>9. TypeOK'
  BY <1>2, <1>4, <1>7, <1>8 DEF TypeOK
<1>10. MutexConsistent' /\ CallerConsistent'
  BY <1>4 DEF TypeOK, MutexConsistent, CallerConsistent
<1>11. MessagesConsistent'
  BY <1>4 DEF MessagesConsistent
<1>12. seen'[caller] = h
  BY <1>1, <1>4 DEF TypeOK
<1>13. CursorConsistent'
  BY <1>3, <1>4, <1>5, <1>8, <1>12 DEF CursorConsistent, Read, Replied
<1>14. AnswersConsistent'
  BY <1>1, <1>4 DEF TypeOK, AnswersConsistent, Answer
<1> QED
  BY <1>9, <1>10, <1>11, <1>13, <1>14

\* What a request leaves in the list of keys.
LEMMA AfterIsSafe ==
  ASSUME NEW r \in Request, NEW before \in Seq(KeyPair), DistinctKeys(before)
  PROVE  /\ AfterRequest(r, before) \in Seq(KeyPair)
         /\ DistinctKeys(AfterRequest(r, before))
         /\ r.op = "add" => KeysOf(AfterRequest(r, before)) =
                              IF WellFormed(r) THEN KeysOf(before) \cup {r.key} ELSE KeysOf(before)
<1>1. CASE ~(r.op = "add" /\ WellFormed(r))
  BY <1>1 DEF AfterRequest
<1>2. CASE r.op = "add" /\ WellFormed(r)
  <2> DEFINE pair == [key |-> r.key, name |-> r.name]
  <2>1. pair \in KeyPair /\ pair.key = r.key
    BY <1>2 DEF Request, KeyPair, WellFormed
  <2>2. AfterRequest(r, before) = PushNew(before, pair)
    BY <1>2 DEF AfterRequest
  <2> HIDE DEF pair
  <2> QED
    BY <1>2, <2>1, <2>2, PushNewIsSafe
<1> QED
  BY <1>1, <1>2

\* The pair that is read from a request to add is the one that was sent.
LEMMA AddedPair ==
  ASSUME NEW r \in Request, r.op = "add", WellFormed(r)
  PROVE  \A before : PushNew(before, FromWire(Tail(RequestText(r)))) = AfterRequest(r, before)
<1>1. FromWire(Tail(RequestText(r))) = [key |-> r.key, name |-> r.name]
  BY AddRequestText
<1> QED
  BY <1>1 DEF AfterRequest

\* A request that is handled is the one that its client has sent.
LEMMA HandledRequest ==
  ASSUME Consistent, place = "handle"
  PROVE  /\ caller \in Client /\ client[caller] = "waiting"
         /\ asked[caller] \in Request /\ frame = RequestText(asked[caller])
         /\ ring \in Seq(KeyPair) /\ DistinctKeys(ring)
         /\ asked[caller].op \in {"list", "add", "sign", "other"}
         /\ frame[1] = CASE asked[caller].op = "list" -> 11 [] asked[caller].op = "add" -> 17
                         [] asked[caller].op = "sign" -> 13 [] asked[caller].op = "other" -> 1
<1> DEFINE r == asked[caller]
<1>1. /\ caller \in Client /\ client[caller] = "waiting"
      /\ r \in Request /\ frame = RequestText(r)
      /\ ring \in Seq(KeyPair) /\ DistinctKeys(ring)
  BY DEF Consistent, TypeOK, CallerConsistent, MessagesConsistent, CursorConsistent, Intact
<1> HIDE DEF r
<1>2. /\ r.op \in {"list", "add", "sign", "other"}
      /\ frame[1] = CASE r.op = "list" -> 11 [] r.op = "add" -> 17
                      [] r.op = "sign" -> 13 [] r.op = "other" -> 1
  BY <1>1, AnyRequestText
<1> QED
  BY <1>1, <1>2 DEF r

\* Each handler does to the keys what its request asks for, and replies with the
\* outcome.
LEMMA HandlersReply ==
  ASSUME Consistent, Handle
  PROVE  /\ Goto("handle", "read")
         /\ ring' = AfterRequest(asked[caller], ring)
         /\ \E ok \in BOOLEAN : Reply(Outcome(asked[caller], ring, ok), ok)
<1> DEFINE r == asked[caller]
<1>1. Goto("handle", "read")
  BY DEF Handle, RequestIdentities, AddIdentity, SignRequest, UnknownRequest, Requested
<1>2. /\ r \in Request /\ frame = RequestText(r) /\ ring \in Seq(KeyPair)
      /\ r.op \in {"list", "add", "sign", "other"}
      /\ frame[1] = CASE r.op = "list" -> 11 [] r.op = "add" -> 17
                      [] r.op = "sign" -> 13 [] r.op = "other" -> 1
  BY <1>1, HandledRequest DEF Goto
<1> HIDE DEF r
<1>3. CASE RequestIdentities
  <2>1. r.op = "list"
    BY <1>2, <1>3 DEF RequestIdentities, Requested
  <2>2. ring' = ring /\ Reply(Listing(ring), TRUE)
    BY <1>3 DEF RequestIdentities
  <2>3. Outcome(r, ring, TRUE) = Listing(ring) /\ AfterRequest(r, ring) = ring
    BY <2>1 DEF Outcome, AfterRequest
  <2> QED
    BY <1>1, <2>2, <2>3 DEF r
<1>4. CASE AddIdentity
  <2>1. r.op = "add"
    BY <1>2, <1>4 DEF AddIdentity, Requested
  <2>2. ReadsPair(Tail(frame)) <=> WellFormed(r)
    BY <1>2, <2>1, AddRequestText
  <2>3. CASE ~WellFormed(r)
    <3>1. ring' = ring /\ Reply(Failure, TRUE)
      BY <1>4, <2>2, <2>3 DEF AddIdentity
    <3>2. Outcome(r, ring, TRUE) = Failure /\ AfterRequest(r, ring) = ring
      BY <2>1, <2>3 DEF Outcome, AfterRequest
    <3> QED
      BY <1>1, <3>1, <3>2 DEF r
  <2>4. CASE WellFormed(r)
    <3>1. ring' = AfterRequest(r, ring)
      BY <1>2, <1>4, <2>1, <2>2, <2>4, AddedPair DEF AddIdentity
    <3>2. Reply(<< 6 >>, TRUE) \/ Reply(Failure, FALSE)
      BY <1>4, <2>2, <2>4 DEF AddIdentity
    <3>3. Outcome(r, ring, TRUE) = << 6 >> /\ Outcome(r, ring, FALSE) = Failure
      BY <2>1, <2>4 DEF Outcome
    <3> QED
      BY <1>1, <3>1, <3>2, <3>3 DEF r
  <2> QED
    BY <2>3, <2>4
<1>5. CASE SignRequest
  <2>1. r.op = "sign" /\ ring' = ring
    BY <1>2, <1>5 DEF SignRequest, Requested
  <2>2. Decode(FirstString(Tail(frame))) = r.key /\ r.key \in Key
    BY <1>2, <2>1, SignRequestText
  <2> DEFINE found == GetKey(r.key)
  <2>3. PICK yes \in BOOLEAN :
          \/ \E i \in found : yes /\ Reply(SignResponse(ring[i].key), yes)
          \/ ~(yes /\ found # {}) /\ Reply(Failure, yes)
    BY <1>5, <2>2 DEF SignRequest
  <2>4. /\ \A i \in found : ring[i].key = r.key
        /\ found # {} <=> r.key \in KeysOf(ring)
    BY <1>2 DEF GetKey, KeysOf
  <2> HIDE DEF found
  <2>5. Reply(IF yes /\ r.key \in KeysOf(ring) THEN SignResponse(r.key) ELSE Failure, yes)
    BY <2>3, <2>4
  <2>6. /\ Outcome(r, ring, yes) = IF yes /\ r.key \in KeysOf(ring) THEN SignResponse(r.key)
                                   ELSE Failure
        /\ AfterRequest(r, ring) = ring
    BY <2>1 DEF Outcome, AfterRequest
  <2>7. Reply(Outcome(r, ring, yes), yes)
    BY <2>5, <2>6
  <2> QED
    BY <1>1, <2>1, <2>6, <2>7 DEF r
<1>6. CASE UnknownRequest
  <2>1. r.op = "other"
    BY <1>2, <1>6 DEF UnknownRequest, Requested
  <2>2. ring' = ring /\ Reply(Failure, TRUE)
    BY <1>6 DEF UnknownRequest
  <2>3. Outcome(r, ring, TRUE) = Failure /\ AfterRequest(r, ring) = ring
    BY <2>1 DEF Outcome, AfterRequest
  <2> QED
    BY <1>1, <2>2, <2>3 DEF r
<1> QED
  BY <1>3, <1>4, <1>5, <1>6 DEF Handle

\* So every handler keeps the state consistent.
LEMMA HandlingIsSafe ==
  ASSUME Consistent, Handle
  PROVE  Consistent'
<1> DEFINE r == asked[caller]
<1>1. Goto("handle", "read") /\ ring' = AfterRequest(r, ring)
  BY HandlersReply
<1>2. PICK ok \in BOOLEAN : Reply(Outcome(r, ring, ok), ok)
  BY HandlersReply
<1>3. r \in Request /\ ring \in Seq(KeyPair) /\ DistinctKeys(ring)
  BY <1>1, HandledRequest DEF Goto
<1> HIDE DEF r
<1>4. /\ ring' \in Seq(KeyPair) /\ DistinctKeys(ring')
      /\ r.op = "add" => KeysOf(ring') =
                           IF WellFormed(r) THEN KeysOf(ring) \cup {r.key} ELSE KeysOf(ring)
  BY <1>1, <1>3, AfterIsSafe
<1> DEFINE h == [before |-> ring, after |-> ring', ok |-> ok]
<1>5. h \in History /\ h.before = ring /\ h.after = ring' /\ h.ok = ok
  BY <1>3, <1>4 DEF History
<1>6. Handled(r, h) /\ Outcome(r, ring, ok) = Expected(r, h)
  <2> HIDE DEF h
  <2> QED
    BY <1>4, <1>5 DEF Handled, Expected
<1> QED
  BY <1>1, <1>2, <1>4, <1>6, ReplyIsSafe DEF r

\* The client gets its answer, or its request back.
LEMMA CopyingIsSafe ==
  ASSUME Consistent, CopyBack
  PROVE  Consistent'
<1> USE DEF Consistent
<1> DEFINE r == asked[caller]
           h == seen[caller]
           a == Expected(r, h)
           w == WriteString(a)
           m == mapping[caller]
           copy == [i \in 1..Region |-> IF i <= Len(w) THEN w[i] ELSE m[i]]
<1>1. /\ place = "copy" /\ place' = "loop"
      /\ client' = [client EXCEPT ![caller] = "answered"]
      /\ caller' = None /\ pos' = 0 /\ frame' = << >> /\ resp' = << >>
      /\ UNCHANGED <<ring, lock, poisoned, others, up, asked, seen>>
  BY DEF CopyBack, Goto, NoLocals, agentVars
<1>2. /\ caller \in Client /\ client[caller] = "waiting" /\ r \in Request /\ m \in [1..Region -> Nat]
      /\ Intact(r, m)
  BY <1>1 DEF TypeOK, CallerConsistent, MessagesConsistent, Intact
<1>3. Handled(r, h) /\ h \in History /\ resp = w
  BY <1>1, <1>2 DEF TypeOK, CursorConsistent, Replied, Handled
<1>4. a \in Text
  <2> HIDE DEF r, h
  <2> QED
    BY <1>2, <1>3, ExpectedText
<1>5. Len(a) \in Nat /\ Len(w) = Len(a) + 1
  <2> HIDE DEF a
  <2> QED
    BY <1>4, WrittenString DEF Text
<1>6. mapping' = IF Fits(a) THEN [mapping EXCEPT ![caller] = copy] ELSE mapping
  <2>1. Fits(a) <=> ~(Len(w) > Region)
    <3> HIDE DEF a, w
    <3> QED
      BY <1>5 DEF Fits
  <2>2. mapping' = IF Len(resp) > Region THEN mapping
                   ELSE [mapping EXCEPT ![caller] =
                           [i \in 1..Region |-> IF i <= Len(resp) THEN resp[i] ELSE @[i]]]
    BY DEF CopyBack
  <2> HIDE DEF w, a
  <2> QED
    BY <1>2, <1>3, <2>1, <2>2 DEF TypeOK
<1>7. Fits(a) => copy \in [1..Region -> Nat] /\ FirstString(copy) = a
  <2> HIDE DEF a, m
  <2> QED
    BY <1>2, <1>4, CopiedMapping DEF Fits
<1> HIDE DEF copy, w, a, m
<1>8. TypeOK'
  <2>1. << >> \in Text
    BY DEF Text
  <2>2. mapping' \in [Client -> [1..Region -> Nat]]
    BY <1>6, <1>7 DEF TypeOK
  <2>3. client' \in [Client -> {"idle", "waiting", "answered", "failed"}]
    BY <1>1 DEF TypeOK
  <2>4. frame' \in Text /\ resp' \in Text /\ pos' \in 0..Region
    BY <1>1, <2>1
  <2>5. place' = "loop" /\ caller' = None
    BY <1>1
  <2>6. UNCHANGED <<ring, lock, poisoned, others, up, asked, seen>>
    BY <1>1
  <2> QED
    BY <2>2, <2>3, <2>4, <2>5, <2>6 DEF TypeOK
<1>9. MutexConsistent' /\ CallerConsistent'
  BY <1>1 DEF TypeOK, MutexConsistent, CallerConsistent
<1>10. CursorConsistent'
  BY <1>1 DEF CursorConsistent, Unread
<1>11. \A c \in Client \ {caller} : client'[c] = client[c] /\ mapping'[c] = mapping[c]
  BY <1>1, <1>6 DEF TypeOK
<1>12. client'[caller] = "answered"
  BY <1>1, <1>2 DEF TypeOK
<1>13. MessagesConsistent'
  BY <1>1, <1>11, <1>12 DEF MessagesConsistent
<1>14. IF Fits(a) THEN FirstString(mapping'[caller]) = a ELSE Intact(r, mapping'[caller])
  BY <1>2, <1>6, <1>7 DEF TypeOK, m
<1>15. AnswersConsistent'
  <2> SUFFICES ASSUME NEW c \in Client, client'[c] = "answered"
               PROVE  /\ asked[c] # None
                      /\ Handled(asked[c], seen[c])
                      /\ IF Fits(Expected(asked[c], seen[c]))
                         THEN FirstString(mapping'[c]) = Expected(asked[c], seen[c])
                         ELSE Intact(asked[c], mapping'[c])
    BY <1>1 DEF AnswersConsistent, Answer
  <2>1. CASE c = caller
    BY <1>2, <1>3, <1>14, <2>1 DEF a, Intact
  <2>2. CASE c # caller
    BY <1>11, <2>2 DEF AnswersConsistent, Answer
  <2> QED
    BY <2>1, <2>2
<1> QED
  BY <1>8, <1>9, <1>10, <1>13, <1>15

\* A handler that panics leaves the keys as they were, or has added the one that
\* was sent.
LEMMA PanicAddsAsAsked ==
  ASSUME Consistent, PanicsUnlocked \/ PanicsLocked \/ MappingFaults
  PROVE  \/ ring' = ring
         \/ /\ caller \in Client /\ client[caller] = "waiting" /\ asked[caller] \in Request
            /\ ring' = AfterRequest(asked[caller], ring)
<1>1. CASE /\ place = "handle" /\ frame[1] = 17 /\ ReadsPair(Tail(frame))
           /\ ring' = PushNew(ring, FromWire(Tail(frame)))
  <2>1. /\ caller \in Client /\ client[caller] = "waiting" /\ asked[caller] \in Request
        /\ frame = RequestText(asked[caller]) /\ asked[caller].op = "add"
    BY <1>1, HandledRequest
  <2>2. WellFormed(asked[caller])
    BY <1>1, <2>1, AddRequestText
  <2> QED
    BY <1>1, <2>1, <2>2, AddedPair
<1> QED
  BY <1>1 DEF PanicsUnlocked, PanicsLocked, MappingFaults

\* A panic releases the senders it concerns, and takes the mutex with it.
LEMMA PanickingIsSafe ==
  ASSUME Consistent, PanicsUnlocked \/ PanicsLocked \/ MappingFaults
  PROVE  Consistent'
<1> USE DEF Consistent
<1>1. /\ place' \in {"loop", "dead"} /\ up' \in BOOLEAN
      /\ caller' = None /\ pos' = 0 /\ frame' = << >> /\ resp' = << >>
      /\ UNCHANGED <<others, asked, mapping, seen>>
  BY DEF PanicsUnlocked, PanicsLocked, MappingFaults, PanicOut, NoLocals, TypeOK
<1>2. /\ client' \in [Client -> {"idle", "waiting", "answered", "failed"}]
      /\ \A c \in Client : client'[c] = client[c] \/ client'[c] = "failed"
  <2>1. client' = IF place' = "dead"
                  THEN [c \in Client |-> IF client[c] = "waiting" THEN "failed" ELSE client[c]]
                  ELSE [client EXCEPT ![caller] = "failed"]
    BY DEF PanicsUnlocked, PanicsLocked, MappingFaults, PanicOut
  <2> QED
    BY <2>1 DEF TypeOK
<1>3. \/ place \notin {"collect", "handle"} /\ UNCHANGED <<lock, poisoned>>
      \/ lock' = None /\ poisoned' = TRUE
  BY DEF PanicsUnlocked, PanicsLocked, MappingFaults
<1>r. ring' \in Seq(KeyPair) /\ DistinctKeys(ring')
  BY PanicAddsAsAsked, AfterIsSafe DEF TypeOK
<1>4. TypeOK'
  <2>1. << >> \in Text
    BY DEF Text
  <2>2. frame' \in Text /\ resp' \in Text /\ pos' \in 0..Region
    BY <1>1, <2>1
  <2>3. lock' \in {Listener, Other, None} /\ poisoned' \in BOOLEAN
    BY <1>3 DEF TypeOK
  <2>4. place' \in {"loop", "dead"} /\ up' \in BOOLEAN /\ caller' = None
    BY <1>1
  <2>5. UNCHANGED <<others, asked, mapping, seen>>
    BY <1>1
  <2> QED
    BY <1>r, <1>2, <2>2, <2>3, <2>4, <2>5 DEF TypeOK
<1>5. MutexConsistent' /\ CallerConsistent'
  BY <1>1, <1>3 DEF MutexConsistent, CallerConsistent
<1>6. CursorConsistent'
  BY <1>1 DEF CursorConsistent, Unread
<1>7. MessagesConsistent' /\ AnswersConsistent'
  BY <1>1, <1>2 DEF MessagesConsistent, AnswersConsistent, Answer
<1> QED
  BY <1>4, <1>5, <1>6, <1>7

-----------------------------------------------------------------------------
\* wnd_proc, connection_handler and the mappings of the clients always agree:
\* the mutex is held where a guard lives, the request that is handled is the
\* one that was sent, and the response is the one to that request.
THEOREM ChannelIsConsistent == Spec => []Consistent
<1>1. Consistent /\ [Next]_vars => Consistent'
  <2> SUFFICES ASSUME Consistent, [Next]_vars
               PROVE  Consistent'
    OBVIOUS
  <2>1. CASE \E c \in Client, r \in Request : SendCopyData(c, r)
    BY <2>1, SendingIsSafe
  <2>2. CASE CreateWindow \/ CreateFails \/ ExitProcess \/ (\E c \in Client : TakeMessage(c))
             \/ FindOwner \/ LockForRequester \/ CollectRequester \/ LockForRequest
             \/ OtherLocks \/ OtherUnlocks
    BY <2>2, QuietStepsAreSafe
  <2>3. CASE EndOfRequests \/ ReadRequest
    BY <2>3, ReadingIsSafe
  <2>4. CASE Handle
    BY <2>4, HandlingIsSafe
  <2>5. CASE CopyBack
    BY <2>5, CopyingIsSafe
  <2>6. CASE PanicsUnlocked \/ PanicsLocked \/ MappingFaults
    BY <2>6, PanickingIsSafe
  <2>7. CASE UNCHANGED vars
    <3>1. UNCHANGED clientVars /\ UNCHANGED <<place, caller, pos, frame, resp>>
          /\ UNCHANGED <<ring, lock, poisoned, others, up>>
      BY <2>7 DEF vars, clientVars
    <3>2. TypeOK'
      BY <3>1 DEF Consistent, TypeOK, clientVars
    <3>3. MutexConsistent' /\ CallerConsistent'
      BY <3>1 DEF Consistent, MutexConsistent, CallerConsistent, clientVars
    <3>4. CursorConsistent'
      BY <3>1 DEF Consistent, CursorConsistent, Unread, Read, Replied, clientVars
    <3> QED
      BY <3>1, <3>2, <3>3, <3>4, ClientsUntouched DEF Consistent
  <2> QED
    BY <2>1, <2>2, <2>3, <2>4, <2>5, <2>6, <2>7 DEF Next, WindowThread, Finished
<1> QED
  BY InitIsConsistent, <1>1, PTL DEF Spec

\* What AnswersConsistent says of a client that has its answer.
LEMMA WhatClientsHave ==
  ASSUME Consistent, NEW c \in Client, client[c] = "answered"
  PROVE  /\ asked[c] \in Request /\ seen[c] \in History
         /\ Handled(asked[c], seen[c])
         /\ IF Fits(Expected(asked[c], seen[c])) THEN Answer(c) = Expected(asked[c], seen[c])
            ELSE Intact(asked[c], mapping[c])
  BY DEF Consistent, TypeOK, AnswersConsistent, Handled


\* A request leaves room for an answer of one cell.
LEMMA ShortAnswersFit ==
  ASSUME NEW c \in Client, Consistent, client[c] = "answered",
         Expected(asked[c], seen[c]) \in {<< 6 >>, Failure}
  PROVE  Answer(c) = Expected(asked[c], seen[c])
<1>1. ~Fits(Expected(asked[c], seen[c])) => Len(RequestText(asked[c])) < Region
  BY WhatClientsHave DEF Intact
<1>2. asked[c] \in Request
  BY WhatClientsHave
<1>3. Len(RequestText(asked[c])) \in Nat \ {0}
  BY <1>2, AnyRequestText
<1>4. Len(Expected(asked[c], seen[c])) = 1
  BY DEF Failure
<1>5. Fits(Expected(asked[c], seen[c]))
  BY <1>1, <1>3, <1>4 DEF Fits
<1> QED
  BY <1>5, WhatClientsHave

\* connection_handler, get_key and sign: a client that asked for a signature
\* takes a signature by the key it named from its mapping, or a FAILURE.
THEOREM PageantSignsAsAsked == Spec => []SignedAsAsked
<1>1. Consistent => SignedAsAsked
  <2> SUFFICES ASSUME Consistent, NEW c \in Client, Answered(c, "sign"),
                      Fits(SignResponse(asked[c].key))
               PROVE  Answer(c) = IF seen[c].ok /\ asked[c].key \in KeysOf(seen[c].before)
                                  THEN SignResponse(asked[c].key) ELSE Failure
    BY DEF SignedAsAsked
  <2>1. client[c] = "answered" /\ asked[c].op = "sign"
    BY DEF Answered
  <2>2. Expected(asked[c], seen[c]) = IF seen[c].ok /\ asked[c].key \in KeysOf(seen[c].before)
                                      THEN SignResponse(asked[c].key) ELSE Failure
    BY <2>1 DEF Expected, Outcome
  <2>3. CASE Expected(asked[c], seen[c]) = Failure
    BY <2>1, <2>2, <2>3, ShortAnswersFit
  <2>4. CASE Expected(asked[c], seen[c]) = SignResponse(asked[c].key)
    BY <2>1, <2>2, <2>4, WhatClientsHave
  <2> QED
    BY <2>2, <2>3, <2>4
<1> QED
  BY ChannelIsConsistent, <1>1, PTL

\* KeyPair::from_wire, add_key and read_mpint: of an addition that can be read the
\* key is added as it was sent, whatever its numbers, and no other is added or
\* lost; one that cannot be read is refused and changes nothing.
THEOREM PageantAddsAsSent == Spec => []AddedAsSent
<1>1. Consistent => AddedAsSent
  <2> SUFFICES ASSUME Consistent, NEW c \in Client, Answered(c, "add")
               PROVE  /\ KeysOf(seen[c].after) =
                           IF WellFormed(asked[c]) THEN KeysOf(seen[c].before) \cup {asked[c].key}
                           ELSE KeysOf(seen[c].before)
                      /\ Answer(c) = IF WellFormed(asked[c]) /\ seen[c].ok THEN << 6 >> ELSE Failure
    BY DEF AddedAsSent
  <2>1. client[c] = "answered" /\ asked[c].op = "add"
    BY DEF Answered
  <2>2. KeysOf(seen[c].after) = IF WellFormed(asked[c]) THEN KeysOf(seen[c].before) \cup {asked[c].key}
                                ELSE KeysOf(seen[c].before)
    BY <2>1, WhatClientsHave DEF Handled
  <2>3. Expected(asked[c], seen[c]) = IF WellFormed(asked[c]) /\ seen[c].ok THEN << 6 >> ELSE Failure
    BY <2>1 DEF Expected, Outcome
  <2> QED
    BY <2>1, <2>2, <2>3, ShortAnswersFit
<1> QED
  BY ChannelIsConsistent, <1>1, PTL

\* wnd_proc: where a response is too long for the mapping, the client does not
\* take its own request for a response.
THEOREM NoHalfAnswers == Spec => []TooLongIsNoAnswer
<1>1. Consistent => TooLongIsNoAnswer
  BY WhatClientsHave, IntactIsNoAnswer DEF TooLongIsNoAnswer
<1> QED
  BY ChannelIsConsistent, <1>1, PTL

\* handle_request_internal, encode and write_mpint: where a listing fits, the
\* client finds in it every key the agent has, with its numbers and its name.
THEOREM PageantListsKeys == Spec => []ListingIsReadable
<1>1. Consistent => ListingIsReadable
  <2> SUFFICES ASSUME Consistent, NEW c \in Client, Answered(c, "list"),
                      Fits(Listing(seen[c].before))
               PROVE  Lists(Answer(c), seen[c].before)
    BY DEF ListingIsReadable
  <2>1. client[c] = "answered" /\ asked[c].op = "list"
    BY DEF Answered
  <2>2. Expected(asked[c], seen[c]) = Listing(seen[c].before)
    BY <2>1 DEF Expected, Outcome
  <2>3. Answer(c) = Listing(seen[c].before) /\ seen[c] \in History
    BY <2>1, <2>2, WhatClientsHave
  <2>4. seen[c].before \in Seq(KeyPair)
    BY <2>3 DEF History
  <2> QED
    BY <2>3, <2>4, ListingLists
<1> QED
  BY ChannelIsConsistent, <1>1, PTL

-----------------------------------------------------------------------------
(***************************************************************************)
(* The refinement: every step is one of AtomicServer, or none.             *)
(***************************************************************************)

\* In the beginning nobody has asked for anything.
LEMMA InitIsAtomic == Init => Atomic!Init
<1> SUFFICES ASSUME Init
             PROVE  Atomic!Init
  OBVIOUS
<1>1. \A c \in Client : PhaseOf(c) = "idle" /\ OutcomeOf(c) = << >>
  BY DEF Init, PhaseOf, OutcomeOf
<1> QED
  BY <1>1 DEF Init, Atomic!Init, phases, outcomes

\* Clients see nothing of a step that leaves them alone, and the response too
\* unless there is none.
LEMMA UnseenByClients ==
  ASSUME UNCHANGED <<client, mapping>>, UNCHANGED caller \/ resp = << >>, UNCHANGED resp
  PROVE  UNCHANGED <<phases, outcomes>>
<1>1. \A c \in Client : UNCHANGED <<PhaseOf(c), OutcomeOf(c)>>
  BY DEF PhaseOf, OutcomeOf, Answer
<1> QED
  BY <1>1 DEF phases, outcomes

\* The lookup of the client, the loop of connection_handler and the mutex are
\* unseen; the others change the keys while they have the mutex.
LEMMA QuietStepsAreUnseen ==
  ASSUME Consistent,
         CreateWindow \/ CreateFails \/ ExitProcess \/ (\E c \in Client : TakeMessage(c))
         \/ FindOwner \/ LockForRequester \/ CollectRequester \/ LockForRequest
         \/ OtherLocks \/ OtherUnlocks \/ EndOfRequests \/ ReadRequest \/ UNCHANGED vars
  PROVE  Atomic!Interfere \/ UNCHANGED Atomic!vars
<1>1. UNCHANGED <<client, asked, mapping, resp>>
  BY DEF CreateWindow, CreateFails, ExitProcess, TakeMessage, FindOwner, LockForRequester,
         CollectRequester, LockForRequest, Lock, OtherLocks, OtherUnlocks, EndOfRequests,
         ReadRequest, clientVars, threadVars, vars
<1>2. UNCHANGED caller \/ resp = << >>
  <2>1. CASE \E c \in Client : TakeMessage(c)
    BY <2>1 DEF Consistent, CursorConsistent, Unread, TakeMessage, Goto
  <2>2. CASE ~\E c \in Client : TakeMessage(c)
    BY <2>2 DEF CreateWindow, CreateFails, ExitProcess, FindOwner, LockForRequester,
         CollectRequester, LockForRequest, Lock, OtherLocks, OtherUnlocks, EndOfRequests,
         ReadRequest, threadVars, vars
  <2> QED
    BY <2>1, <2>2
<1>3. ring' \in Rings \/ UNCHANGED ring
  BY DEF CreateWindow, CreateFails, ExitProcess, TakeMessage, FindOwner, LockForRequester,
         CollectRequester, LockForRequest, Lock, OtherLocks, OtherUnlocks, EndOfRequests,
         ReadRequest, agentVars, vars
<1>4. UNCHANGED <<phases, outcomes>>
  BY <1>1, <1>2, UnseenByClients
<1> QED
  BY <1>1, <1>3, <1>4 DEF Atomic!Interfere, Atomic!vars, phases, outcomes

\* A client that sends its request asks.
LEMMA SendingAsks ==
  ASSUME Consistent, NEW c \in Client, NEW r \in Request, SendCopyData(c, r)
  PROVE  Atomic!Ask(c, r)
<1> USE DEF Consistent
<1>1. /\ client[c] = "idle" /\ client' = [client EXCEPT ![c] = "waiting"]
      /\ asked' = [asked EXCEPT ![c] = r]
      /\ UNCHANGED <<ring, caller, resp>>
      /\ \A d \in Client \ {c} : mapping'[d] = mapping[d] /\ client'[d] = client[d]
  BY DEF SendCopyData, threadVars, agentVars, TypeOK
<1>2. caller # c
  BY <1>1 DEF CallerConsistent
<1>3. PhaseOf(c) = "idle" /\ PhaseOf(c)' = "waiting" /\ UNCHANGED OutcomeOf(c)
  BY <1>1, <1>2 DEF PhaseOf, OutcomeOf, TypeOK
<1>4. \A d \in Client \ {c} : UNCHANGED <<PhaseOf(d), OutcomeOf(d)>>
  BY <1>1 DEF PhaseOf, OutcomeOf, Answer
<1>5. phases[c] = "idle" /\ phases' = [phases EXCEPT ![c] = "waiting"] /\ UNCHANGED outcomes
  BY <1>3, <1>4 DEF phases, outcomes
<1> QED
  BY <1>1, <1>5 DEF Atomic!Ask, phases, outcomes

\* handle_request serves the client whose message it is: this is the one step at
\* which its request takes effect.
LEMMA HandlingServes ==
  ASSUME Consistent, Handle
  PROVE  caller \in Client /\ Atomic!Serve(caller)
<1> DEFINE r == asked[caller]
<1>1. Goto("handle", "read") /\ ring' = AfterRequest(r, ring)
  BY HandlersReply
<1>2. PICK ok \in BOOLEAN : Reply(Outcome(r, ring, ok), ok)
  BY HandlersReply
<1> DEFINE a == Outcome(r, ring, ok)
           w == WriteString(a)
<1>3. caller \in Client /\ client[caller] = "waiting" /\ r \in Request /\ ring \in Seq(KeyPair)
  BY <1>1, HandledRequest DEF Goto
<1>4. /\ resp = << >> /\ resp' = resp \o w
      /\ UNCHANGED <<caller, client, asked, mapping>>
  BY <1>1, <1>2 DEF Consistent, CursorConsistent, Goto, Reply
<1>5. a \in Text
  <2> HIDE DEF r
  <2> QED
    BY <1>3, OutcomeText DEF IsAnswer
<1> HIDE DEF a
<1>6. w \in Seq(Nat) /\ Len(w) = Len(a) + 1 /\ Len(a) \in Nat /\ FirstString(w) = a
  BY <1>5, WrittenString, LoneString DEF Text
<1> HIDE DEF w
<1>7. resp' = w /\ resp' # << >>
  BY <1>4, <1>6
<1>8. PhaseOf(caller) = "waiting" /\ PhaseOf(caller)' = "served" /\ OutcomeOf(caller)' = a
  BY <1>3, <1>4, <1>6, <1>7 DEF PhaseOf, OutcomeOf
<1>9. \A c \in Client \ {caller} : UNCHANGED <<PhaseOf(c), OutcomeOf(c)>>
  BY <1>4 DEF Consistent, TypeOK, PhaseOf, OutcomeOf, Answer
<1>10. /\ phases[caller] = "waiting" /\ phases' = [phases EXCEPT ![caller] = "served"]
       /\ outcomes' = [outcomes EXCEPT ![caller] = a]
  BY <1>3, <1>4, <1>8, <1>9 DEF phases, outcomes
<1> QED
  BY <1>1, <1>3, <1>4, <1>10 DEF Atomic!Serve, phases, outcomes, a

\* The copy delivers the outcome where it fits, and nothing that looks like one
\* where it does not.
LEMMA CopyingDelivers ==
  ASSUME Consistent, CopyBack
  PROVE  caller \in Client /\ Atomic!Deliver(caller)
<1> USE DEF Consistent
<1> DEFINE a == Expected(asked[caller], seen[caller])
           w == WriteString(a)
           m == mapping[caller]
           copy == [i \in 1..Region |-> IF i <= Len(w) THEN w[i] ELSE m[i]]
<1>1. /\ caller \in Client /\ client[caller] = "waiting" /\ asked[caller] \in Request
      /\ m \in [1..Region -> Nat] /\ Intact(asked[caller], m)
      /\ seen[caller] \in History /\ resp = w
      /\ place = "copy"
  BY DEF CopyBack, Goto, TypeOK, CallerConsistent, MessagesConsistent, Intact, CursorConsistent,
         Replied, Handled
<1>2. /\ caller' = None /\ client' = [client EXCEPT ![caller] = "answered"]
      /\ UNCHANGED <<ring, asked>>
      /\ mapping' = IF Len(resp) > Region THEN mapping
                    ELSE [mapping EXCEPT ![caller] =
                            [i \in 1..Region |-> IF i <= Len(resp) THEN resp[i] ELSE @[i]]]
  BY DEF CopyBack, NoLocals, agentVars
<1>3. IsAnswer(a)
  <2>1. seen[caller].before \in Seq(KeyPair) /\ seen[caller].ok \in BOOLEAN
    BY <1>1 DEF History
  <2> QED
    BY <1>1, <2>1, OutcomeText DEF Expected
<1> HIDE DEF a
<1>4. w \in Seq(Nat) /\ Len(w) = Len(a) + 1 /\ Len(a) \in Nat \ {0} /\ FirstString(w) = a
  BY <1>3, WrittenString, LoneString DEF Text, IsAnswer
<1>5. Fits(a) => FirstString(copy) = a /\ copy[2] = a[1]
  <2> HIDE DEF m
  <2>1. a \in Text /\ Len(a) > 0 /\ m \in [1..Region -> Nat]
    BY <1>1, <1>3 DEF IsAnswer
  <2> QED
    BY <2>1, CopiedMapping DEF Fits
<1>6. mapping' = IF Fits(a) THEN [mapping EXCEPT ![caller] = copy] ELSE mapping
  <2>1. Fits(a) <=> ~(Len(w) > Region)
    <3> HIDE DEF w
    <3> QED
      BY <1>4 DEF Fits
  <2> HIDE DEF w
  <2> QED
    BY <1>1, <1>2, <2>1 DEF TypeOK
<1> HIDE DEF copy, w
<1>7. \A d \in Client \ {caller} : mapping'[d] = mapping[d] /\ client'[d] = client[d]
  BY <1>2, <1>6 DEF TypeOK
<1>8. PhaseOf(caller) = "served" /\ OutcomeOf(caller) = a
  BY <1>1, <1>4 DEF PhaseOf, OutcomeOf
<1>9. PICK c \in Client : c = caller
  BY <1>1
<1>10. PhaseOf(c)' = "answered" /\ OutcomeOf(c)' = IF Fits(a) THEN a ELSE << >>
  <2>1. client'[c] = "answered" /\ caller' # c
    BY <1>1, <1>2, <1>9 DEF TypeOK
  <2>2. PhaseOf(c)' = "answered"
    BY <2>1 DEF PhaseOf
  <2>3. CASE Fits(a)
    <3>1. mapping'[c] = copy
      BY <1>1, <1>6, <1>9, <2>3 DEF TypeOK
    <3>2. mapping'[c][2] \in AnswerTypes /\ FirstString(mapping'[c]) = a
      BY <1>3, <1>5, <2>3, <3>1 DEF IsAnswer
    <3> QED
      BY <2>2, <2>3, <3>2 DEF OutcomeOf, Answer
  <2>4. CASE ~Fits(a)
    <3>1. m[2] \notin AnswerTypes
      <4> HIDE DEF m
      <4> QED
        BY <1>1, IntactIsNoAnswer
    <3>2. mapping'[c][2] \notin AnswerTypes
      BY <1>6, <1>9, <2>4, <3>1
    <3> QED
      BY <2>2, <2>4, <3>2 DEF OutcomeOf
  <2> QED
    BY <2>3, <2>4, <2>2
<1>11. \A d \in Client \ {caller} : UNCHANGED <<PhaseOf(d), OutcomeOf(d)>>
  BY <1>1, <1>2, <1>7 DEF TypeOK, PhaseOf, OutcomeOf, Answer
<1>12. /\ phases[caller] = "served" /\ phases' = [phases EXCEPT ![caller] = "answered"]
       /\ outcomes[caller] = a
       /\ outcomes' = IF Fits(a) THEN outcomes ELSE [outcomes EXCEPT ![caller] = << >>]
  BY <1>8, <1>9, <1>10, <1>11 DEF phases, outcomes
<1> QED
  BY <1>1, <1>2, <1>12 DEF Atomic!Deliver, phases, outcomes

\* A panic, or a fault, comes before there is a response.  It fails those who wait, all of
\* them if the thread is gone, and may leave the key one of them has sent.
LEMMA PanicsFail ==
  ASSUME Consistent, PanicsUnlocked \/ PanicsLocked \/ MappingFaults
  PROVE  \E clients \in SUBSET Client : Atomic!Fail(clients)
<1> USE DEF Consistent
<1> DEFINE released == {c \in Client : client[c] = "waiting" /\ client'[c] = "failed"}
<1>1. /\ \/ place \in {"identify", "lock", "await", "collect", "handle"}
         \/ place = "read" /\ pos = 0
      /\ caller' = None /\ resp' = << >> /\ UNCHANGED <<asked, mapping>>
      /\ client' = IF place' = "dead"
                   THEN [c \in Client |-> IF client[c] = "waiting" THEN "failed" ELSE client[c]]
                   ELSE [client EXCEPT ![caller] = "failed"]
  BY DEF PanicsUnlocked, PanicsLocked, MappingFaults, PanicOut, NoLocals
<1>2. resp = << >> /\ caller \in Client /\ client[caller] = "waiting"
  <2>1. caller \in Client /\ client[caller] = "waiting" /\ asked[caller] \in Request
    BY <1>1 DEF CallerConsistent, TypeOK, MessagesConsistent, Intact
  <2>2. pos = 0 => ~Read
    BY <2>1, AnyRequestText DEF Read
  <2> QED
    BY <1>1, <2>1, <2>2 DEF CursorConsistent, Unread
<1>3. caller \in released
  BY <1>1, <1>2 DEF TypeOK
<1>4. \A c \in Client : client'[c] = IF c \in released THEN "failed" ELSE client[c]
  BY <1>1, <1>2 DEF TypeOK
<1>5. ring' = ring \/ ring' = AfterRequest(asked[caller], ring)
  BY PanicAddsAsAsked
<1>6. \A c \in Client : c \in released => client[c] = "waiting"
  OBVIOUS
<1>7. released \in SUBSET Client
  OBVIOUS
<1> HIDE DEF released
<1>8. \A c \in Client : PhaseOf(c) = client[c] /\ PhaseOf(c)' = client'[c]
  BY <1>1, <1>2 DEF PhaseOf
<1>9. \A c \in Client : UNCHANGED OutcomeOf(c)
  <2> SUFFICES ASSUME NEW c \in Client
               PROVE  UNCHANGED OutcomeOf(c)
    OBVIOUS
  <2>1. client[c] \in {"idle", "waiting", "answered", "failed"}
    BY DEF TypeOK
  <2>2. client'[c] = "answered" <=> client[c] = "answered"
    BY <1>4, <1>6
  <2>3. client[c] # "served" /\ client'[c] # "served"
    BY <1>4, <2>1
  <2> QED
    BY <1>1, <1>8, <2>2, <2>3 DEF OutcomeOf, Answer
<1>10. /\ \A c \in released : phases[c] = "waiting"
       /\ phases' = [c \in Client |-> IF c \in released THEN "failed" ELSE phases[c]]
       /\ UNCHANGED outcomes
  BY <1>4, <1>6, <1>7, <1>8, <1>9 DEF phases, outcomes
<1>11. Atomic!Fail(released)
  BY <1>1, <1>3, <1>5, <1>10 DEF Atomic!Fail, phases, outcomes
<1> QED
  BY <1>7, <1>11

\* listen_pageant and connection_handler, however they go round: the request of
\* a PuTTY client takes effect at once and at most once, and what the client
\* finds in its mapping is the outcome of that step.
THEOREM PageantIsAtomic == Spec => RequestsAreAtomic
<1>1. Consistent /\ [Next]_vars => [Atomic!Next]_(Atomic!vars)
  <2> SUFFICES ASSUME Consistent, [Next]_vars
               PROVE  [Atomic!Next]_(Atomic!vars)
    OBVIOUS
  <2>1. CASE \E c \in Client, r \in Request : SendCopyData(c, r)
    BY <2>1, SendingAsks DEF Atomic!Next
  <2>2. CASE CreateWindow \/ CreateFails \/ ExitProcess \/ (\E c \in Client : TakeMessage(c))
             \/ FindOwner \/ LockForRequester \/ CollectRequester \/ LockForRequest
             \/ OtherLocks \/ OtherUnlocks \/ EndOfRequests \/ ReadRequest \/ UNCHANGED vars
    BY <2>2, QuietStepsAreUnseen DEF Atomic!Next
  <2>3. CASE Handle
    BY <2>3, HandlingServes DEF Atomic!Next
  <2>4. CASE CopyBack
    BY <2>4, CopyingDelivers DEF Atomic!Next
  <2>5. CASE PanicsUnlocked \/ PanicsLocked \/ MappingFaults
    BY <2>5, PanicsFail DEF Atomic!Next
  <2> QED
    BY <2>1, <2>2, <2>3, <2>4, <2>5 DEF Next, WindowThread, Finished
<1> QED
  BY InitIsAtomic, ChannelIsConsistent, <1>1, PTL DEF Spec, RequestsAreAtomic, Atomic!Spec

=============================================================================
