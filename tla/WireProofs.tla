------------------------------- MODULE WireProofs -------------------------------
(***************************************************************************)
(* Proofs about the wire format, for every base, text and key.             *)
(***************************************************************************)
EXTENDS Wire, SequenceTheorems, WellFoundedInduction, TLAPS

USE WireAssumption DEF WireAssumption

\* read_string gives back what write_string wrote, and leaves what follows it.
THEOREM StringRoundTrip ==
  ASSUME NEW T, NEW s \in Seq(T), NEW rest \in Seq(T), Nat \subseteq T
  PROVE  LET text == WriteString(s) \o rest
         IN HasString(text) /\ FirstString(text) = s /\ AfterString(text) = rest
<1> DEFINE text == WriteString(s) \o rest
<1>1. /\ text \in Seq(T) /\ Len(text) = 1 + Len(s) + Len(rest)
      /\ Len(s) \in Nat /\ Len(rest) \in Nat
      /\ text[1] = Len(s) /\ Head(text) = Len(s) /\ text # << >>
      /\ \A i \in 1..Len(s) : text[i + 1] = s[i]
      /\ \A i \in 1..Len(rest) : text[i + 1 + Len(s)] = rest[i]
  BY DEF WriteString
<1> HIDE DEF text
<1>2. HasString(text)
  BY <1>1 DEF HasString
<1>3. FirstString(text) = s
  BY <1>1 DEF FirstString
<1>4. AfterString(text) = rest
  <2> DEFINE after == AfterString(text)
  <2>1. after = [i \in 1..Len(rest) |-> text[i + 1 + Len(s)]]
    BY <1>1 DEF AfterString
  <2>2. rest = [i \in 1..Len(rest) |-> rest[i]]
    OBVIOUS
  <2>3. \A i \in 1..Len(rest) : text[i + 1 + Len(s)] = rest[i]
    BY <1>1
  <2> QED
    BY <2>1, <2>2, <2>3
<1> QED
  BY <1>2, <1>3, <1>4 DEF text

\* A number without leading zeros is taken as it is.
LEMMA PlainNumber ==
  ASSUME NEW d \in BigNum
  PROVE  FromSlice(d) = d
<1> DEFINE Zeros(k) == (\A i \in 1..k : d[i] = 0) /\ (k < Len(d) => d[k + 1] # 0)
           zeros == CHOOSE k \in 0..Len(d) : Zeros(k)
<1>1. d \in Seq(0..(Base - 1)) /\ Len(d) \in Nat /\ (Len(d) > 0 => d[1] # 0)
  BY DEF BigNum
<1>2. 0 \in 0..Len(d) /\ Zeros(0)
  BY <1>1
<1>3. zeros \in 0..Len(d) /\ Zeros(zeros)
  BY <1>2
<1>4. zeros = 0
  <2> HIDE DEF zeros
  <2> SUFFICES ASSUME zeros > 0 PROVE FALSE
    BY <1>1, <1>3
  <2>1. 1 \in 1..zeros /\ Len(d) > 0
    BY <1>1, <1>3
  <2> QED
    BY <1>1, <1>3, <2>1
<1>5. FromSlice(d) = SubSeq(d, zeros + 1, Len(d))
  BY DEF FromSlice
<1>6. SubSeq(d, 1, Len(d)) = [i \in 1..Len(d) |-> d[i]]
  BY <1>1
<1>7. d = [i \in 1..Len(d) |-> d[i]]
  BY <1>1
<1> HIDE DEF zeros
<1> QED
  BY <1>1, <1>4, <1>5, <1>6, <1>7

\* The zero write_mpint puts in front of a number is dropped again.
LEMMA PaddedNumber ==
  ASSUME NEW d \in BigNum, d # << >>
  PROVE  FromSlice(<< 0 >> \o d) = d
<1> DEFINE s == << 0 >> \o d
           Zeros(k) == (\A i \in 1..k : s[i] = 0) /\ (k < Len(s) => s[k + 1] # 0)
           zeros == CHOOSE k \in 0..Len(s) : Zeros(k)
<1>1. d \in Seq(Nat) /\ Len(d) \in Nat \ {0} /\ d[1] # 0
  BY DEF BigNum
<1>2. s \in Seq(Nat) /\ Len(s) = Len(d) + 1 /\ s[1] = 0
      /\ \A i \in 1..Len(d) : s[i + 1] = d[i]
  BY <1>1
<1> HIDE DEF s
<1>3. s[2] # 0
  <2>1. s[1 + 1] = d[1]
    BY <1>1, <1>2
  <2> QED
    BY <1>1, <2>1
<1>4. 1 \in 0..Len(s) /\ Zeros(1)
  BY <1>1, <1>2, <1>3
<1>5. zeros \in 0..Len(s) /\ Zeros(zeros)
  BY <1>4
<1>6. zeros = 1
  <2> HIDE DEF zeros
  <2>1. zeros # 0
    BY <1>1, <1>2, <1>5
  <2>2. ASSUME zeros > 1 PROVE FALSE
    <3>1. 2 \in 1..zeros
      BY <1>1, <1>2, <1>5, <2>2
    <3> QED
      BY <1>3, <1>5, <3>1
  <2> QED
    BY <1>1, <1>2, <1>5, <2>1, <2>2
<1>7. FromSlice(s) = SubSeq(s, zeros + 1, Len(s))
  BY DEF FromSlice
<1>8. FromSlice(s) = [i \in 1..Len(d) |-> s[i + 1]]
  <2> HIDE DEF zeros
  <2>1. FromSlice(s) = SubSeq(s, 2, Len(d) + 1)
    BY <1>1, <1>2, <1>6, <1>7
  <2>2. SubSeq(s, 2, Len(d) + 1) = [i \in 1..Len(d) |-> s[i + 1]]
    BY <1>1, <1>2
  <2> QED
    BY <2>1, <2>2
<1>9. d = [i \in 1..Len(d) |-> d[i]]
  BY <1>1
<1> QED
  BY <1>2, <1>8, <1>9 DEF s

\* from_slice undoes what write_mpint does to a number that is not zero, and
\* what it writes is never negative.
THEOREM NumberRoundTrip ==
  ASSUME NEW d \in BigNum, d # << >>
  PROVE  /\ Mpint(d) \in Seq(Nat)
         /\ FromSlice(Mpint(d)) = d
         /\ ~IsNegative(Mpint(d))
<1>1. d \in Seq(0..(Base - 1)) /\ d \in Seq(Nat) /\ d[1] \in Nat /\ d[1] # 0
  BY DEF BigNum
<1>2. CASE 2 * d[1] >= Base
  <2>1. Mpint(d) = << 0 >> \o d
    BY <1>2 DEF Mpint
  <2>2. (<< 0 >> \o d) \in Seq(Nat) /\ (<< 0 >> \o d)[1] = 0
    BY <1>1
  <2>3. ~IsNegative(<< 0 >> \o d)
    BY <2>2 DEF IsNegative
  <2> QED
    BY <2>1, <2>2, <2>3, PaddedNumber
<1>3. CASE ~(2 * d[1] >= Base)
  <2>1. Mpint(d) = d
    BY <1>3 DEF Mpint
  <2> QED
    BY <1>1, <1>3, <2>1, PlainNumber DEF IsNegative
<1> QED
  BY <1>2, <1>3

\* The three strings of an encoded key, in their order.
LEMMA EncodedKey ==
  ASSUME NEW key \in PublicKey, key.e # << >>, key.n # << >>
  PROVE  LET e == AfterString(Encode(key))
             n == AfterString(e)
         IN /\ HasString(Encode(key)) /\ FirstString(Encode(key)) = SshRsa
            /\ HasString(e) /\ FirstString(e) = Mpint(key.e)
            /\ HasString(n) /\ FirstString(n) = Mpint(key.n)
            /\ AfterString(n) = << >>
<1> DEFINE eText == WriteString(Mpint(key.e)) \o WriteString(Mpint(key.n))
           nText == WriteString(Mpint(key.n)) \o << >>
<1>1. key.e \in BigNum /\ key.n \in BigNum /\ key = [e |-> key.e, n |-> key.n]
  BY DEF PublicKey
<1>2. Mpint(key.e) \in Seq(Nat) /\ Mpint(key.n) \in Seq(Nat) /\ SshRsa \in Seq(Nat)
  BY <1>1, NumberRoundTrip DEF SshRsa
<1>3. \A s \in Seq(Nat) : WriteString(s) \in Seq(Nat)
  BY DEF WriteString
<1>4. nText = WriteString(Mpint(key.n)) /\ nText \in Seq(Nat) /\ eText \in Seq(Nat)
  BY <1>2, <1>3
<1>5. Encode(key) = WriteString(SshRsa) \o eText
  <2>1. WriteString(SshRsa) \in Seq(Nat) /\ WriteString(Mpint(key.e)) \in Seq(Nat)
        /\ WriteString(Mpint(key.n)) \in Seq(Nat)
    BY <1>2, <1>3
  <2> QED
    BY <2>1, ConcatAssociative DEF Encode
<1>6. eText = WriteString(Mpint(key.e)) \o nText
  BY <1>4
<1>7. HasString(Encode(key)) /\ FirstString(Encode(key)) = SshRsa /\ AfterString(Encode(key)) = eText
  <2> HIDE DEF eText
  <2> QED
    BY <1>2, <1>4, <1>5, StringRoundTrip
<1>8. HasString(eText) /\ FirstString(eText) = Mpint(key.e) /\ AfterString(eText) = nText
  <2> HIDE DEF eText, nText
  <2> QED
    BY <1>2, <1>4, <1>6, StringRoundTrip
<1>9. HasString(nText) /\ FirstString(nText) = Mpint(key.n) /\ AfterString(nText) = << >>
  BY <1>2, StringRoundTrip, << >> \in Seq(Nat)
<1> HIDE DEF eText, nText
<1> QED
  BY <1>7, <1>8, <1>9

\* A public key that a client is given in a listing is the one PublicKey::decode
\* finds when the client asks for a signature with it, whatever its numbers.
THEOREM KeyRoundTrip ==
  ASSUME NEW key \in PublicKey, key.e # << >>, key.n # << >>
  PROVE  Decodes(Encode(key)) /\ Decode(Encode(key)) = key
<1>1. key.e \in BigNum /\ key.n \in BigNum /\ key = [e |-> key.e, n |-> key.n]
  BY DEF PublicKey
<1>2. Decodes(Encode(key))
  BY EncodedKey DEF Decodes
<1>3. Decode(Encode(key)) = [e |-> FromSlice(Mpint(key.e)), n |-> FromSlice(Mpint(key.n))]
  BY EncodedKey DEF Decode
<1>4. FromSlice(Mpint(key.e)) = key.e /\ FromSlice(Mpint(key.n)) = key.n
  BY <1>1, NumberRoundTrip
<1> QED
  BY <1>1, <1>2, <1>3, <1>4

-----------------------------------------------------------------------------
(***************************************************************************)
(* What a client that follows RFC 4251 takes from a number and a key.      *)
(* Magnitude is a recursive function; facts about it are shown from a      *)
(* least position at which they would fail.                                *)
(***************************************************************************)

\* The order of the numbers, as a relation.
Less == OpToRel(<, Nat)

\* A set of numbers has a least element.
LEMMA Smallest ==
  ASSUME NEW S \in SUBSET Nat, S # {}
  PROVE  \E m \in S : \A k \in S : m <= k
<1>1. PICK m \in S : \A k \in S : <<k, m>> \notin Less
  BY NatLessThanWellFounded, WFMin DEF Less
<1>2. ASSUME NEW k \in S
      PROVE  m <= k
  <2>1. k \in Nat /\ m \in Nat
    OBVIOUS
  <2>2. k < m => <<k, m>> \in Less
    BY <2>1 DEF Less, OpToRel
  <2> QED
    BY <1>1, <2>1, <2>2
<1> QED
  BY <1>2

\* The recursive function in Magnitude exists.
LEMMA ValueExists ==
  ASSUME NEW s \in Seq(Nat), NEW n \in Nat
  PROVE  \E f : f = [i \in 0..n |-> IF i = 0 THEN 0 ELSE Base * f[i - 1] + s[i]]
<1> DEFINE Ok(m) == \E f : f = [i \in 0..m |-> IF i = 0 THEN 0 ELSE Base * f[i - 1] + s[i]]
           Bad == {k \in 0..n : ~Ok(k)}
<1> SUFFICES ASSUME ~Ok(n)
             PROVE  FALSE
  OBVIOUS
<1>1. PICK m \in Bad : \A k \in Bad : m <= k
  <2> HIDE DEF Ok
  <2>1. Bad \in SUBSET Nat /\ n \in Bad
    OBVIOUS
  <2> HIDE DEF Bad
  <2> QED
    BY <2>1, Smallest
<1>2. m # 0
  <2> DEFINE f == [i \in 0..0 |-> 0]
  <2>1. f = [i \in 0..0 |-> IF i = 0 THEN 0 ELSE Base * f[i - 1] + s[i]]
    OBVIOUS
  <2>2. Ok(0)
    BY <2>1
  <2> HIDE DEF Ok
  <2> QED
    BY <1>1, <2>2
<1>3. Ok(m - 1)
  <2> HIDE DEF Ok
  <2> QED
    BY <1>1, <1>2
<1>4. PICK f : f = [i \in 0..(m - 1) |-> IF i = 0 THEN 0 ELSE Base * f[i - 1] + s[i]]
  BY <1>3
<1> DEFINE g == [i \in 0..m |-> IF i = m THEN Base * f[m - 1] + s[m] ELSE f[i]]
<1>5. \A i \in 0..m : g[i] = IF i = 0 THEN 0 ELSE Base * g[i - 1] + s[i]
  <2> SUFFICES ASSUME NEW i \in 0..m
               PROVE  g[i] = IF i = 0 THEN 0 ELSE Base * g[i - 1] + s[i]
    OBVIOUS
  <2>1. CASE i = m
    <3>1. g[m] = Base * f[m - 1] + s[m] /\ g[m - 1] = f[m - 1]
      BY <1>1, <1>2
    <3> HIDE DEF g
    <3> QED
      BY <1>2, <2>1, <3>1
  <2>2. CASE i # m
    <3>1. i \in 0..(m - 1) /\ g[i] = f[i] /\ (i # 0 => g[i - 1] = f[i - 1])
      BY <1>1, <2>2
    <3>2. f[i] = IF i = 0 THEN 0 ELSE Base * f[i - 1] + s[i]
      BY <1>4, <3>1
    <3> HIDE DEF g
    <3> QED
      BY <3>1, <3>2
  <2> QED
    BY <2>1, <2>2
<1>6. g = [i \in 0..m |-> IF i = 0 THEN 0 ELSE Base * g[i - 1] + s[i]]
  <2>1. g = [i \in 0..m |-> g[i]]
    OBVIOUS
  <2> HIDE DEF g
  <2> QED
    BY <1>5, <2>1
<1>7. Ok(m)
  <2> HIDE DEF g
  <2> QED
    BY <1>6
<1> QED
  BY <1>1, <1>7

\* Magnitude is the last value of that function.
LEMMA MagnitudeIsValue ==
  ASSUME NEW s \in Seq(Nat)
  PROVE  \E f : /\ f = [i \in 0..Len(s) |-> IF i = 0 THEN 0 ELSE Base * f[i - 1] + s[i]]
                /\ Magnitude(s) = f[Len(s)]
<1> DEFINE f == CHOOSE f : f = [i \in 0..Len(s) |-> IF i = 0 THEN 0 ELSE Base * f[i - 1] + s[i]]
<1>1. Len(s) \in Nat
  OBVIOUS
<1>2. \E h : h = [i \in 0..Len(s) |-> IF i = 0 THEN 0 ELSE Base * h[i - 1] + s[i]]
  BY <1>1, ValueExists, Zenon
<1>3. f = [i \in 0..Len(s) |-> IF i = 0 THEN 0 ELSE Base * f[i - 1] + s[i]]
  BY <1>2, Zenon
<1>4. Magnitude(s) = f[Len(s)]
  BY DEF Magnitude
<1> HIDE DEF f
<1> QED
  BY <1>3, <1>4

\* A zero in front does not change the number.
LEMMA PaddedMagnitude ==
  ASSUME NEW s \in Seq(Nat)
  PROVE  Magnitude(<< 0 >> \o s) = Magnitude(s)
<1> DEFINE t == << 0 >> \o s
<1>1. /\ t \in Seq(Nat) /\ Len(t) = Len(s) + 1 /\ Len(s) \in Nat /\ t[1] = 0
      /\ \A i \in 1..Len(s) : t[i + 1] = s[i]
  OBVIOUS
<1> HIDE DEF t
<1>2. PICK f : /\ f = [i \in 0..Len(s) |-> IF i = 0 THEN 0 ELSE Base * f[i - 1] + s[i]]
               /\ Magnitude(s) = f[Len(s)]
  BY MagnitudeIsValue
<1>3. PICK g : /\ g = [i \in 0..Len(t) |-> IF i = 0 THEN 0 ELSE Base * g[i - 1] + t[i]]
               /\ Magnitude(t) = g[Len(t)]
  BY <1>1, MagnitudeIsValue
<1>4. Len(t) = Len(s) + 1 /\ Len(s) \in Nat
  BY <1>1
<1> DEFINE Bad == {i \in 0..Len(s) : g[i + 1] # f[i]}
<1>5. Bad = {}
  <2> SUFFICES ASSUME Bad # {}
               PROVE  FALSE
    OBVIOUS
  <2>1. PICK m \in Bad : \A k \in Bad : m <= k
    <3>1. Bad \in SUBSET Nat
      OBVIOUS
    <3> HIDE DEF Bad
    <3> QED
      BY <3>1, Smallest
  <2>2. m \in 0..Len(s) /\ g[m + 1] # f[m]
    OBVIOUS
  <2>3. g[m + 1] = Base * g[m] + t[m + 1]
    <3>1. ASSUME NEW n \in Nat, NEW i \in 0..n
          PROVE  i + 1 \in 0..(n + 1) /\ i + 1 # 0 /\ (i + 1) - 1 = i
      OBVIOUS
    <3> HIDE DEF Bad
    <3>2. m + 1 \in 0..Len(t) /\ m + 1 # 0 /\ (m + 1) - 1 = m
      BY <1>4, <2>2, <3>1, Zenon
    <3> QED
      BY <1>3, <3>2
  <2>4. CASE m = 0
    <3>1. g[0] = 0 /\ f[0] = 0
      <4>1. 0 \in 0..Len(t) /\ 0 \in 0..Len(s)
        BY <1>4
      <4> QED
        BY <1>2, <1>3, <4>1
    <3>2. g[1] = Base * 0 + 0
      BY <1>1, <2>3, <2>4, <3>1
    <3>3. Base * 0 + 0 = 0
      OBVIOUS
    <3> QED
      BY <2>2, <2>4, <3>1, <3>2, <3>3
  <2>5. CASE m # 0
    <3>1. m - 1 \in 0..Len(s) /\ m - 1 \notin Bad
      BY <2>1, <2>2, <2>5
    <3>2. g[m] = f[m - 1]
      BY <2>2, <3>1
    <3>3. t[m + 1] = s[m]
      BY <1>1, <2>2, <2>5
    <3>4. f[m] = Base * f[m - 1] + s[m]
      BY <1>2, <2>2, <2>5
    <3> QED
      BY <2>2, <2>3, <3>2, <3>3, <3>4, Zenon
  <2> QED
    BY <2>4, <2>5
<1>6. g[Len(s) + 1] = f[Len(s)]
  BY <1>5, <1>4
<1> QED
  BY <1>2, <1>3, <1>4, <1>6 DEF t

\* A client that follows RFC 4251 takes the number that was written, and finds
\* it written as short as it may be.
LEMMA NumberIsUnderstood ==
  ASSUME NEW d \in BigNum, d # << >>
  PROVE  MeansNumber(Mpint(d), Magnitude(d))
<1>1. d \in Seq(Nat) /\ d[1] \in Nat /\ d[1] # 0 /\ Len(d) \in Nat \ {0}
  BY DEF BigNum
<1>2. ~IsNegative(Mpint(d))
  BY NumberRoundTrip
<1>3. CASE 2 * d[1] >= Base
  <2> DEFINE s == << 0 >> \o d
  <2>1. Mpint(d) = s
    BY <1>3 DEF Mpint
  <2>2. Magnitude(s) = Magnitude(d)
    BY <1>1, PaddedMagnitude
  <2>3. Len(s) > 1 /\ s[2] = d[1]
    BY <1>1
  <2> HIDE DEF s
  <2> QED
    BY <1>2, <1>3, <2>1, <2>2, <2>3 DEF MeansNumber
<1>4. CASE ~(2 * d[1] >= Base)
  <2>1. Mpint(d) = d
    BY <1>4 DEF Mpint
  <2> QED
    BY <1>1, <1>2, <2>1 DEF MeansNumber
<1> QED
  BY <1>3, <1>4

\* PublicKey::encode and write_mpint: a client that follows RFC 4251 takes from
\* an encoded key exactly its two numbers, for every key.
THEOREM KeyIsUnderstood ==
  ASSUME NEW key \in PublicKey, key.e # << >>, key.n # << >>
  PROVE  MeansKey(Encode(key), key)
<1>1. key.e \in BigNum /\ key.n \in BigNum
  BY DEF PublicKey
<1>2. /\ MeansNumber(Mpint(key.e), Magnitude(key.e))
      /\ MeansNumber(Mpint(key.n), Magnitude(key.n))
  BY <1>1, NumberIsUnderstood
<1> QED
  BY <1>2, EncodedKey, KeyRoundTrip DEF MeansKey

=============================================================================
