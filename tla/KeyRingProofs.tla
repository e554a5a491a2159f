----------------------------- MODULE KeyRingProofs -----------------------------
(***************************************************************************)
(* What the operations on a list of key pairs keep, for every list.        *)
(***************************************************************************)
EXTENDS KeyRing, SequencesExt, SequenceTheorems, TLAPS

\* add_key leaves a list of pairs that differ by their public key, has the key
\* afterwards, and gives up none.
THEOREM PushNewIsSafe ==
  ASSUME NEW ring \in Seq(KeyPair), NEW pair \in KeyPair, DistinctKeys(ring)
  PROVE  /\ PushNew(ring, pair) \in Seq(KeyPair)
         /\ DistinctKeys(PushNew(ring, pair))
         /\ KeysOf(PushNew(ring, pair)) = KeysOf(ring) \cup {pair.key}
<1>1. CASE Has(ring, pair.key)
  BY <1>1 DEF PushNew, Has, KeysOf
<1>2. CASE ~Has(ring, pair.key)
  <2> DEFINE longer == Append(ring, pair)
  <2>1. /\ PushNew(ring, pair) = longer
        /\ longer \in Seq(KeyPair)
        /\ Len(longer) = Len(ring) + 1
        /\ \A i \in 1..Len(ring) : longer[i] = ring[i]
        /\ longer[Len(ring) + 1] = pair
    BY <1>2 DEF PushNew
  <2> HIDE DEF longer
  <2>2. DOMAIN longer = DOMAIN ring \cup {Len(ring) + 1} /\ DOMAIN ring = 1..Len(ring)
    BY <2>1
  <2>3. DistinctKeys(longer)
    BY <1>2, <2>1, <2>2 DEF DistinctKeys, Has
  <2>4. KeysOf(longer) = KeysOf(ring) \cup {pair.key}
    BY <2>1, <2>2 DEF KeysOf
  <2> QED
    BY <2>1, <2>3, <2>4
<1> QED
  BY <1>1, <1>2

\* A new pair whose name is not taken leaves a text that can be parsed.
LEMMA PushNewParses ==
  ASSUME NEW ring \in Seq(KeyPair), NEW pair \in KeyPair, Parses(ring),
         \A i \in DOMAIN ring : ring[i].name = pair.name => ring[i].key = pair.key
  PROVE  Parses(PushNew(ring, pair))
<1>1. CASE Has(ring, pair.key)
  BY <1>1 DEF PushNew
<1>2. CASE ~Has(ring, pair.key)
  <2> DEFINE longer == Append(ring, pair)
  <2>1. /\ PushNew(ring, pair) = longer
        /\ DOMAIN longer = 1..(Len(ring) + 1) /\ DOMAIN ring = 1..Len(ring)
        /\ \A i \in 1..Len(ring) : longer[i] = ring[i]
        /\ longer[Len(ring) + 1] = pair
    BY <1>2 DEF PushNew
  <2> QED
    BY <1>2, <2>1 DEF Parses, DistinctNames, Has
<1> QED
  BY <1>1, <1>2

\* Any part at the front of a list keeps the keys and the names distinct.
LEMMA FrontIsSafe ==
  ASSUME NEW ring \in Seq(KeyPair), NEW n \in 0..Len(ring)
  PROVE  /\ SubSeq(ring, 1, n) \in Seq(KeyPair)
         /\ DistinctKeys(ring) => DistinctKeys(SubSeq(ring, 1, n))
<1>1. SubSeq(ring, 1, n) \in Seq(KeyPair) /\ Len(SubSeq(ring, 1, n)) = n
  OBVIOUS
<1>2. \A i \in 1..n : SubSeq(ring, 1, n)[i] = ring[i]
  OBVIOUS
<1>3. DOMAIN SubSeq(ring, 1, n) = 1..n /\ 1..n \subseteq DOMAIN ring
  BY <1>1
<1> QED
  BY <1>1, <1>2, <1>3 DEF DistinctKeys

\* Deleting a block leaves distinct keys and names, and takes exactly its key.
THEOREM RemoveAtIsSafe ==
  ASSUME NEW ring \in Seq(KeyPair), NEW i \in DOMAIN ring
  PROVE  /\ RemoveAt(ring, i) \in Seq(KeyPair)
         /\ Len(RemoveAt(ring, i)) = Len(ring) - 1
         /\ DistinctKeys(ring) => /\ DistinctKeys(RemoveAt(ring, i))
                                  /\ KeysOf(RemoveAt(ring, i)) = KeysOf(ring) \ {ring[i].key}
         /\ Parses(ring) => Parses(RemoveAt(ring, i))
<1> DEFINE rest  == RemoveAt(ring, i)
           left  == SubSeq(ring, 1, i - 1)
           right == SubSeq(ring, i + 1, Len(ring))
           was(j) == IF j < i THEN j ELSE j + 1   \* where pair j of the rest was
<1>1. Len(ring) \in Nat /\ i \in 1..Len(ring) /\ DOMAIN ring = 1..Len(ring)
  OBVIOUS
<1>2. /\ rest \in Seq(KeyPair) /\ Len(rest) = Len(ring) - 1
      /\ \A j \in 1..(Len(ring) - 1) : rest[j] = ring[was(j)]
  <2>1. /\ left \in Seq(KeyPair) /\ Len(left) = i - 1
        /\ \A j \in 1..(i - 1) : left[j] = ring[j]
    BY <1>1
  <2>2. /\ right \in Seq(KeyPair) /\ Len(right) = Len(ring) - i
        /\ \A j \in 1..(Len(ring) - i) : right[j] = ring[i + j]
    BY <1>1
  <2>3. rest = left \o right
    BY DEF RemoveAt
  <2> HIDE DEF left, right, rest
  <2>4. /\ rest \in Seq(KeyPair) /\ Len(rest) = Len(left) + Len(right)
        /\ \A j \in 1..(Len(left) + Len(right)) :
             rest[j] = IF j <= Len(left) THEN left[j] ELSE right[j - Len(left)]
    BY <2>1, <2>2, <2>3, ConcatProperties, Zenon
  <2>6. ASSUME NEW j \in 1..(Len(ring) - 1) PROVE rest[j] = ring[was(j)]
    <3>1. CASE j < i
      BY <1>1, <2>1, <2>2, <2>4, <3>1
    <3>2. CASE j >= i
      <4>1. rest[j] = right[j - (i - 1)] /\ j - (i - 1) \in 1..(Len(ring) - i)
        BY <1>1, <2>1, <2>2, <2>4, <3>2
      <4>2. right[j - (i - 1)] = ring[i + (j - (i - 1))] /\ i + (j - (i - 1)) = j + 1
        BY <1>1, <2>2, <4>1
      <4> QED
        BY <1>1, <3>2, <4>1, <4>2
    <3> QED
      BY <1>1, <3>1, <3>2
  <2> QED
    BY <1>1, <2>1, <2>2, <2>4, <2>6
<1> HIDE DEF rest
<1>3. /\ DOMAIN rest = 1..(Len(ring) - 1)
      /\ \A j \in DOMAIN rest : was(j) \in DOMAIN ring /\ rest[j] = ring[was(j)]
      /\ \A j, k \in DOMAIN rest : was(j) = was(k) => j = k
  BY <1>1, <1>2
<1>4. DistinctKeys(ring) => DistinctKeys(rest)
  <2> HIDE DEF was
  <2> QED
    BY <1>3 DEF DistinctKeys
<1>5. Parses(ring) => Parses(rest)
  <2> HIDE DEF was
  <2> QED
    BY <1>3 DEF Parses, DistinctNames
<1>6. DistinctKeys(ring) => KeysOf(rest) = KeysOf(ring) \ {ring[i].key}
  <2> SUFFICES ASSUME DistinctKeys(ring) PROVE KeysOf(rest) = KeysOf(ring) \ {ring[i].key}
    OBVIOUS
  <2>1. ASSUME NEW j \in DOMAIN rest PROVE rest[j].key \in KeysOf(ring) \ {ring[i].key}
    BY <1>1, <1>2, <1>3, <2>1 DEF DistinctKeys, KeysOf
  <2>2. ASSUME NEW j \in DOMAIN ring, ring[j].key # ring[i].key PROVE ring[j].key \in KeysOf(rest)
    <3>1. CASE j < i
      BY <1>1, <1>2, <1>3, <3>1 DEF KeysOf
    <3>2. CASE j > i
      <4>1. j - 1 \in DOMAIN rest /\ rest[j - 1] = ring[j]
        BY <1>1, <1>2, <1>3, <3>2
      <4> QED
        BY <4>1 DEF KeysOf
    <3> QED
      BY <1>1, <2>2, <3>1, <3>2
  <2> QED
    BY <2>1, <2>2 DEF KeysOf
<1> QED
  BY <1>2, <1>4, <1>5, <1>6 DEF rest

=============================================================================
