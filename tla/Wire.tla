---------------------------------- MODULE Wire ----------------------------------
(***************************************************************************)
(* The wire format: strings, mpints and RSA public keys.                   *)
(*                                                                         *)
(* A text is a sequence of cells.  The four bytes of a length are one      *)
(* cell, the name of a key type is one cell, and every other cell is a     *)
(* byte of a number, that is a digit to the base Base (256 in the code).   *)
(* A number (BigNum) is known by its digits, the first one being the       *)
(* highest, without leading zeros: what to_vec returns.                    *)
(***************************************************************************)
EXTENDS Naturals, Sequences

CONSTANT Base  \* values of a byte; it has a sign bit, so there are two at least

ASSUME WireAssumption == Base \in Nat /\ Base >= 2

Text == Seq(Nat)

BigNum == {d \in Seq(0..(Base - 1)) : d # << >> => d[1] # 0}

PublicKey == [e : BigNum, n : BigNum]

SshRsa == << 7 >>

-----------------------------------------------------------------------------
\* read_string: there is a whole string at the front of the text.
HasString(text) == text # << >> /\ Head(text) < Len(text)

\* The string at the front, and what follows it.
FirstString(text) == SubSeq(text, 2, Head(text) + 1)
AfterString(text) == SubSeq(text, Head(text) + 2, Len(text))

WriteString(s) == << Len(s) >> \o s

\* from_slice: leading zeros do not count.
FromSlice(s) ==
  LET zeros == CHOOSE k \in 0..Len(s) : /\ \A i \in 1..k : s[i] = 0
                                        /\ k < Len(s) => s[k + 1] # 0
  IN SubSeq(s, zeros + 1, Len(s))

\* A variant of write_mpint that does not care for the sign.
MutMpint(bn) == bn

\* write_mpint puts a zero in front of a number whose highest bit is set; it
\* panics if the number is zero and has no first byte.
Mpint(bn) == IF 2 * bn[1] >= Base THEN << 0 >> \o bn ELSE bn

\* PublicKey::encode
Encode(key) == WriteString(SshRsa) \o WriteString(Mpint(key.e)) \o WriteString(Mpint(key.n))

\* A variant of PublicKey::decode that takes the numbers in the order of
\* PrivateKey::from_wire.
MutDecode(text) ==
  LET n == AfterString(text)
      e == AfterString(n)
  IN [e |-> FromSlice(FirstString(e)), n |-> FromSlice(FirstString(n))]

\* PublicKey::decode, and when it succeeds.
Decodes(text) ==
  /\ HasString(text)
  /\ FirstString(text) = SshRsa
  /\ HasString(AfterString(text))
  /\ HasString(AfterString(AfterString(text)))

Decode(text) ==
  LET e == AfterString(text)
      n == AfterString(e)
  IN [e |-> FromSlice(FirstString(e)), n |-> FromSlice(FirstString(n))]

-----------------------------------------------------------------------------
(***************************************************************************)
(* The reference: what RFC 4251 says a string of bytes means as an mpint,  *)
(* a number in two's complement, and which string is the shortest one.     *)
(***************************************************************************)

\* The value of the digits read as a natural number.
Magnitude(s) ==
  LET value[i \in 0..Len(s)] == IF i = 0 THEN 0 ELSE Base * value[i - 1] + s[i]
  IN value[Len(s)]

IsNegative(s) == s # << >> /\ 2 * s[1] >= Base

MeansNumber(s, number) ==
  /\ ~IsNegative(s)
  /\ Magnitude(s) = number
  /\ (s # << >> /\ s[1] = 0) => Len(s) > 1 /\ 2 * s[2] >= Base

\* What a client that follows the RFC takes from an encoded key.
MeansKey(text, key) ==
  LET e == AfterString(text)
      n == AfterString(e)
  IN /\ Decodes(text)
     /\ MeansNumber(FirstString(e), Magnitude(key.e))
     /\ MeansNumber(FirstString(n), Magnitude(key.n))
     /\ AfterString(n) = << >>

=============================================================================
