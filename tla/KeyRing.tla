-------------------------------- MODULE KeyRing --------------------------------
(***************************************************************************)
(* Config::keys, the list of key pairs of an agent, and what becomes of it *)
(* in config.toml.                                                         *)
(*                                                                         *)
(* A key pair is known by its public key, which RSA private data           *)
(* determines, and carries a name, the comment ssh-add sent with it.  In   *)
(* memory the public key identifies it; in the file it is a table          *)
(* [keys.<name>], so there the name does.                                  *)
(***************************************************************************)
EXTENDS Naturals, Sequences

CONSTANTS
  Key,   \* public keys
  Name   \* names

KeyPair == [key : Key, name : Name]

KeysOf(ring) == {ring[i].key : i \in DOMAIN ring}

\* get_key finds a pair.
Has(ring, k) == \E i \in DOMAIN ring : ring[i].key = k

\* A variant that compares the names instead.
MutPushNew(ring, pair) ==
  IF \E i \in DOMAIN ring : ring[i].name = pair.name THEN ring ELSE Append(ring, pair)

\* add_key, without the save.
PushNew(ring, pair) == IF Has(ring, pair.key) THEN ring ELSE Append(ring, pair)

\* No two pairs share their public key.
DistinctKeys(ring) ==
  \A i, j \in DOMAIN ring : ring[i].key = ring[j].key => i = j

\* No two pairs share their name.
DistinctNames(ring) ==
  \A i, j \in DOMAIN ring : ring[i].name = ring[j].name => i = j

\* serialize_key_pairs writes one table per pair, in order, whatever the names;
\* the parser refuses a text that defines a table twice.
Parses(ring) == DistinctNames(ring)

=============================================================================
