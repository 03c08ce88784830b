------------------------------- MODULE Felts -------------------------------
(***************************************************************************)
(* Felt252Wrapper (primitives/felt) and the byte hashing of                *)
(* primitives/hashers.  A felt is a number below Prime; an array of 32     *)
(* bytes is a sequence of Bytes digits in base Base, most significant      *)
(* first.  A hash is the term that is hashed: distinct terms have distinct *)
(* hashes.                                                                 *)
(***************************************************************************)
EXTENDS Integers, Sequences, SequencesExt

CONSTANTS Base, Bytes, Prime, ChunkSize

ASSUME FeltAssumption ==
  /\ Base \in Nat \ {0, 1} /\ Bytes \in Nat \ {0} /\ ChunkSize \in Nat \ {0}
  /\ Base ^ (Bytes - 1) < Prime /\ Prime < Base ^ Bytes

Panic == <<"panic">>
Big(bytes) == FoldLeft(LAMBDA n, byte : n * Base + byte, 0, bytes)

----------------------------------------------------------------------------

\* Felt252Wrapper::try_from(&[u8; 32]) and try_from(&[u8]).
try_from_bytes(bytes) == IF Big(bytes) < Prime THEN <<"felt", Big(bytes)>>
                                               ELSE <<"FromArrayError">>
try_from_slice(bytes) ==
  IF Len(bytes) > Bytes THEN <<"InvalidLength">>
  ELSE IF Big(bytes) < Prime THEN <<"felt", Big(bytes)>> ELSE <<"OutOfRange">>

\* From<Felt252Wrapper> for [u8; 32], H256, StarkFelt and Felt252.
to_bytes(felt) == [i \in 1..Bytes |-> (felt \div Base ^ (Bytes - i)) % Base]

\* The unwrap of a conversion.
unwrap(result) == IF result[1] = "felt" THEN result ELSE Panic

\* SCALE decode: the buffer is filled from the input, which has to be long
\* enough, then converted.
scale_decode(input) ==
  IF Len(input) < Bytes THEN <<"Not enough data to fill buffer">>
  ELSE try_from_bytes(SubSeq(input, 1, Bytes))

----------------------------------------------------------------------------
(* HasherT::hash_bytes *)

\* Mutation: the chunks are a byte longer, as wide as the array.
chunks_Wide(data) ==
  [i \in 1..((Len(data) + ChunkSize) \div (ChunkSize + 1)) |->
     SubSeq(data, (i - 1) * (ChunkSize + 1) + 1,
            IF i * (ChunkSize + 1) > Len(data) THEN Len(data) ELSE i * (ChunkSize + 1))]

chunks(data) ==
  [i \in 1..((Len(data) + ChunkSize - 1) \div ChunkSize) |->
     SubSeq(data, (i - 1) * ChunkSize + 1,
            IF i * ChunkSize > Len(data) THEN Len(data) ELSE i * ChunkSize)]

\* PedersenHasher and PoseidonHasher hash the same chunks, pairwise or all at
\* once; both terms list them.
hash_bytes(data) ==
  LET felts == [i \in DOMAIN chunks(data) |-> unwrap(try_from_slice(chunks(data)[i]))]
  IN  IF \E i \in DOMAIN felts : felts[i] = Panic THEN Panic
      ELSE <<"hash", [i \in DOMAIN felts |-> felts[i][2]]>>
=============================================================================
