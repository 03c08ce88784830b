----------------------------- MODULE SnosCodec -----------------------------
(***************************************************************************)
(* The codec of the Starknet OS output (primitives/snos-output).  The      *)
(* settlement worker encodes the output of a block with it before it calls *)
(* updateState (client/settlement/src/ethereum/mod.rs:45).                 *)
(*                                                                         *)
(* A felt is a number, a structure the tuple of its fields in the order of *)
(* encode_to.  U64 and Eth are the numbers of values of a u64 (and of a    *)
(* usize) and of an Ethereum address, small here.                          *)
(***************************************************************************)
EXTENDS Integers, Sequences, SequencesExt

CONSTANTS U64, Eth

ASSUME CodecAssumption == U64 \in Nat \ {0} /\ Eth \in Nat \ {0}

----------------------------------------------------------------------------
(* encode_to *)

\* A vector, from the encodings of its elements.  The placeholder is replaced by
\* the number of felts they took.
EncodeVec(encoded) ==
  LET added == FlattenSeq(encoded) IN <<Len(added)>> \o added

EncodeFelts(felts) == EncodeVec([i \in DOMAIN felts |-> <<felts[i]>>])

\* MessageL2ToL1 and MessageL1ToL2: felts, then the payload.
EncodeMessage(message) == Front(message) \o EncodeFelts(Last(message))
EncodeMessages(messages) ==
  EncodeVec([i \in DOMAIN messages |-> EncodeMessage(messages[i])])

\* StarknetOsOutput: five felts, the messages to L1, the messages to L2.
encode_to(output) ==
  SubSeq(output, 1, 5) \o EncodeMessages(output[6]) \o EncodeMessages(output[7])

----------------------------------------------------------------------------
(* FeltReader *)

Reader(data) == [data |-> data, offset |-> 0]
Ok(value, reader) == [ok |-> TRUE, value |-> value, reader |-> reader]
Err(error) == [ok |-> FALSE, error |-> error]

remaining_len(reader) == Len(reader.data) - reader.offset

read(reader) ==
  IF reader.offset >= Len(reader.data) THEN Err("OutOfBounds")
  ELSE Ok(reader.data[reader.offset + 1], [reader EXCEPT !.offset = @ + 1])

\* Mutation: the end of the segment is not compared with the end of the data.
read_segment_Unchecked(reader) ==
  LET size == read(reader) IN
  IF ~size.ok THEN size
  ELSE IF size.value >= U64 THEN Err("InvalidCast")
  ELSE LET start == size.reader.offset IN
       Ok(SubSeq(reader.data, start + 1, IF start + size.value > Len(reader.data)
                                         THEN Len(reader.data) ELSE start + size.value),
          [size.reader EXCEPT !.offset = IF start + size.value > Len(reader.data)
                                         THEN Len(reader.data) ELSE start + size.value])

\* start + segment_size wraps; the slice of a wrapped end panics.
read_segment(reader) ==
  LET size == read(reader) IN
  IF ~size.ok THEN size
  ELSE IF size.value >= U64 THEN Err("InvalidCast")
  ELSE LET start == size.reader.offset
           end == (start + size.value) % U64 IN
       IF end > Len(reader.data) THEN Err("OutOfBounds")
       ELSE IF end < start THEN Err("panic")
       ELSE Ok(SubSeq(reader.data, start + 1, end), [size.reader EXCEPT !.offset = end])

----------------------------------------------------------------------------
(* decode *)

DecodeEth(reader) ==
  LET felt == read(reader) IN
  IF felt.ok /\ felt.value >= Eth THEN Err("InvalidCast") ELSE felt

\* The decode of a type, below.
RECURSIVE DecodeAs(_, _)

\* One element after the other, while felts of the segment remain.
DecodeVec(type, reader) ==
  LET segment == read_segment(reader)
      Push(done) == LET elt == DecodeAs(type, done.reader) IN
                    IF elt.ok THEN Ok(Append(done.value, elt.value), elt.reader) ELSE elt
      elements == FoldLeft(LAMBDA done, felt : IF done.ok /\ remaining_len(done.reader) > 0
                                               THEN Push(done) ELSE done,
                           Ok(<<>>, Reader(segment.value)), segment.value) IN
  IF ~segment.ok THEN segment
  ELSE IF elements.ok THEN Ok(elements.value, segment.reader) ELSE elements

\* The fields of a structure, each with ?.
DecodeFields(types, reader) ==
  FoldLeft(LAMBDA done, type :
             IF ~done.ok THEN done
             ELSE LET value == DecodeAs(type, done.reader) IN
                  IF value.ok THEN Ok(Append(done.value, value.value), value.reader) ELSE value,
           Ok(<<>>, reader), types)

DecodeL2ToL1(reader) == DecodeFields(<<"felt", "eth", "payload">>, reader)
DecodeL1ToL2(reader) == DecodeFields(<<"felt", "felt", "felt", "felt", "payload">>, reader)

DecodeAs(type, reader) ==
  CASE type = "felt" -> read(reader)
    [] type = "eth" -> DecodeEth(reader)
    [] type = "payload" -> DecodeVec("felt", reader)
    [] type = "L2ToL1" -> DecodeL2ToL1(reader)
    [] type = "L1ToL2" -> DecodeL1ToL2(reader)
    [] type = "messages_to_l1" -> DecodeVec("L2ToL1", reader)
    [] type = "messages_to_l2" -> DecodeVec("L1ToL2", reader)

decode(data) ==
  DecodeFields(<<"felt", "felt", "felt", "felt", "felt", "messages_to_l1", "messages_to_l2">>,
               Reader(data))
=============================================================================
