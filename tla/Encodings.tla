----------------------------- MODULE Encodings -----------------------------
(***************************************************************************)
(* The pure algorithms of the node, each fed one input at a time: bytes to *)
(* hash, resources to charge, storage changes of a block to publish, and   *)
(* messages of a block to settle.  Which of the four is under way is       *)
(* chosen at the start.                                                    *)
(***************************************************************************)
EXTENDS SnosCodec, DaEncoding, Fees, Felts

CONSTANTS
  MaxBytes,     \* bytes hashed
  MaxUnits,     \* units used of a resource, and of L1 gas
  GasPrices,
  Changes,      \* possible storage changes, in the order of their keys
  ToL1, ToL2,   \* possible messages
  MaxMessages,
  Garbage       \* felts a damaged array may hold

VARIABLE input

vars == <<input>>

Digits == 0..(Base - 1)
NoUsage == [r \in Resources |-> 0]
Roots == <<0, 1, 2, 3, 1>>

Init ==
  \/ input = [kind |-> "bytes", data |-> <<>>]
  \/ \E price \in GasPrices :
       input = [kind |-> "fee", l1_gas_usage |-> 0, usage |-> NoUsage, gas_price |-> price]
  \/ input = [kind |-> "diff", changed |-> {}]
  \/ input = [kind |-> "output", output |-> Roots \o <<<<>>, <<>>>>]

PushByte(byte) ==
  /\ input.kind = "bytes" /\ Len(input.data) < MaxBytes
  /\ input' = [input EXCEPT !.data = Append(@, byte)]

UseResource(resource) ==
  /\ input.kind = "fee" /\ input.usage[resource] < MaxUnits
  /\ input' = [input EXCEPT !.usage[resource] = @ + 1]

UseL1Gas ==
  /\ input.kind = "fee" /\ input.l1_gas_usage < MaxUnits
  /\ input' = [input EXCEPT !.l1_gas_usage = @ + 1]

\* One value for each key of a storage map.
Change(i) ==
  /\ input.kind = "diff"
  /\ \A j \in input.changed : \/ Changes[j].map # Changes[i].map
                              \/ Changes[j].owner # Changes[i].owner
                              \/ Changes[j].key # Changes[i].key
  /\ input' = [input EXCEPT !.changed = @ \cup {i}]

SendMessage(list, message) ==
  /\ input.kind = "output" /\ Len(input.output[list]) < MaxMessages
  /\ input' = [input EXCEPT !.output[list] = Append(@, message)]

\* The encoded output, as it was sent or damaged: cut short, or with one felt
\* replaced.
Transmit ==
  /\ input.kind = "output"
  /\ LET sent == encode_to(input.output) IN
     \E data \in {SubSeq(sent, 1, n) : n \in 0..Len(sent)}
                   \cup {[sent EXCEPT ![i] = felt] : i \in DOMAIN sent, felt \in Garbage} :
       input' = [kind |-> "array", sent |-> sent, data |-> data]

Next ==
  \/ \E byte \in Digits : PushByte(byte)
  \/ \E resource \in Resources : UseResource(resource)
  \/ UseL1Gas
  \/ \E i \in DOMAIN Changes : Change(i)
  \/ \E message \in ToL1 : SendMessage(6, message)
  \/ \E message \in ToL2 : SendMessage(7, message)
  \/ Transmit

Spec == Init /\ [][Next]_vars

----------------------------------------------------------------------------
(* Properties *)

\* No byte is lost on the way into felts.  A chunk of hash_bytes always fits a
\* felt ("It is safe to unwrap here", pedersen.rs:36, poseidon.rs), and two byte
\* strings of the same length never hash the same chunks.  Thirty-two bytes convert
\* to a felt exactly if they are below the prime (Felt252Wrapper::try_from), and the
\* felt is written back as the same bytes, which SCALE decodes to it whatever
\* follows them.
HashedApart ==
  input.kind = "bytes" =>
    /\ hash_bytes(input.data) # Panic
    /\ \A other \in [DOMAIN input.data -> Digits] :
         hash_bytes(other) = hash_bytes(input.data) => other = input.data
    /\ Len(input.data) = Bytes =>
         LET felt == try_from_bytes(input.data) IN
         /\ (felt[1] = "felt") = (Big(input.data) < Prime)
         /\ felt[1] = "felt" =>
              /\ to_bytes(felt[2]) = input.data
              /\ \A byte \in Digits : scale_decode(Append(to_bytes(felt[2]), byte)) = felt

\* calculate_tx_fee charges the least whole amount of gas that covers the L1
\* gas and the heaviest Cairo resource ("the heaviest Cairo resource weight",
\* fee/src/lib.rs:205), and refuses only a fee that does not fit a u128.
FeeIsLeastCover ==
  input.kind = "fee" =>
    LET fee == calculate_tx_fee(input.l1_gas_usage, input.usage, input.gas_price)
        Covers(gas) == \A r \in Resources :
                         gas * Scale >= input.l1_gas_usage * Scale + Cost[r] * input.usage[r]
        least == CHOOSE gas \in 0..U128 : Covers(gas) /\ \A g \in 0..(gas - 1) : ~Covers(g) IN
    IF least * input.gas_price < U128 THEN fee = Gas(least * input.gas_price)
                                      ELSE fee = FixedPointConversion

InOrder(changed) == SelectSeq([i \in DOMAIN Changes |-> [Changes[i] EXCEPT !.on = i \in changed]],
                              LAMBDA c : c.on)

\* The words published for a block name each contract that changed once, as
\* many as num_addr_accessed announces, for a block in which every contract
\* that was given a class also has a storage or a nonce change
\* (block_data_to_calldata, nonces.remove).  The word of a contract is as drawn
\* above da_word (utils.rs:81-83), for a block without new classes and with first
\* nonces.
DiffPublished ==
  input.kind = "diff" =>
    LET changes == InOrder(input.changed) IN CountsAddresses(changes) /\ WordsAsDrawn(changes)

\* Decoding inverts encoding and nothing else.  What encode_to wrote is decoded to
\* the output and read to its end; an output that is cut anywhere is refused, since
\* no encoding is the beginning of another one (the segment sizes of
\* FeltReader::read_segment); and of whatever array decode accepts, the felts it
\* consumed are the ones encode_to writes.
DecodedCanonical ==
  /\ input.kind = "output" =>
       LET sent == encode_to(input.output) IN
       decode(sent) = Ok(input.output, [data |-> sent, offset |-> Len(sent)])
  /\ input.kind = "array" =>
       LET result == decode(input.data) IN
       /\ Len(input.data) < Len(input.sent) => result = Err("OutOfBounds")
       /\ result.ok => encode_to(result.value) = SubSeq(input.data, 1, result.reader.offset)
=============================================================================
