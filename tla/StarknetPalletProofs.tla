------------------------ MODULE StarknetPalletProofs ------------------------
(***************************************************************************)
(* Proofs that the pallet executes no transaction twice, records the L1    *)
(* messages it executed and seals the block after genesis, for every set   *)
(* of transactions, every pool and every Cairo code.                       *)
(*                                                                         *)
(* ExecutedOnce is not inductive: it must be known that a stored           *)
(* transaction can never pass the checks of its dispatchable again         *)
(* (Consumed), of the storage being built and of the committed one, which  *)
(* a block that is given up falls back to.                                 *)
(***************************************************************************)
EXTENDS StarknetPallet, TLAPS

Fields == {"nonces", "deployed", "classes", "l1_messages", "balance", "fees", "tx_events",
           "reverted", "pending", "seq_addr_update", "block_hash", "headers", "bodies"}

Shape(s) ==
  /\ DOMAIN s = Fields
  /\ s.nonces \in [Account -> Nat]
  /\ s.pending \in Seq(Tx)
  /\ s.bodies \in Seq(Seq(Tx))

\* The storage s rules another execution of t out.
Consumed(s, t) ==
  /\ TxType[t] # "invoke0"
  /\ HasNonce(t) => TxNonce[t] < s.nonces[Sender[t]]
  /\ TxType[t] = "declare0" => Class[t] \in s.classes
  /\ TxType[t] = "l1" => TxNonce[t] \in s.l1_messages

Unique(s) == \A p, q \in Positions(s) : At(s, p) = At(s, q) => p = q

\* Every recorded nonce is that of a stored message, and of one only.
L1Exact(s) ==
  /\ \A n \in s.l1_messages :
       \E p \in Positions(s) : TxType[At(s, p)] = "l1" /\ TxNonce[At(s, p)] = n
  /\ \A p, q \in Positions(s) :
       /\ TxType[At(s, p)] = "l1" /\ TxType[At(s, q)] = "l1"
       /\ TxNonce[At(s, p)] = TxNonce[At(s, q)]
       => At(s, p) = At(s, q)

SInv(s) ==
  /\ Shape(s)
  /\ \A p \in Positions(s) : Consumed(s, At(s, p))
  /\ Unique(s)
  /\ L1Exact(s)

IInv == SInv(storage) /\ SInv(committed)

\* What a dispatchable that returned Ok did to the storage.
Executes(s, r, t) ==
  /\ DOMAIN r = Fields
  /\ r.nonces \in [Account -> Nat]
  /\ \A a \in Account : s.nonces[a] <= r.nonces[a]
  /\ s.classes \subseteq r.classes
  /\ r.l1_messages = IF TxType[t] = "l1" THEN s.l1_messages \cup {TxNonce[t]} ELSE s.l1_messages
  /\ r.pending = Append(s.pending, t)
  /\ r.bodies = s.bodies /\ r.seq_addr_update = s.seq_addr_update
  /\ TxType[t] = "l1" => TxNonce[t] \notin s.l1_messages
  /\ ~Consumed(s, t)
  /\ Consumed(r, t)

----------------------------------------------------------------------------
(* Positions in the blocks *)

LEMMA PositionIff ==
  ASSUME NEW s, NEW p
  PROVE  p \in Positions(s) <=>
           \E i \in DOMAIN Bodies(s) : \E k \in DOMAIN Bodies(s)[i] : p = <<i, k>>
<1> DEFINE B == Bodies(s)
           In(i) == {<<i, k>> : k \in DOMAIN B[i]}
<1> HIDE DEF B
<1>1. p \in UNION {In(i) : i \in DOMAIN B} <=> \E i \in DOMAIN B : p \in In(i)
  <2> HIDE DEF In
  <2>1. QED  OBVIOUS
<1>2. ASSUME NEW i PROVE p \in In(i) <=> \E k \in DOMAIN B[i] : p = <<i, k>>
  OBVIOUS
<1> HIDE DEF In
<1>3. p \in UNION {In(i) : i \in DOMAIN B} <=> \E i \in DOMAIN B : \E k \in DOMAIN B[i] : p = <<i, k>>
  BY <1>1, <1>2, Zenon
<1>4. QED  BY <1>3 DEF Positions, In, B

\* A transaction appended to the pending ones takes one new position.
LEMMA AppendPosition ==
  ASSUME NEW s, NEW r, NEW t \in Tx, Shape(s),
         r.pending = Append(s.pending, t), r.bodies = s.bodies
  PROVE  LET new == <<Len(s.bodies) + 1, Len(s.pending) + 1>>
         IN /\ new \in Positions(r) /\ At(r, new) = t
            /\ \A p \in Positions(s) : p \in Positions(r) /\ At(r, p) = At(s, p)
            /\ \A p \in Positions(r) : p = new \/ p \in Positions(s)
<1> DEFINE n == Len(s.bodies) + 1
           m == Len(s.pending) + 1
<1>1. /\ Bodies(s) \in Seq(Seq(Tx)) /\ Len(Bodies(s)) = n
      /\ Bodies(s)[n] = s.pending
      /\ \A i \in 1..Len(s.bodies) : Bodies(s)[i] = s.bodies[i]
  BY DEF Shape, Bodies
<1>2. Append(s.pending, t) \in Seq(Tx)
  BY DEF Shape
<1>3. /\ Bodies(r) \in Seq(Seq(Tx)) /\ Len(Bodies(r)) = n
      /\ Bodies(r)[n] = Append(s.pending, t)
      /\ \A i \in 1..Len(s.bodies) : Bodies(r)[i] = s.bodies[i]
  BY <1>2 DEF Shape, Bodies
<1>4. DOMAIN Bodies(s) = 1..n /\ DOMAIN Bodies(r) = 1..n
  BY <1>1, <1>3
<1>5. n \in Nat /\ m \in Nat /\ 1..n = 1..Len(s.bodies) \cup {n} /\ n \in 1..n
      /\ Len(s.bodies) \in Nat
  <2>1. Len(s.bodies) \in Nat /\ Len(s.pending) \in Nat
    BY DEF Shape
  <2>2. QED  BY <2>1
<1>6. /\ DOMAIN Append(s.pending, t) = DOMAIN s.pending \cup {m}
      /\ Append(s.pending, t)[m] = t
      /\ \A k \in DOMAIN s.pending : Append(s.pending, t)[k] = s.pending[k]
  BY DEF Shape
<1>7. <<n, m>> \in Positions(r)
  <2>1. n \in DOMAIN Bodies(r) /\ m \in DOMAIN Bodies(r)[n]
    BY <1>3, <1>4, <1>5, <1>6
  <2> HIDE DEF n, m
  <2>2. QED  BY <2>1, PositionIff
<1>8. At(r, <<n, m>>) = t
  BY <1>3, <1>6 DEF At
<1>9. ASSUME NEW p \in Positions(s)
      PROVE  p \in Positions(r) /\ At(r, p) = At(s, p)
  <2>1. PICK i, k : i \in DOMAIN Bodies(s) /\ k \in DOMAIN Bodies(s)[i] /\ p = <<i, k>>
    BY PositionIff
  <2>2. k \in DOMAIN Bodies(r)[i] /\ Bodies(r)[i][k] = Bodies(s)[i][k]
    <3>1. CASE i = n
      BY <2>1, <3>1, <1>1, <1>3, <1>6
    <3>2. CASE i \in 1..Len(s.bodies)
      BY <2>1, <3>2, <1>1, <1>3
    <3>3. QED  BY <2>1, <1>4, <1>5, <3>1, <3>2
  <2>3. i \in DOMAIN Bodies(r)
    BY <2>1, <1>4
  <2>4. p \in Positions(r)
    BY <2>1, <2>2, <2>3, PositionIff
  <2>5. QED  BY <2>1, <2>2, <2>4 DEF At
<1>10. ASSUME NEW p \in Positions(r) PROVE p = <<n, m>> \/ p \in Positions(s)
  <2>1. PICK i, k : i \in DOMAIN Bodies(r) /\ k \in DOMAIN Bodies(r)[i] /\ p = <<i, k>>
    BY PositionIff
  <2>2. i \in DOMAIN Bodies(s)
    BY <2>1, <1>4
  <2>3. (i = n /\ k = m) \/ k \in DOMAIN Bodies(s)[i]
    <3>1. CASE i = n
      BY <2>1, <3>1, <1>1, <1>3, <1>6
    <3>2. CASE i \in 1..Len(s.bodies)
      BY <2>1, <3>2, <1>1, <1>3
    <3>3. QED  BY <2>1, <1>4, <1>5, <3>1, <3>2
  <2> HIDE DEF n, m
  <2>4. QED  BY <2>1, <2>2, <2>3, PositionIff
<1>11. QED
  BY <1>7, <1>8, <1>9, <1>10

\* Sealing a block moves the pending transactions without moving their positions.
LEMMA SealPosition ==
  ASSUME NEW s, NEW r, Shape(s), r.pending = <<>>, r.bodies = Append(s.bodies, s.pending)
  PROVE  /\ Positions(r) = Positions(s)
         /\ \A p \in Positions(s) : At(r, p) = At(s, p)
<1> DEFINE n == Len(s.bodies) + 1
<1>1. /\ Bodies(s) \in Seq(Seq(Tx)) /\ Len(Bodies(s)) = n
  BY DEF Shape, Bodies
<1>2. <<>> \in Seq(Tx)
  OBVIOUS
<1>3. Bodies(r) = Append(Bodies(s), <<>>)
  BY DEF Bodies
<1> HIDE DEF n
<1>4. /\ n \in Nat
      /\ DOMAIN Bodies(s) = 1..n /\ DOMAIN Bodies(r) = 1..(n + 1)
      /\ Bodies(r)[n + 1] = <<>>
      /\ \A i \in 1..n : Bodies(r)[i] = Bodies(s)[i]
  BY <1>1, <1>2, <1>3
<1>5. ASSUME NEW p PROVE p \in Positions(s) <=> p \in Positions(r)
  <2>1. ASSUME NEW i \in DOMAIN Bodies(s), NEW k \in DOMAIN Bodies(s)[i]
        PROVE  i \in DOMAIN Bodies(r) /\ k \in DOMAIN Bodies(r)[i]
    BY <1>4, <2>1
  <2>2. ASSUME NEW i \in DOMAIN Bodies(r), NEW k \in DOMAIN Bodies(r)[i]
        PROVE  i \in DOMAIN Bodies(s) /\ k \in DOMAIN Bodies(s)[i]
    BY <1>4, <2>2
  <2>3. QED  BY <2>1, <2>2, PositionIff
<1>6. ASSUME NEW p \in Positions(s) PROVE At(r, p) = At(s, p)
  <2>1. PICK i, k : i \in DOMAIN Bodies(s) /\ k \in DOMAIN Bodies(s)[i] /\ p = <<i, k>>
    BY PositionIff
  <2>2. QED  BY <1>4, <2>1 DEF At
<1>7. QED  BY <1>5, <1>6

LEMMA AtIsTx ==
  ASSUME NEW s, Shape(s), NEW p \in Positions(s)
  PROVE  At(s, p) \in Tx
<1>1. PICK i, k : i \in DOMAIN Bodies(s) /\ k \in DOMAIN Bodies(s)[i] /\ p = <<i, k>>
  BY PositionIff
<1>2. Bodies(s) \in Seq(Seq(Tx))
  BY DEF Shape, Bodies
<1>3. Bodies(s)[i] \in Seq(Tx)
  BY <1>1, <1>2
<1>4. QED  BY <1>1, <1>3 DEF At

----------------------------------------------------------------------------
(* The dispatchables *)

\* An execution keeps the invariant of the storage.
LEMMA ExecutesStep ==
  ASSUME NEW s, NEW r, NEW t \in Tx, SInv(s), Executes(s, r, t)
  PROVE  SInv(r)
<1> DEFINE new == <<Len(s.bodies) + 1, Len(s.pending) + 1>>
<1>1. /\ new \in Positions(r) /\ At(r, new) = t
      /\ \A p \in Positions(s) : p \in Positions(r) /\ At(r, p) = At(s, p)
      /\ \A p \in Positions(r) : p = new \/ p \in Positions(s)
  BY AppendPosition DEF SInv, Executes
<1> HIDE DEF new
<1>2. Shape(r)
  BY DEF SInv, Shape, Executes
<1>3. ASSUME NEW p \in Positions(s) PROVE Consumed(s, At(s, p)) /\ At(s, p) \in Tx
  BY AtIsTx DEF SInv
<1>4. ASSUME NEW p \in Positions(s) PROVE At(s, p) # t
  BY <1>3 DEF Executes
<1>5. ASSUME NEW p \in Positions(s) PROVE Consumed(r, At(s, p))
  <2>1. Sender[At(s, p)] \in Account /\ TxNonce[At(s, p)] \in Nat
    BY <1>3, TxAssumption
  <2>2. s.nonces[Sender[At(s, p)]] \in Nat /\ r.nonces[Sender[At(s, p)]] \in Nat
        /\ s.nonces[Sender[At(s, p)]] <= r.nonces[Sender[At(s, p)]]
    BY <2>1 DEF SInv, Shape, Executes
  <2>3. QED  BY <1>3, <2>1, <2>2 DEF Consumed, Executes
<1>6. ASSUME NEW p \in Positions(r) PROVE Consumed(r, At(r, p))
  BY <1>1, <1>5 DEF Executes
<1>7. Unique(r)
  BY <1>1, <1>4 DEF SInv, Unique
<1>8. L1Exact(r)
  <2>1. ASSUME NEW n \in r.l1_messages
        PROVE  \E p \in Positions(r) : TxType[At(r, p)] = "l1" /\ TxNonce[At(r, p)] = n
    <3>1. CASE n \in s.l1_messages
      BY <1>1, <3>1 DEF SInv, L1Exact
    <3>2. CASE TxType[t] = "l1" /\ n = TxNonce[t]
      BY <1>1, <3>2
    <3>3. QED  BY <3>1, <3>2 DEF Executes
  <2>2. ASSUME NEW p \in Positions(s), TxType[At(s, p)] = "l1", TxType[t] = "l1"
        PROVE  TxNonce[At(s, p)] # TxNonce[t]
    BY <1>3, <2>2 DEF Consumed, Executes
  <2>3. ASSUME NEW p \in Positions(r), NEW q \in Positions(r),
               TxType[At(r, p)] = "l1", TxType[At(r, q)] = "l1",
               TxNonce[At(r, p)] = TxNonce[At(r, q)]
        PROVE  At(r, p) = At(r, q)
    BY <1>1, <2>2, <2>3 DEF SInv, L1Exact
  <2>4. QED  BY <2>1, <2>3 DEF L1Exact
<1>9. QED  BY <1>2, <1>6, <1>7, <1>8 DEF SInv

\* The parts of the storage that Cairo code and the fee transfer leave alone.
Untouched(s, r) ==
  /\ DOMAIN r = DOMAIN s
  /\ r.nonces = s.nonces /\ r.classes = s.classes /\ r.l1_messages = s.l1_messages
  /\ r.pending = s.pending /\ r.bodies = s.bodies
  /\ r.seq_addr_update = s.seq_addr_update

LEMMA CodeUntouched ==
  ASSUME NEW s, NEW t, DOMAIN s = Fields
  PROVE  /\ \A r \in run_execute(t, s) : Untouched(s, r)
         /\ \A r \in charge_fee(t, s) : Untouched(s, r)
         /\ \A r \in emit_events(t, s) : Untouched(s, r)
<1>1. \A r \in run_execute(t, s) : Untouched(s, r)
  BY DEF run_execute, Untouched, Fields
<1>2. \A r \in charge_fee(t, s) : Untouched(s, r)
  BY DEF charge_fee, ChargeOne, Untouched, Fields
<1>3. \A r \in emit_events(t, s) : Untouched(s, r)
  BY DEF emit_events, Untouched, Fields
<1>4. QED  BY <1>1, <1>2, <1>3

\* Storing a transaction appends it and leaves the rest alone.
Appended(s, r, t) ==
  /\ DOMAIN r = DOMAIN s
  /\ r.nonces = s.nonces /\ r.classes = s.classes /\ r.l1_messages = s.l1_messages
  /\ r.pending = Append(s.pending, t) /\ r.bodies = s.bodies
  /\ r.seq_addr_update = s.seq_addr_update

LEMMA StoreAppends ==
  ASSUME NEW s, NEW e, NEW t, NEW revert, DOMAIN s = Fields, Untouched(s, e)
  PROVE  Appended(s, store_transaction(t, e, revert), t)
  BY DEF store_transaction, Untouched, Appended, Fields

LEMMA AcceptedAppends ==
  ASSUME NEW s, NEW S, NEW t, DOMAIN s = Fields, \A e \in S : Untouched(s, e),
         NEW r \in Accepted(t, S)
  PROVE  Appended(s, r, t)
<1>1. PICK f \in UNION {emit_events(t, e) : e \in S} : r = store_transaction(t, f, FALSE)
  BY Zenon DEF Accepted
<1>2. PICK e \in S : f \in emit_events(t, e)
  BY <1>1
<1>3. Untouched(s, e) /\ DOMAIN e = Fields
  BY <1>2 DEF Untouched
<1>4. Untouched(e, f)
  BY <1>2, <1>3, CodeUntouched
<1>5. Untouched(s, f)
  BY <1>3, <1>4 DEF Untouched
<1>6. QED  BY <1>1, <1>5, StoreAppends

LEMMA NonceFacts ==
  ASSUME NEW s, NEW t \in Tx, Shape(s), HasNonce(t) => s.nonces[Sender[t]] = TxNonce[t]
  PROVE  LET r == handle_nonce(t, s)
         IN /\ DOMAIN r = Fields
            /\ r.nonces \in [Account -> Nat]
            /\ \A a \in Account : s.nonces[a] <= r.nonces[a]
            /\ HasNonce(t) => TxNonce[t] < r.nonces[Sender[t]]
            /\ r.classes = s.classes /\ r.l1_messages = s.l1_messages
            /\ r.pending = s.pending /\ r.bodies = s.bodies
            /\ r.seq_addr_update = s.seq_addr_update
<1>1. Sender[t] \in Account /\ TxNonce[t] \in Nat
  BY TxAssumption
<1>2. CASE HasNonce(t)
  BY <1>1, <1>2 DEF handle_nonce, Shape, Fields
<1>3. CASE ~HasNonce(t)
  BY <1>1, <1>3 DEF handle_nonce, Shape, Fields
<1>4. QED  BY <1>2, <1>3

\* The storage of a successful call, from the one its Cairo code started on.
LEMMA AppendedExecutes ==
  ASSUME NEW s, NEW m, NEW r, NEW t \in Tx, Shape(s), Appended(m, r, t),
         DOMAIN m = Fields, m.nonces \in [Account -> Nat],
         \A a \in Account : s.nonces[a] <= m.nonces[a],
         s.classes \subseteq m.classes,
         m.l1_messages = IF TxType[t] = "l1" THEN s.l1_messages \cup {TxNonce[t]} ELSE s.l1_messages,
         m.pending = s.pending, m.bodies = s.bodies, m.seq_addr_update = s.seq_addr_update,
         TxType[t] = "l1" => TxNonce[t] \notin s.l1_messages,
         ~Consumed(s, t), Consumed(m, t)
  PROVE  Executes(s, r, t)
  BY DEF Executes, Appended, Consumed

LEMMA InvokeExecutes ==
  ASSUME NEW s, NEW t \in Tx, Shape(s), TxType[t] = "invoke", NEW r \in InvokeOk(t, s)
  PROVE  Executes(s, r, t)
<1> DEFINE m == handle_nonce(t, s)
           executed == execute(t, m)
<1>1. HasNonce(t)
  BY DEF HasNonce
<1>2. /\ s.nonces[Sender[t]] = TxNonce[t]
      /\ r \in Accepted(t, executed) \cup Reverted(t, executed)
  BY <1>1, Zenon DEF InvokeOk, handle_nonce_and_check_fee_balance
<1>3. /\ DOMAIN m = Fields
      /\ m.nonces \in [Account -> Nat]
      /\ \A a \in Account : s.nonces[a] <= m.nonces[a]
      /\ TxNonce[t] < m.nonces[Sender[t]]
      /\ m.classes = s.classes /\ m.l1_messages = s.l1_messages
      /\ m.pending = s.pending /\ m.bodies = s.bodies /\ m.seq_addr_update = s.seq_addr_update
  BY <1>1, <1>2, NonceFacts
<1> HIDE DEF m
<1>4. ASSUME NEW e \in executed PROVE Untouched(m, e)
  <2>1. PICK f \in run_execute(t, m) : e \in charge_fee(t, f)
    BY <1>4 DEF execute
  <2>2. Untouched(m, f) /\ DOMAIN f = Fields
    BY <1>3, <2>1, CodeUntouched DEF Untouched
  <2>3. Untouched(f, e)
    BY <2>1, <2>2, CodeUntouched
  <2>4. QED  BY <2>2, <2>3 DEF Untouched
<1> HIDE DEF executed
<1>5. Appended(m, r, t)
  <2>1. CASE r \in Accepted(t, executed)
    BY <1>3, <1>4, <2>1, AcceptedAppends
  <2>2. CASE r \in Reverted(t, executed)
    BY <1>3, <1>4, <2>2, StoreAppends, Zenon DEF Reverted
  <2>3. QED  BY <1>2, <2>1, <2>2
<1>6. ~Consumed(s, t) /\ Consumed(m, t)
  <2>1. TxNonce[t] \in Nat
    BY TxAssumption
  <2>2. QED  BY <1>1, <1>2, <1>3, <2>1 DEF Consumed
<1>7. QED
  BY <1>3, <1>5, <1>6, AppendedExecutes

LEMMA DeclareExecutes ==
  ASSUME NEW s, NEW t \in Tx, Shape(s), TxType[t] \in {"declare0", "declare"},
         NEW r \in DeclareOk(t, s)
  PROVE  Executes(s, r, t)
<1> DEFINE h == handle_nonce(t, s)
           m == [h EXCEPT !.classes = @ \cup {Class[t]}]
<1>1. HasNonce(t) <=> TxType[t] = "declare"
  BY DEF HasNonce
<1>2. /\ HasNonce(t) => s.nonces[Sender[t]] = TxNonce[t]
      /\ Class[t] \notin s.classes
      /\ r \in {store_transaction(t, e, FALSE) : e \in charge_fee(t, m)}
  BY Zenon DEF DeclareOk, handle_nonce_and_check_fee_balance
<1>3. /\ DOMAIN h = Fields
      /\ h.nonces \in [Account -> Nat]
      /\ \A a \in Account : s.nonces[a] <= h.nonces[a]
      /\ HasNonce(t) => TxNonce[t] < h.nonces[Sender[t]]
      /\ h.classes = s.classes /\ h.l1_messages = s.l1_messages
      /\ h.pending = s.pending /\ h.bodies = s.bodies /\ h.seq_addr_update = s.seq_addr_update
  BY <1>2, NonceFacts
<1> HIDE DEF h
<1>4. /\ DOMAIN m = Fields
      /\ m.nonces = h.nonces /\ m.classes = h.classes \cup {Class[t]}
      /\ m.l1_messages = h.l1_messages /\ m.pending = h.pending /\ m.bodies = h.bodies
      /\ m.seq_addr_update = h.seq_addr_update
  BY <1>3 DEF Fields
<1> HIDE DEF m
<1>5. Appended(m, r, t)
  <2>1. \A e \in charge_fee(t, m) : Untouched(m, e)
    BY <1>4, CodeUntouched
  <2>2. PICK e \in charge_fee(t, m) : r = store_transaction(t, e, FALSE)
    BY <1>2
  <2>3. Untouched(m, e)
    BY <2>1
  <2>4. QED  BY <1>4, <2>2, <2>3, StoreAppends
<1>6. ~Consumed(s, t) /\ Consumed(m, t)
  <2>1. TxNonce[t] \in Nat
    BY TxAssumption
  <2>2. QED  BY <1>1, <1>2, <1>3, <1>4, <2>1 DEF Consumed
<1>7. QED
  BY <1>3, <1>4, <1>5, <1>6, AppendedExecutes

LEMMA DeployExecutes ==
  ASSUME NEW s, NEW t \in Tx, Shape(s), TxType[t] = "deploy", NEW r \in DeployOk(t, s)
  PROVE  Executes(s, r, t)
<1> DEFINE h == handle_nonce(t, s)
           m == [h EXCEPT !.deployed = @ \cup {Sender[t]}]
           executed == execute(t, m)
<1>1. HasNonce(t)
  BY DEF HasNonce
<1>2. s.nonces[Sender[t]] = TxNonce[t] /\ r \in Accepted(t, executed)
  BY <1>1, Zenon DEF DeployOk, handle_nonce_and_check_fee_balance
<1>3. /\ DOMAIN h = Fields
      /\ h.nonces \in [Account -> Nat]
      /\ \A a \in Account : s.nonces[a] <= h.nonces[a]
      /\ TxNonce[t] < h.nonces[Sender[t]]
      /\ h.classes = s.classes /\ h.l1_messages = s.l1_messages
      /\ h.pending = s.pending /\ h.bodies = s.bodies /\ h.seq_addr_update = s.seq_addr_update
  BY <1>1, <1>2, NonceFacts
<1> HIDE DEF h
<1>4. /\ DOMAIN m = Fields
      /\ m.nonces = h.nonces /\ m.classes = h.classes /\ m.l1_messages = h.l1_messages
      /\ m.pending = h.pending /\ m.bodies = h.bodies /\ m.seq_addr_update = h.seq_addr_update
  BY <1>3 DEF Fields
<1> HIDE DEF m
<1>5. ASSUME NEW e \in executed PROVE Untouched(m, e)
  <2>1. PICK f \in run_execute(t, m) : e \in charge_fee(t, f)
    BY <1>5 DEF execute
  <2>2. Untouched(m, f) /\ DOMAIN f = Fields
    BY <1>4, <2>1, CodeUntouched DEF Untouched
  <2>3. Untouched(f, e)
    BY <2>1, <2>2, CodeUntouched
  <2>4. QED  BY <2>2, <2>3 DEF Untouched
<1> HIDE DEF executed
<1>6. Appended(m, r, t)
  BY <1>2, <1>4, <1>5, AcceptedAppends
<1>7. ~Consumed(s, t) /\ Consumed(m, t)
  <2>1. TxNonce[t] \in Nat
    BY TxAssumption
  <2>2. QED  BY <1>1, <1>2, <1>3, <1>4, <2>1 DEF Consumed
<1>8. QED
  BY <1>3, <1>4, <1>6, <1>7, AppendedExecutes

LEMMA ConsumeExecutes ==
  ASSUME NEW s, NEW t \in Tx, Shape(s), TxType[t] = "l1", NEW r \in ConsumeOk(t, s)
  PROVE  Executes(s, r, t)
<1> DEFINE m == [s EXCEPT !.l1_messages = @ \cup {TxNonce[t]}]
<1>1. ~HasNonce(t)
  BY DEF HasNonce
<1>2. TxNonce[t] \notin s.l1_messages /\ r \in Accepted(t, run_execute(t, m))
  BY Zenon DEF ConsumeOk
<1>3. /\ DOMAIN m = Fields
      /\ m.nonces = s.nonces /\ m.classes = s.classes
      /\ m.l1_messages = s.l1_messages \cup {TxNonce[t]}
      /\ m.pending = s.pending /\ m.bodies = s.bodies /\ m.seq_addr_update = s.seq_addr_update
  BY DEF Shape, Fields
<1> HIDE DEF m
<1>4. \A e \in run_execute(t, m) : Untouched(m, e)
  BY <1>3, CodeUntouched
<1>5. Appended(m, r, t)
  BY <1>2, <1>3, <1>4, AcceptedAppends
<1>6. ~Consumed(s, t) /\ Consumed(m, t)
  BY <1>1, <1>2, <1>3 DEF Consumed
<1>7. m.nonces \in [Account -> Nat] /\ \A a \in Account : s.nonces[a] <= m.nonces[a]
  BY <1>3 DEF Shape
<1>8. QED
  BY <1>2, <1>3, <1>5, <1>6, <1>7, AppendedExecutes

----------------------------------------------------------------------------
(* The block *)

\* on_finalize keeps the invariant of the storage it seals.
LEMMA StoreBlockStep ==
  ASSUME NEW s, SInv(s), NEW flag
  PROVE  SInv(store_block([s EXCEPT !.seq_addr_update = flag]))
<1> DEFINE u == [s EXCEPT !.seq_addr_update = flag]
           r == store_block(u)
<1>1. /\ DOMAIN u = Fields /\ u.nonces = s.nonces /\ u.classes = s.classes
      /\ u.l1_messages = s.l1_messages /\ u.pending = s.pending /\ u.bodies = s.bodies
  BY DEF SInv, Shape, Fields
<1> HIDE DEF u
<1>2. /\ DOMAIN r = Fields /\ r.nonces = u.nonces /\ r.classes = u.classes
      /\ r.l1_messages = u.l1_messages /\ r.pending = <<>>
      /\ r.bodies = Append(u.bodies, u.pending)
  BY <1>1 DEF store_block, Fields
<1> HIDE DEF r
<1>3. Shape(r)
  BY <1>1, <1>2 DEF SInv, Shape
<1>4. Positions(r) = Positions(s) /\ \A p \in Positions(s) : At(r, p) = At(s, p)
  BY <1>1, <1>2, SealPosition DEF SInv
<1>5. ASSUME NEW p \in Positions(r) PROVE Consumed(r, At(r, p))
  BY <1>1, <1>2, <1>4 DEF SInv, Consumed
<1>6. Unique(r)
  BY <1>4 DEF SInv, Unique
<1>7. L1Exact(r)
  BY <1>1, <1>2, <1>4 DEF SInv, L1Exact
<1>8. SInv(r)
  BY <1>3, <1>5, <1>6, <1>7 DEF SInv
<1>9. QED  BY <1>8 DEF r, u

LEMMA GenesisInv == SInv(GenesisStorage)
<1> DEFINE g == GenesisStorage
<1>1. /\ DOMAIN g = Fields
      /\ g.nonces = [a \in Account |-> 0]
      /\ g.l1_messages = {} /\ g.pending = <<>> /\ g.bodies = Append(<<>>, <<>>)
  BY DEF GenesisStorage, store_block, Fields
<1> HIDE DEF g
<1>2. Shape(g)
  BY <1>1 DEF Shape
<1>3. Positions(g) = {}
  <2>1. Bodies(g) = Append(Append(<<>>, <<>>), <<>>)
    BY <1>1 DEF Bodies
  <2>2. ASSUME NEW i \in DOMAIN Bodies(g) PROVE DOMAIN Bodies(g)[i] = {}
    <3>1. <<>> \in Seq({}) /\ <<<<>>>> \in Seq(Seq({})) /\ Append(<<>>, <<>>) = <<<<>>>>
      OBVIOUS
    <3>2. DOMAIN Bodies(g) = 1..2 /\ Bodies(g)[1] = <<>> /\ Bodies(g)[2] = <<>>
      BY <2>1, <3>1
    <3>3. QED  BY <2>2, <3>2
  <2>3. QED  BY <2>2, PositionIff
<1>4. QED
  BY <1>1, <1>2, <1>3 DEF SInv, Unique, L1Exact, g

Dispatched(t) == invoke(t) \/ declare(t) \/ deploy_account(t) \/ consume_l1_message(t)

\* A dispatchable is rolled back or executes its transaction.
LEMMA DispatchExecutes ==
  ASSUME NEW t \in Tx, Shape(storage), Dispatched(t)
  PROVE  /\ committed' = committed /\ panicked' = panicked
         /\ storage' = storage \/ Executes(storage, storage', t)
<1>1. ASSUME NEW results, Dispatch(t, results), \A r \in results : Executes(storage, r, t)
      PROVE  /\ committed' = committed /\ panicked' = panicked
             /\ storage' = storage \/ Executes(storage, storage', t)
  BY <1>1 DEF Dispatch
<1>2. CASE invoke(t)
  BY <1>1, <1>2, InvokeExecutes DEF invoke
<1>3. CASE declare(t)
  BY <1>1, <1>3, DeclareExecutes DEF declare
<1>4. CASE deploy_account(t)
  BY <1>1, <1>4, DeployExecutes DEF deploy_account
<1>5. CASE consume_l1_message(t)
  BY <1>1, <1>5, ConsumeExecutes DEF consume_l1_message
<1>6. QED  BY <1>2, <1>3, <1>4, <1>5 DEF Dispatched

LEMMA IInvStep == IInv /\ [Next]_vars => IInv'
<1> SUFFICES ASSUME IInv, [Next]_vars PROVE IInv'
  OBVIOUS
<1>1. Shape(storage) /\ SInv(storage) /\ SInv(committed)
  BY DEF IInv, SInv
<1>2. ASSUME NEW t \in Tx, committed' = committed,
             storage' = storage \/ Executes(storage, storage', t)
      PROVE  IInv'
  <2>1. SInv(storage')
    BY <1>1, <1>2, ExecutesStep
  <2>2. QED  BY <1>1, <1>2, <2>1 DEF IInv
<1>3. CASE UNCHANGED <<storage, committed>>
  BY <1>3 DEF IInv
<1>4. CASE storage' = committed /\ committed' = committed
  BY <1>1, <1>4 DEF IInv
<1>5. ASSUME NEW t \in Tx, validate_unsigned(t) \/ Evict(t) PROVE IInv'
  BY <1>3, <1>5 DEF validate_unsigned, Evict
<1>6. CASE initialize_block \/ OmitInherent
  BY <1>3, <1>6 DEF initialize_block, OmitInherent
<1>7. CASE set_sequencer_address
  <2>1. committed' = committed /\ storage' = [storage EXCEPT !.seq_addr_update = TRUE]
    BY <1>7, Zenon DEF set_sequencer_address
  <2>2. SInv([storage EXCEPT !.seq_addr_update = TRUE])
    <3> DEFINE r == [storage EXCEPT !.seq_addr_update = TRUE]
    <3>1. /\ DOMAIN r = Fields /\ r.nonces = storage.nonces /\ r.classes = storage.classes
          /\ r.l1_messages = storage.l1_messages /\ r.pending = storage.pending
          /\ r.bodies = storage.bodies
      BY <1>1 DEF Shape, Fields
    <3> HIDE DEF r
    <3>2. Bodies(r) = Bodies(storage)
      BY <3>1 DEF Bodies
    <3>3. Positions(r) = Positions(storage) /\ \A p : At(r, p) = At(storage, p)
      BY <3>2 DEF Positions, At
    <3>4. SInv(r)
      BY <1>1, <3>1, <3>3 DEF SInv, Shape, Consumed, Unique, L1Exact
    <3>5. QED  BY <3>4 DEF r
  <2>3. QED  BY <1>1, <2>1, <2>2, Zenon DEF IInv
<1>8. ASSUME NEW t \in Tx, Dispatched(t) PROVE IInv'
  BY <1>1, <1>2, <1>8, DispatchExecutes
<1>9. CASE on_finalize
  <2> DEFINE r == store_block([storage EXCEPT !.seq_addr_update = FALSE])
  <2>1. (storage' = r /\ committed' = r) \/ (storage' = committed /\ committed' = committed)
    BY <1>9, Zenon DEF on_finalize, Seal
  <2>2. SInv(r)
    BY <1>1, StoreBlockStep, Zenon
  <2> HIDE DEF r
  <2>3. QED  BY <1>4, <2>1, <2>2 DEF IInv
<1>10. CASE GiveUp \/ Restart
  BY <1>4, <1>10 DEF GiveUp, Restart
<1>11. CASE UNCHANGED vars
  BY <1>3, <1>11 DEF vars
<1>12. QED
  BY <1>5, <1>6, <1>7, <1>8, <1>9, <1>10, <1>11 DEF Next, Dispatched

LEMMA Inductive == Spec => []IInv
<1>1. Init => IInv
  BY GenesisInv DEF Init, IInv
<1>2. QED  BY <1>1, IInvStep, PTL DEF Spec

\* No transaction is executed twice: the checks of the dispatchables alone stop a
\* replay, whatever the pool offers and however often blocks are given up.
THEOREM NoReplay == Spec => []ExecutedOnce
<1>1. IInv => ExecutedOnce
  BY DEF IInv, SInv, Unique, ExecutedOnce
<1>2. QED  BY <1>1, Inductive, PTL

\* L1Messages holds the nonces of the executed messages, each executed once.
THEOREM L1Delivery == Spec => []L1MessagesExactlyOnce
<1>1. IInv => L1MessagesExactlyOnce
  <2> SUFFICES ASSUME IInv PROVE L1MessagesExactlyOnce
    OBVIOUS
  <2> DEFINE l1 == {t \in Stored(storage) : TxType[t] = "l1"}
  <2>1. ASSUME NEW t PROVE t \in l1 <=> \E p \in Positions(storage) : At(storage, p) = t /\ TxType[t] = "l1"
    BY DEF Stored
  <2> HIDE DEF l1
  <2>2. L1Exact(storage) /\ \A p \in Positions(storage) : Consumed(storage, At(storage, p))
    BY DEF IInv, SInv
  <2>3. \A n : n \in storage.l1_messages <=> \E t \in l1 : n = TxNonce[t]
    BY <2>1, <2>2 DEF L1Exact, Consumed
  <2>4. \A t, u \in l1 : TxNonce[t] = TxNonce[u] => t = u
    BY <2>1, <2>2 DEF L1Exact
  <2>5. storage.l1_messages = {TxNonce[t] : t \in l1}
    BY <2>3
  <2>6. QED  BY <2>4, <2>5 DEF L1MessagesExactlyOnce, l1
<1>2. QED  BY <1>1, Inductive, PTL

----------------------------------------------------------------------------
(* The block after genesis *)

\* Until a block is sealed on top of genesis, SeqAddrUpdate is as the genesis
\* build left it, in the storage being built and in the committed one.
Flagged(s) == Len(s.bodies) >= 1 /\ (Len(s.bodies) = 1 => s.seq_addr_update = TRUE)

FInv ==
  /\ Flagged(storage) /\ Flagged(committed)
  /\ Len(storage.bodies) = Len(committed.bodies)
  /\ panicked = TRUE => Len(committed.bodies) > 1

LEMMA FInvStep == IInv /\ FInv /\ [Next]_vars => FInv'
<1> SUFFICES ASSUME IInv, FInv, [Next]_vars PROVE FInv'
  OBVIOUS
<1>1. /\ Shape(storage) /\ DOMAIN storage = Fields
      /\ storage.bodies \in Seq(Seq(Tx)) /\ storage.pending \in Seq(Tx)
  BY DEF IInv, SInv, Shape
<1>2. CASE UNCHANGED <<storage, committed, panicked>>
  BY <1>2 DEF FInv, Flagged
<1>3. CASE storage' = committed /\ UNCHANGED <<committed, panicked>>
  BY <1>3 DEF FInv, Flagged
<1>4. ASSUME NEW t \in Tx, validate_unsigned(t) \/ Evict(t) PROVE FInv'
  BY <1>2, <1>4 DEF validate_unsigned, Evict
<1>5. CASE initialize_block \/ OmitInherent
  BY <1>2, <1>5 DEF initialize_block, OmitInherent
<1>6. CASE set_sequencer_address
  <2>1. /\ UNCHANGED <<committed, panicked>>
        /\ storage' = [storage EXCEPT !.seq_addr_update = TRUE]
    BY <1>6, Zenon DEF set_sequencer_address
  <2>2. storage'.bodies = storage.bodies
    BY <1>1, <2>1 DEF Fields
  <2>3. "seq_addr_update" \in DOMAIN storage
    BY <1>1 DEF Fields
  <2>4. storage'.seq_addr_update = TRUE
    BY <2>1, <2>3, Zenon
  <2>5. QED  BY <2>1, <2>2, <2>4 DEF FInv, Flagged
<1>7. ASSUME NEW t \in Tx, Dispatched(t) PROVE FInv'
  <2>1. /\ committed' = committed /\ panicked' = panicked
        /\ storage' = storage \/ Executes(storage, storage', t)
    BY <1>1, <1>7, DispatchExecutes
  <2>2. QED  BY <1>2, <2>1 DEF Executes, FInv, Flagged
<1>8. CASE on_finalize
  <2> DEFINE u == [storage EXCEPT !.seq_addr_update = FALSE]
             r == store_block(u)
  <2>1. CASE Seal(r)
    <3>1. storage' = r /\ committed' = r /\ panicked' = panicked
      BY <2>1 DEF Seal
    <3>2. DOMAIN u = Fields /\ u.bodies = storage.bodies /\ u.pending = storage.pending
      BY <1>1 DEF Fields
    <3> HIDE DEF u
    <3>3. r.bodies = Append(u.bodies, u.pending)
      BY <3>2 DEF store_block, Fields
    <3> HIDE DEF r
    <3>4. Len(r.bodies) = Len(storage.bodies) + 1 /\ Len(storage.bodies) \in Nat
      BY <1>1, <3>2, <3>3
    <3>5. Len(r.bodies) > 1
      BY <3>4 DEF FInv, Flagged
    <3>6. QED  BY <3>1, <3>4, <3>5 DEF FInv, Flagged
  <2>2. CASE ~storage.seq_addr_update /\ storage' = committed /\ committed' = committed
    <3>1. storage.seq_addr_update # TRUE
      BY <2>2, Zenon
    <3>2. Len(committed.bodies) > 1
      <4>1. Len(storage.bodies) # 1
        BY <3>1, Zenon DEF FInv, Flagged
      <4>2. Len(storage.bodies) \in Nat
        BY <1>1
      <4>3. Len(storage.bodies) >= 1 /\ Len(storage.bodies) = Len(committed.bodies)
        BY Zenon DEF FInv, Flagged
      <4>4. ASSUME NEW n \in Nat, n # 1, n >= 1 PROVE n > 1
        BY <4>4
      <4>5. Len(storage.bodies) > 1
        BY <4>1, <4>2, <4>3, <4>4, Zenon
      <4>6. QED  BY <4>3, <4>5, Zenon
    <3>3. QED  BY <2>2, <3>2 DEF FInv, Flagged
  <2>3. QED  BY <1>8, <2>1, <2>2, Zenon DEF on_finalize
<1>9. CASE GiveUp \/ Restart
  BY <1>3, <1>9 DEF GiveUp, Restart
<1>10. CASE UNCHANGED vars
  BY <1>2, <1>10 DEF vars
<1>11. QED
  BY <1>4, <1>5, <1>6, <1>7, <1>8, <1>9, <1>10 DEF Next, Dispatched

LEMMA FInvInit == Init => FInv
<1> DEFINE g == GenesisStorage
<1>1. g.bodies = <<<<>>>> /\ g.seq_addr_update = TRUE
  BY DEF GenesisStorage, store_block
<1> HIDE DEF g
<1>2. Flagged(g)
  BY <1>1 DEF Flagged
<1>3. QED  BY <1>2 DEF Init, FInv, g

\* The block after genesis is always sealed: on_finalize panics only on top of a
\* block that took the flag away.
THEOREM FirstBlock == Spec => []FirstBlockSealed
<1>1. FInv => FirstBlockSealed
  BY Zenon DEF FInv, FirstBlockSealed
<1>2. QED  BY <1>1, FInvInit, FInvStep, Inductive, PTL DEF Spec
=============================================================================
