------------------------------- MODULE Node -------------------------------
(***************************************************************************)
(* The life of a node on one machine: the setup command writes the files   *)
(* of a configuration directory, run_node starts a process over the        *)
(* databases it finds, the process authors blocks in its sealing mode,     *)
(* answers predeployed_accounts, and ends; purge-chain removes a database. *)
(* Commands may run next to each other and be killed at any step.          *)
(*                                                                         *)
(* A place is a base path: the default one, or the temporary directory of  *)
(* a --dev process.  Each place has, for each kind of database, the chain  *)
(* (Substrate) and the Starknet database.                                  *)
(***************************************************************************)
EXTENDS Genesis, FiniteSets

CONSTANTS
  Chains,      \* values of --chain
  Sources,     \* the assets of an index.json, in order
  Options,     \* the command lines of run_node
  Slots,       \* the slots of the system time, after every mock timestamp
  MaxCommands, \* setups and starts
  MaxBlocks

VARIABLES
  chain,       \* --chain of every command
  dir,         \* the configuration directory of the chain
  setup,       \* the setup command
  disks,       \* the databases of each place
  node,        \* the process
  answer,      \* of predeployed_accounts, if it is the last step
  apart        \* ghost: the databases of a kind were not always opened together

vars == <<chain, dir, setup, disks, node, answer, apart>>

Kinds == {"RocksDb", "ParityDb"}
Places == {"base", "tmp"}
SLOT_DURATION == 2
MinimumPeriod == 1
NoChain == [exists |-> FALSE, genesis |-> Panicked, blocks |-> <<>>, slot |-> 0, id |-> 0]
NoDb == [exists |-> FALSE, of |-> {}]
NoDisk == [substrate |-> [k \in Kinds |-> NoChain], starknet |-> [k \in Kinds |-> NoDb]]
Off == [state |-> "off"]
NoAnswer == [file |-> Missing, accounts |-> {}, kind |-> "none"]

Init ==
  /\ chain \in Chains
  /\ dir = [f \in Files |-> Missing]
  /\ setup = [state |-> "idle", todo |-> <<>>, source |-> <<>>, created |-> FALSE, runs |-> 0]
  /\ disks = [p \in Places |-> NoDisk]
  /\ node = Off @@ [starts |-> 0]
  /\ answer = NoAnswer
  /\ apart = FALSE

----------------------------------------------------------------------------
(* SetupCmd::run *)

\* The index is loaded and parsed before anything is written; index.json
\* itself is read by no one.
SetupBegin(source) ==
  /\ setup.state # "writing" /\ setup.runs + node.starts < MaxCommands
  /\ setup' = [state |-> "writing", todo |-> source, source |-> source, created |-> FALSE,
                runs |-> setup.runs + 1]
  /\ answer' = NoAnswer
  /\ UNCHANGED <<chain, dir, disks, node, apart>>

Writing == setup.state = "writing" /\ setup.todo # <<>>

\* Mutation: an asset whose hash differs is skipped.
SetupAsset_Skipped ==
  LET asset == Head(setup.todo)
      refused == asset.content = Missing \/ asset.sha3_256 \notin {"none", asset.content} IN
  /\ Writing /\ ~setup.created
  /\ dir' = IF refused THEN dir ELSE [dir EXCEPT ![asset.name] = Partial]
  /\ setup' = IF refused THEN [setup EXCEPT !.todo = Tail(@)]
              ELSE [setup EXCEPT !.created = TRUE]
  /\ answer' = NoAnswer
  /\ UNCHANGED <<chain, disks, node, apart>>

\* load_asset, the comparison with the hash of the index, File::create.
SetupAsset ==
  LET asset == Head(setup.todo)
      refused == asset.content = Missing \/ asset.sha3_256 \notin {"none", asset.content} IN
  /\ Writing /\ ~setup.created
  /\ dir' = IF refused THEN dir ELSE [dir EXCEPT ![asset.name] = Partial]
  /\ setup' = IF refused THEN [setup EXCEPT !.state = "failed", !.todo = <<>>]
              ELSE [setup EXCEPT !.created = TRUE]
  /\ answer' = NoAnswer
  /\ UNCHANGED <<chain, disks, node, apart>>

\* io::copy into the created file.
SetupCopy ==
  /\ Writing /\ setup.created
  /\ dir' = [dir EXCEPT ![Head(setup.todo).name] = Head(setup.todo).content]
  /\ setup' = [setup EXCEPT !.todo = Tail(@), !.created = FALSE]
  /\ answer' = NoAnswer
  /\ UNCHANGED <<chain, disks, node, apart>>

SetupEnd ==
  /\ setup.state = "writing" /\ setup.todo = <<>>
  /\ setup' = [setup EXCEPT !.state = "done"]
  /\ answer' = NoAnswer
  /\ UNCHANGED <<chain, dir, disks, node, apart>>

SetupKilled ==
  /\ setup.state = "writing"
  /\ setup' = [setup EXCEPT !.state = "failed", !.todo = <<>>, !.created = FALSE]
  /\ answer' = NoAnswer
  /\ UNCHANGED <<chain, dir, disks, node, apart>>

----------------------------------------------------------------------------
(* run_node *)

\* override_dev_environment: --dev is --chain dev --alice --tmp.
override_dev_environment(opts) ==
  IF opts.dev THEN [opts EXCEPT !.authority = TRUE] ELSE opts

\* A layer without its configuration file or with a bad one, or a bad L1
\* configuration; the settlement configuration is only parsed by new_full.
ConfigRefused(opts) ==
  opts.da = "missing" \/ opts.l1_messages = "invalid" \/ opts.settlement = "missing"

\* Mutation: Auto takes the ParityDb first.
open_database_ParityFirst(dbs, database, fault) ==
  IF database # "Auto" THEN database
  ELSE IF dbs["ParityDb"].exists \/ ~dbs["RocksDb"].exists THEN "ParityDb" ELSE "RocksDb"

\* The kind of database that is opened.  Auto takes the RocksDb if it can be
\* opened; only new_db_backend tells one that is missing from one that fails.
open_database(dbs, database, fault) ==
  IF database # "Auto" THEN database
  ELSE IF dbs["RocksDb"].exists /\ fault # "rocksdb" THEN "RocksDb" ELSE "ParityDb"
new_db_backend(dbs, database) ==
  IF database # "Auto" THEN database
  ELSE IF dbs["RocksDb"].exists THEN "RocksDb" ELSE "ParityDb"

\* Mutation: the genesis block is committed on every start.
CommitGenesis_Always(db, storage, id) ==
  [exists |-> TRUE, genesis |-> storage, blocks |-> <<>>, slot |-> 0, id |-> id]

\* new_full_parts_with_genesis_builder commits the genesis block of a chain
\* that has none.
CommitGenesis(db, storage, id) ==
  IF db.genesis.built THEN db
  ELSE [exists |-> TRUE, genesis |-> storage, blocks |-> <<>>, slot |-> 0, id |-> id]

\* The workers new_full spawns.
WorkerTasks(opts) ==
  {"mapping-sync"}
    \cup (IF opts.da = "ok" THEN {"commitment-state-diff", "da-worker"} ELSE {})
    \cup (IF opts.settlement = "ok" THEN {"settlement"} ELSE {})

\* With another sealing than the default one an authority returns after
\* manual-seal: the L1 listener does not run.
AuthorityTasks(opts) ==
  IF opts.authority /\ opts.sealing # "Default" THEN {"manual-seal"}
  ELSE (IF opts.authority THEN {"aura"} ELSE {})
         \cup (IF opts.sealing = "Default" THEN {"grandpa"} ELSE {})
         \cup (IF opts.l1_messages = "ok" THEN {"l1-listener"} ELSE {})

\* What a start finds and makes.  The genesis storage is built on every start,
\* after the chain is opened and before the Starknet database is.
Opening(opts, fault) ==
  LET place == IF opts.dev THEN "tmp" ELSE "base"
      disk == disks[place] IN
  [place |-> place,
   kind |-> new_db_backend(disk.substrate, opts.database),
   starknet |-> open_database(disk.starknet, opts.database, fault),
   storage |-> load_spec(chain, dir, opts.sealing)
                 @@ [source |-> IF setup.state = "done" THEN setup.source ELSE <<>>]]

OpenChain(o) ==
  [disks EXCEPT ![o.place].substrate[o.kind] =
     IF o.storage.built THEN CommitGenesis(@, o.storage, node.starts + 1)
     ELSE [@ EXCEPT !.exists = TRUE]]

\* MadaraBackend::open: the directory of the kind, made if it is missing.
OpenStarknet(o) == [OpenChain(o) EXCEPT ![o.place].starknet[o.starknet].exists = TRUE]

\* A start that ends in an error, a panic or a kill leaves what it opened; a
\* temporary directory is gone.
Ends(o, opened, parted) ==
  /\ node' = Off @@ [starts |-> node.starts + 1]
  /\ disks' = IF o.place = "tmp" THEN [disks EXCEPT !["tmp"] = NoDisk] ELSE opened
  /\ apart' = (apart \/ (parted /\ o.place = "base"))

\* run_node: the configurations; new_partial: the chain, its genesis, the
\* Starknet database; new_full: the settlement configuration, the tasks.
Start(options, fault) ==
  LET opts == override_dev_environment(options)
      o == Opening(opts, fault)
      opened == OpenStarknet(o)
      unopened == o.starknet = "RocksDb" /\ fault = "rocksdb" IN
  /\ node.state = "off" /\ setup.runs + node.starts < MaxCommands
  /\ opts.dev => chain = "dev"
  /\ fault = "rocksdb" => opts.database = "RocksDb"
                           \/ (opts.database = "Auto" /\ disks[o.place].starknet["RocksDb"].exists)
  /\ IF ConfigRefused(opts) THEN Ends(o, disks, FALSE)
     ELSE IF ~o.storage.built \/ fault = "killed" \/ unopened THEN Ends(o, OpenChain(o), TRUE)
     ELSE IF opts.settlement = "unreadable" THEN Ends(o, opened, fault # "none")
     ELSE /\ disks' = opened
          /\ node' = [state |-> "running", starts |-> node.starts + 1, place |-> o.place,
                      kind |-> o.kind, starknet |-> o.starknet,
                      tasks |-> WorkerTasks(opts) \cup AuthorityTasks(opts), clock |-> 0, authored |-> "none"]
          /\ apart' = (apart \/ (fault # "none" /\ o.place = "base"))
  /\ answer' = NoAnswer
  /\ UNCHANGED <<chain, dir, setup>>

Running == node.state = "running"
Chain == disks[node.place].substrate[node.kind]

\* The process is stopped, or one of its essential tasks ended: then the task
\* manager takes the service down.  A temporary directory goes with it.
Stop ==
  /\ Running
  /\ node' = Off @@ [starts |-> node.starts]
  /\ disks' = IF node.place = "tmp" THEN [disks EXCEPT !["tmp"] = NoDisk] ELSE disks
  /\ answer' = NoAnswer
  /\ UNCHANGED <<chain, dir, setup, apart>>

----------------------------------------------------------------------------
(* Authoring *)

\* pallet_timestamp takes the timestamp of the inherent data, or the least one
\* that it accepts after the one of the parent.
inherent_timestamp(db, data) ==
  LET least == MinimumPeriod + IF db.blocks = <<>> THEN 0 ELSE Last(db.blocks) IN
  IF data < least THEN least ELSE data

\* Aura asserts that the timestamp is in its current slot.
AuraAccepts(timestamp, slot) == timestamp \div SLOT_DURATION = slot

\* Mutation: the validation is not suppressed.
on_timestamp_set_Always(db, timestamp, slot) == AuraAccepts(timestamp, slot)

\* ConsensusOnTimestampSet asks for the sealing mode in the storage.
on_timestamp_set(db, timestamp, slot) ==
  db.genesis.sealing # "Default" \/ AuraAccepts(timestamp, slot)

\* A block is built and imported, or the assertion panics and there is none.
Author(task, data, slot) ==
  LET timestamp == inherent_timestamp(Chain, data)
      built == on_timestamp_set(Chain, timestamp, slot) IN
  /\ Len(Chain.blocks) < MaxBlocks
  /\ disks' = IF ~built THEN disks
              ELSE [disks EXCEPT ![node.place].substrate[node.kind] =
                      [@ EXCEPT !.blocks = Append(@, timestamp), !.slot = slot]]
  /\ node' = [node EXCEPT !.clock = IF task = "manual-seal" THEN data ELSE @,
                          !.authored = IF built THEN "ok" ELSE task]

\* run_manual_seal_authorship: a command of the RPC, or a transaction in the
\* pool.  The mock clock of the process advances also for a block that fails;
\* the digest has no slot, so that Aura keeps the one it knows.
Seal ==
  /\ Running /\ "manual-seal" \in node.tasks
  /\ node.clock < MaxBlocks * SLOT_DURATION
  /\ Author("manual-seal", node.clock + SLOT_DURATION, Chain.slot)
  /\ answer' = NoAnswer
  /\ UNCHANGED <<chain, dir, setup, apart>>

\* start_aura: the slot of the system time, later than the last one.
AuraSlot(slot, offset) ==
  /\ Running /\ "aura" \in node.tasks /\ slot > Chain.slot
  /\ Author("aura", slot * SLOT_DURATION + offset, slot)
  /\ answer' = NoAnswer
  /\ UNCHANGED <<chain, dir, setup, apart>>

\* The mapping sync worker writes blocks of the chain to the Starknet database.
SyncMapping ==
  /\ Running
  /\ disks' = [disks EXCEPT ![node.place].starknet[node.starknet].of = @ \cup {Chain.id}]
  /\ answer' = NoAnswer
  /\ UNCHANGED <<chain, dir, setup, node, apart>>

----------------------------------------------------------------------------
(* Other commands *)

\* purge-chain removes the directory of the chain only.
Purge(kind) ==
  /\ ~Running /\ disks["base"].substrate[kind].exists
  /\ disks' = [disks EXCEPT !["base"].substrate[kind] = NoChain]
  /\ apart' = TRUE
  /\ answer' = NoAnswer
  /\ UNCHANGED <<chain, dir, setup, node>>

\* The directory of a --dev process is the temporary one: it has no files.
load_genesis_data(place) == IF place = "tmp" THEN Missing ELSE dir[GenesisFile]

\* Mutation: the accounts are all the contracts of the genesis storage.
predeployed_accounts_Contracts ==
  LET file == load_genesis_data(node.place) IN
  /\ Running
  /\ answer' = [file |-> file, accounts |-> DOMAIN Chain.genesis.contracts,
                kind |-> IF file \in DOMAIN GenesisData THEN "accounts" ELSE "error"]
  /\ UNCHANGED <<chain, dir, setup, disks, node, apart>>

\* The genesis file is read anew, then balanceOf of the fee token of the file is
\* called for each of its accounts, on the latest block; expect panics if the
\* call fails.
predeployed_accounts ==
  LET file == load_genesis_data(node.place)
      data == GenesisData[file] IN
  /\ Running
  /\ answer' = IF file \notin DOMAIN GenesisData
               THEN [file |-> file, accounts |-> {}, kind |-> "error"]
               ELSE IF data.accounts # {} /\ data.fee_token \notin DOMAIN Chain.genesis.contracts
               THEN [file |-> file, accounts |-> {}, kind |-> "panic"]
               ELSE [file |-> file, accounts |-> data.accounts, kind |-> "accounts"]
  /\ UNCHANGED <<chain, dir, setup, disks, node, apart>>

Faults == {"none", "rocksdb", "killed"}

Next ==
  \/ \E source \in Sources : SetupBegin(source)
  \/ SetupAsset
  \/ SetupCopy
  \/ SetupEnd
  \/ SetupKilled
  \/ \E opts \in Options, fault \in Faults : Start(opts, fault)
  \/ Stop
  \/ Seal
  \/ \E slot \in Slots, offset \in 0..(SLOT_DURATION - 1) : AuraSlot(slot, offset)
  \/ SyncMapping
  \/ \E kind \in Kinds : Purge(kind)
  \/ predeployed_accounts

Spec == Init /\ [][Next]_vars

----------------------------------------------------------------------------
(* Properties *)

Databases == {disks[p].substrate[k] : p \in Places, k \in Kinds}

\* Every contract and every compiled class hash has a class, and no class was
\* read from a file that a setup was still writing, or was killed in.
Executable(genesis) ==
  /\ \A a \in DOMAIN genesis.contracts : genesis.contracts[a] \in DOMAIN genesis.classes
  /\ DOMAIN genesis.compiled \subseteq DOMAIN genesis.classes
  /\ \A h \in DOMAIN genesis.classes : genesis.classes[h] \in DOMAIN ClassVersion

\* A genesis block that was committed can be executed, whatever a setup was doing
\* (the assertions of the pallet's build, the expects of genesis_loader.rs).  A
\* chain that was first started after a setup that ended without an error has the
\* genesis data and the classes of the source of that setup, whatever earlier
\* setups left behind (the hash comparison of SetupCmd::run).
GenesisOfSource ==
  \A db \in Databases : db.genesis.built =>
    LET source == db.genesis.source
        listed == {source[i].content : i \in DOMAIN source} IN
    /\ Executable(db.genesis)
    /\ source # <<>> =>
         /\ \A i \in DOMAIN source : source[i].sha3_256 \in {"none", source[i].content}
         /\ {db.genesis.data} \cup {db.genesis.classes[h] : h \in DOMAIN db.genesis.classes}
              \subseteq listed

\* The genesis of a chain never changes under a later start, whatever the
\* files of the directory and the sealing mode of that start are
\* (MadaraGenesisBlockBuilder builds a storage every time).
GenesisKept ==
  [][\A p \in Places, k \in Kinds :
       LET before == disks[p].substrate[k]
           after == disks'[p].substrate[k] IN
       before.genesis.built /\ after.exists
         => after.genesis = before.genesis /\ after.id = before.id
            /\ IsPrefix(before.blocks, after.blocks)]_vars

\* A block can only fail to build when manual sealing runs on a chain whose
\* genesis has the default sealing mode: Aura always finds the timestamp in
\* its slot, also after mock timestamps and restarts of the mock clock, and
\* manual sealing does so on every chain made for it ("suppress Aura
\* validations in case of non-default sealing", runtime/src/pallets.rs).
AuthoringSucceeds ==
  Running /\ node.authored \notin {"none", "ok"}
    => node.authored = "manual-seal" /\ Chain.genesis.sealing = "Default"

\* The Starknet database of a process has blocks of its chain only, for every
\* order of starts with the three values of --database, unless the chain was
\* purged or a start ended between the opening of the two databases or on a
\* RocksDb that could not be opened (MadaraBackend::open).
DatabaseOfChain ==
  Running /\ ~apart => disks[node.place].starknet[node.starknet].of \subseteq {Chain.id}

\* predeployed_accounts answers with the predeployed accounts of the chain
\* when the genesis file is still the one the chain was made from, and the fee
\* token is one of its contracts.
PredeployedOfChain ==
  Running /\ answer.kind # "none" /\ answer.file = Chain.genesis.data
    /\ Chain.genesis.fee_token \in DOMAIN Chain.genesis.contracts
    => answer.kind = "accounts" /\ answer.accounts = GenesisData[Chain.genesis.data].accounts
=============================================================================
