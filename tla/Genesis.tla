------------------------------ MODULE Genesis ------------------------------
(***************************************************************************)
(* From the files of a configuration directory to the genesis storage of a *)
(* chain: load_genesis and the two chain specifications                    *)
(* (node/src/chain_spec.rs), the conversion of the genesis data            *)
(* (pallets/starknet/src/genesis_loader.rs) and the build of the Starknet  *)
(* pallet.                                                                 *)
(*                                                                         *)
(* A directory maps file names to contents; a content is a name, and       *)
(* GenesisData and ClassVersion say which contents parse as genesis data   *)
(* and as contract classes.  A panic is a record that is not built.        *)
(***************************************************************************)
EXTENDS Integers, Sequences, SequencesExt, TLC

CONSTANTS
  Files,         \* the file names of a directory
  GenesisFile,   \* genesis-assets/genesis.json
  GenesisData,   \* content -> genesis data, for the contents that parse
  ClassVersion   \* content -> version of the class, for the contents that parse

Panicked == [built |-> FALSE]
Missing == "missing"
Partial == "partial"

\* insert, one pair after the other: the last one of a key stays.
Insert(pairs) == FoldLeft(LAMBDA map, pair : (pair[1] :> pair[2]) @@ map, <<>>, pairs)

----------------------------------------------------------------------------

\* A file that is missing, truncated or of another version panics (expect,
\* unimplemented).
ClassReadable(dir, class) ==
  /\ dir[class.path] \in DOMAIN ClassVersion
  /\ class.version \in {0, 1} /\ ClassVersion[dir[class.path]] = class.version

\* From<GenesisLoader> for GenesisConfig: the class hashes with the classes.
ClassesOf(dir, data) ==
  Insert([i \in DOMAIN data.contract_classes |->
            <<data.contract_classes[i].hash, dir[data.contract_classes[i].path]>>])
Loads(dir, data) == \A i \in DOMAIN data.contract_classes : ClassReadable(dir, data.contract_classes[i])

\* The storage, with the file the data comes from as a ghost.
Storage(dir, data, sealing) ==
  [built |-> TRUE, classes |-> ClassesOf(dir, data), compiled |-> Insert(data.sierra_to_casm),
   contracts |-> Insert(data.contracts), fee_token |-> data.fee_token,
   sealing |-> sealing, data |-> dir[GenesisFile]]

\* BuildGenesisConfig::build with its two assertions.
build(dir, data, sealing) ==
  IF /\ Loads(dir, data)
     /\ \A i \in DOMAIN data.sierra_to_casm : data.sierra_to_casm[i][1] \in DOMAIN ClassesOf(dir, data)
     /\ \A i \in DOMAIN data.contracts : data.contracts[i][2] \in DOMAIN ClassesOf(dir, data)
  THEN Storage(dir, data, sealing) ELSE Panicked

load_genesis(dir) ==
  IF dir[GenesisFile] \in DOMAIN GenesisData
  THEN [built |-> TRUE, data |-> GenesisData[dir[GenesisFile]]] ELSE Panicked

\* The chain specification puts the sealing mode in the storage and prints
\* four contracts; there have to be that many.
development_config(dir, sealing) ==
  LET loaded == load_genesis(dir) IN
  IF loaded.built /\ Len(loaded.data.contracts) >= 4
  THEN build(dir, loaded.data, sealing) ELSE Panicked

\* No sealing mode is stored: the runtime reads the default one.
local_testnet_config(dir) ==
  LET loaded == load_genesis(dir) IN
  IF loaded.built THEN build(dir, loaded.data, "Default") ELSE Panicked

\* load_spec: "dev", or "", "local" and "madara-local".
load_spec(chain, dir, sealing) ==
  IF chain = "dev" THEN development_config(dir, sealing) ELSE local_testnet_config(dir)
=============================================================================
