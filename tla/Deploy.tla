------------------------------- MODULE Deploy -------------------------------
(***************************************************************************)
(* The deploy tool (deployment/deploy, main.kt).  One run of it is for one *)
(* node (the NODE_TYPE of its environment) and goes through the contract   *)
(* types in their order: it reads the version in the contract's Cargo.toml *)
(* and looks for the record of that version and node under deployed/.  If  *)
(* there is one, it is read; if not, the wasm file is uploaded and the     *)
(* record written.                                                         *)
(*                                                                         *)
(* The records are all that a run knows of earlier runs.  A run may end    *)
(* between any two steps, by a crash or by an exception of the client; it  *)
(* is then started again for the same node.  Between and during runs the   *)
(* developer raises versions and compiles, two separate operations on      *)
(* separate files, and a local chain may be discarded and started afresh   *)
(* (Makefile, start-server).                                               *)
(*                                                                         *)
(* Left out: wallet, faucet and the parsing of Cargo.toml.                 *)
(***************************************************************************)
EXTENDS Naturals, Sequences, FiniteSets

CONSTANTS
  Nodes,             \* node types, each with a chain
  LocalNodes,        \* those whose chain may be discarded
  NoFile, CutShort,  \* a record that does not exist, or was not written out
  SnakeCaseIsRead,   \* whether a complete record can be decoded: it is written
                     \* with names in snake case and read with the default
                     \* Json, so the names in CodeInfo (a class of secretk)
                     \* decide
  MaxEdits, MaxInterruptions, MaxResets  \* bounds of the model

ASSUME LocalNodesAreNodes == LocalNodes \subseteq Nodes
ASSUME SnakeCaseIsReadOrNot == SnakeCaseIsRead \in BOOLEAN
ASSUME BoundsAreNat ==
  MaxEdits \in Nat /\ MaxInterruptions \in Nat /\ MaxResets \in Nat

VARIABLES
  source,        \* of each contract: the version in Cargo.toml, the wasm file
  records,       \* the files under deployed/
  chains,        \* the code stored on each node's chain, and on its
                 \* predecessors that were discarded, the present one last
  run,           \* the run of the tool
  interruptions  \* runs that were cut off
vars == <<source, records, chains, run, interruptions>>

ContractTypes == << "snip721-dealer", "snip721-migratable" >>
Contracts == { ContractTypes[i] : i \in DOMAIN ContractTypes }

Versions == 1..(MaxEdits + 1)

\* What a compilation results in; it stands for the wasm file and its hash.
Code == [contract : Contracts, version : Versions, build : 1..(MaxEdits + 1)]

\* Where code is: its chain (the number of the node's chain, which the file
\* does not contain), its id there, and its hash.
CodeInfo == [chain : Nat, code_id : Nat, code_hash : Code]

Path == [contract : Contracts, version : Versions, node : Nodes]

ASSUME FileStatesDiffer ==
  NoFile # CutShort /\ NoFile \notin CodeInfo /\ CutShort \notin CodeInfo

-----------------------------------------------------------------------------
(* The tool. *)

Idle == run.at \in {"ready", "done", "failed"}

Fresh(at, node) ==
  [at |-> at, node |-> node, version |-> 1, code_info |-> NoFile,
   stored |-> << >>]

\* The process ends, and what it knew is lost.
Stop == run' = Fresh("failed", run.node)

\* main, for the node in the environment.
Start(node) ==
  /\ run.at \in {"ready", "done"}
  /\ run' = Fresh("check", node)
  /\ UNCHANGED <<source, records, chains, interruptions>>

\* A run that failed is started again.
Retry ==
  /\ run.at = "failed"
  /\ run' = Fresh("check", run.node)
  /\ UNCHANGED <<source, records, chains, interruptions>>

\* The contract type that the loop has arrived at.
Current == ContractTypes[Len(run.stored) + 1]
Looping == run.at = "check" /\ Len(run.stored) < Len(ContractTypes)

RecordPath(version) ==
  [contract |-> Current, version |-> version, node |-> run.node]

\* An entry of the map that storeUpdatedContracts returns; on to the next.
Report(version, code_info) ==
  run' = [run EXCEPT !.at = "check", !.version = 1, !.code_info = NoFile,
                     !.stored = Append(@, [version |-> version,
                                           code_info |-> code_info])]

\* Mutant: the record is not looked for.
CheckNothing ==
  /\ Looping
  /\ run' = [run EXCEPT !.at = "store", !.version = source[Current].version]
  /\ UNCHANGED <<source, records, chains, interruptions>>

\* Mutant: what was written cannot be read.
CheckUnreadable ==
  /\ Looping
  /\ LET version == source[Current].version
         file == records[RecordPath(version)]
     IN  \/ /\ file = NoFile
            /\ run' = [run EXCEPT !.at = "store", !.version = version]
         \/ file # NoFile /\ Stop
  /\ UNCHANGED <<source, records, chains, interruptions>>

Readable(file) == file \in CodeInfo /\ SnakeCaseIsRead

\* An incomplete record exists and cannot be decoded: the run fails.
CheckRecord ==
  /\ Looping
  /\ LET version == source[Current].version
         file == records[RecordPath(version)]
     IN  \/ /\ file = NoFile
            /\ run' = [run EXCEPT !.at = "store", !.version = version]
         \/ file # NoFile /\ ~Readable(file) /\ Stop
         \/ Readable(file) /\ Report(version, file)
  /\ UNCHANGED <<source, records, chains, interruptions>>

Chain(node) == Len(chains[node])

\* The wasm file is read and uploaded as it is now.
StoreCode ==
  /\ run.at = "store"
  /\ LET node == run.node
         wasm == source[Current].wasm
         codes == Append(chains[node][Chain(node)], wasm)
     IN  /\ chains' = [chains EXCEPT ![node][Chain(node)] = codes]
         /\ run' = [run EXCEPT !.at = "create",
                               !.code_info = [chain |-> Chain(node),
                                              code_id |-> Len(codes),
                                              code_hash |-> wasm]]
  /\ UNCHANGED <<source, records, interruptions>>

\* The file is created before its content is in it.
CreateRecord ==
  /\ run.at = "create"
  /\ records' = [records EXCEPT ![RecordPath(run.version)] = CutShort]
  /\ run' = [run EXCEPT !.at = "write"]
  /\ UNCHANGED <<source, chains, interruptions>>

\* Mutant: the record has the hash of the present wasm file.
WriteRecordRehashed ==
  /\ run.at = "write"
  /\ LET info == [run.code_info EXCEPT !.code_hash = source[Current].wasm]
     IN  /\ records' = [records EXCEPT ![RecordPath(run.version)] = info]
         /\ Report(run.version, info)
  /\ UNCHANGED <<source, chains, interruptions>>

\* Mutant: the content is never flushed to the file.
WriteRecordUnflushed ==
  /\ run.at = "write"
  /\ Report(run.version, run.code_info)
  /\ UNCHANGED <<source, records, chains, interruptions>>

WriteRecord ==
  /\ run.at = "write"
  /\ records' = [records EXCEPT ![RecordPath(run.version)] = run.code_info]
  /\ Report(run.version, run.code_info)
  /\ UNCHANGED <<source, chains, interruptions>>

Finish ==
  /\ run.at = "check" /\ ~Looping
  /\ run' = [run EXCEPT !.at = "done"]
  /\ UNCHANGED <<source, records, chains, interruptions>>

ToolStep == CheckRecord \/ StoreCode \/ CreateRecord \/ WriteRecord \/ Finish

-----------------------------------------------------------------------------
(* What happens to the tool. *)

\* A crash, or an exception of the client: the node cannot be reached, the
\* upload is refused, or its answer is lost.
Interrupt ==
  /\ ~Idle
  /\ interruptions < MaxInterruptions
  /\ Stop
  /\ interruptions' = interruptions + 1
  /\ UNCHANGED <<source, records, chains>>

\* Edits so far: versions raised and compilations.
EditsOf(c) == (source[c].version - 1) + (source[c].wasm.build - 1)
Edits == EditsOf("snip721-dealer") + EditsOf("snip721-migratable")

RaiseVersion(c) ==
  /\ Edits < MaxEdits
  /\ source' = [source EXCEPT ![c].version = @ + 1]
  /\ UNCHANGED <<records, chains, run, interruptions>>

Compile(c) ==
  /\ Edits < MaxEdits
  /\ source' = [source EXCEPT ![c].wasm = [contract |-> c,
                                           version |-> source[c].version,
                                           build |-> @.build + 1]]
  /\ UNCHANGED <<records, chains, run, interruptions>>

Reset(node) ==
  /\ Chain(node) <= MaxResets
  /\ chains' = [chains EXCEPT ![node] = Append(@, << >>)]
  /\ UNCHANGED <<source, records, run, interruptions>>

-----------------------------------------------------------------------------
Init ==
  /\ source = [c \in Contracts |->
                 [version |-> 1, wasm |-> [contract |-> c, version |-> 1, build |-> 1]]]
  /\ records = [p \in Path |-> NoFile]
  /\ chains = [n \in Nodes |-> << << >> >>]
  /\ \E n \in Nodes : run = Fresh("ready", n)
  /\ interruptions = 0

Next ==
  \/ \E n \in Nodes : Start(n)
  \/ Retry
  \/ CheckRecord \/ StoreCode \/ CreateRecord \/ WriteRecord \/ Finish
  \/ Interrupt
  \/ \E c \in Contracts : RaiseVersion(c) \/ Compile(c)
  \/ \E n \in LocalNodes : Reset(n)

Spec == Init /\ [][Next]_vars

\* A running tool goes on, and a run that failed is started again.
Fairness == WF_vars(ToolStep) /\ WF_vars(Retry)
FairSpec == Spec /\ Fairness

-----------------------------------------------------------------------------
\* Type correctness of the sources, the records, the chains and the run.
TypeOK ==
  /\ source \in [Contracts -> [version : Versions, wasm : Code]]
  /\ records \in [Path -> CodeInfo \cup {NoFile, CutShort}]
  /\ chains \in [Nodes -> Seq(Seq(Code))]
  /\ run \in [at : {"ready", "check", "store", "create", "write", "done", "failed"},
              node : Nodes, version : Versions,
              code_info : CodeInfo \cup {NoFile},
              stored : Seq([version : Versions, code_info : CodeInfo])]
  /\ interruptions \in Nat

\* Info says the truth about the node's chain.
OnChain(node, info) ==
  /\ info.chain \in DOMAIN chains[node]
  /\ info.code_id \in DOMAIN chains[node][info.chain]
  /\ chains[node][info.chain][info.code_id] = info.code_hash

FilesAreTrue ==
  \A p \in Path : records[p] \in CodeInfo => OnChain(p.node, records[p])
ResultIsTrue ==
  \A i \in DOMAIN run.stored : OnChain(run.node, run.stored[i].code_info)

\* Whatever crashed, was recompiled or started again in between, a record
\* that can be read, and every entry of the map that a run returns, name code
\* that is stored on the node's chain under that id with that hash (main.kt,
\* l. 58-77).  A chain that was discarded keeps its records: they are true of
\* that chain only.
RecordsAreTrue == FilesAreTrue /\ ResultIsTrue

Uploads ==
  UNION { UNION { { <<n, i, id>> : id \in DOMAIN chains[n][i] } :
                    i \in DOMAIN chains[n] } : n \in Nodes }

\* Uploads cost money, and code without a record is lost: every upload has a
\* record of its own, or is the one under way, or was cut off by an
\* interruption before its record was written.  However often the tool is
\* started, nothing that has a record is uploaded again.
UploadsAccountedFor ==
  LET recorded == { p \in Path : records[p] \in CodeInfo }
      underway == IF run.at \in {"create", "write"} THEN 1 ELSE 0
  IN  Cardinality(Uploads) <= Cardinality(recorded) + underway + interruptions

\* A record that cannot be read stops every later run for its node and version
\* (main.kt, l. 58-63), and is never replaced.  One is left only by a run that
\* was cut off between the creation of the file and its content (l. 71-73), and
\* such a run leaves no more than one, whatever else it and others recorded.
UnreadableOnlyAfterCrash ==
  LET unreadable == { p \in Path : records[p] = CutShort }
      writing == IF run.at = "write" THEN 1 ELSE 0
  IN  Cardinality(unreadable) <= writing + interruptions

\* A run cut off between the creation of a record and its content leaves a
\* file that no later run can read.
Blocked ==
  /\ run.at = "failed"
  /\ \E c \in Contracts :
       records[[contract |-> c, version |-> source[c].version,
                node |-> run.node]] = CutShort

\* Started again after every interruption, the tool gets through all contract
\* types, unless one of the interruptions left an unreadable record of a
\* present version, which nobody but a human removes.  It needs that complete
\* records are read (SnakeCaseIsRead); what is said of safety does not.
DeploymentCompletes ==
  (run.at \notin {"ready", "done"}) ~> (run.at = "done" \/ Blocked)

\* main.kt:67, "$contractType out of date, storing version $cargoTomlVersion":
\* the code recorded under a version was compiled from it.
StoresTheVersionItNames ==
  \A p \in Path : records[p] \in CodeInfo => records[p].code_hash.version = p.version
=============================================================================
