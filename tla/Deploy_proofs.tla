---------------------------- MODULE Deploy_proofs ----------------------------
(***************************************************************************)
(* The deploy tool, for all nodes and all bounds: its types, that what it  *)
(* has on record is true of the chains whatever was interrupted, edited or *)
(* discarded, that it uploads nothing twice that has a record, and that a  *)
(* record which cannot be read was left by an interruption.                *)
(***************************************************************************)
EXTENDS Deploy, SequenceTheorems, FiniteSetTheorems, TLAPS

-----------------------------------------------------------------------------
(* The inductive invariant. *)

\* A chain is never without a number: there is a present one of each node.
ChainsExist == \A n \in Nodes : Chain(n) >= 1

\* A run that is about to upload, or has done so, is at a contract type, and
\* what it will write is true.
UnderWay ==
  /\ run.at \in {"store", "create", "write"} => Len(run.stored) < Len(ContractTypes)
  /\ run.at \in {"create", "write"} =>
       run.code_info \in CodeInfo /\ OnChain(run.node, run.code_info)

IInv == TypeOK /\ ChainsExist /\ UnderWay /\ RecordsAreTrue

-----------------------------------------------------------------------------
(* Facts about the definitions. *)

\* There are two contract types.
LEMMA ContractTypesAre ==
  /\ Len(ContractTypes) = 2
  /\ Contracts = {"snip721-dealer", "snip721-migratable"}
  /\ \A i \in 1..2 : ContractTypes[i] \in Contracts
<1>1. Len(ContractTypes) = 2 /\ DOMAIN ContractTypes = 1..2
  BY DEF ContractTypes
<1>2. /\ ContractTypes[1] = "snip721-dealer"
      /\ ContractTypes[2] = "snip721-migratable"
  BY DEF ContractTypes
<1>3. 1..2 = {1, 2}
  OBVIOUS
<1> QED BY <1>1, <1>2, <1>3 DEF Contracts

\* The loop's contract type is one of the tool's.
LEMMA CurrentIsContract ==
  ASSUME TypeOK, Len(run.stored) < Len(ContractTypes)
  PROVE  Current \in Contracts
<1>1. Len(run.stored) \in Nat
  BY LenProperties DEF TypeOK
<1>2. Len(run.stored) + 1 \in 1..2
  BY <1>1, ContractTypesAre
<1> QED BY <1>2, ContractTypesAre DEF Current

-----------------------------------------------------------------------------
(* Steps that begin or end a run. *)

\* A fresh run, whether it waits, checks or has failed, keeps the invariant.
LEMMA FreshRun ==
  ASSUME IInv, NEW node \in Nodes, NEW at \in {"ready", "check", "failed"},
         run' = Fresh(at, node),
         UNCHANGED <<source, records, chains>>, interruptions' \in Nat
  PROVE  IInv'
<1>1. run' = [at |-> at, node |-> node, version |-> 1, code_info |-> NoFile,
              stored |-> << >>]
  BY DEF Fresh
<1>2. TypeOK'
  <2>1. << >> \in Seq([version : Versions, code_info : CodeInfo])
    BY EmptySeq
  <2>2. 1 \in Versions
    BY BoundsAreNat DEF Versions
  <2> QED BY <1>1, <2>1, <2>2 DEF IInv, TypeOK
<1>3. ChainsExist'
  BY DEF IInv, ChainsExist, Chain
<1>4. UnderWay'
  BY <1>1 DEF UnderWay
<1>5. RecordsAreTrue'
  <2>1. DOMAIN run'.stored = {}
    BY <1>1
  <2> QED BY <2>1 DEF IInv, RecordsAreTrue, FilesAreTrue, ResultIsTrue, OnChain
<1> QED BY <1>2, <1>3, <1>4, <1>5 DEF IInv

\* A run starts.
LEMMA StartKeeps == ASSUME IInv, NEW n \in Nodes, Start(n) PROVE IInv'
BY FreshRun DEF Start, IInv, TypeOK

\* A run that failed is started again.
LEMMA RetryKeeps == ASSUME IInv, Retry PROVE IInv'
<1>1. run.node \in Nodes
  BY DEF IInv, TypeOK
<1> QED BY <1>1, FreshRun DEF Retry, IInv, TypeOK

\* A run is cut off.
LEMMA InterruptKeeps == ASSUME IInv, Interrupt PROVE IInv'
<1>1. run.node \in Nodes /\ interruptions \in Nat
  BY DEF IInv, TypeOK
<1>2. interruptions' = interruptions + 1
  BY DEF Interrupt
<1>3. interruptions' \in Nat
  BY SMTT(30), <1>1, <1>2
<1> QED BY <1>1, <1>3, FreshRun DEF Interrupt, Stop

\* A run is through all contract types.
LEMMA FinishKeeps == ASSUME IInv, Finish PROVE IInv'
<1>1. run' = [run EXCEPT !.at = "done"]
  BY DEF Finish
<1>2. UNCHANGED <<source, records, chains, interruptions>>
  BY DEF Finish
<1> QED BY <1>1, <1>2
     DEF IInv, TypeOK, ChainsExist, Chain, UnderWay, RecordsAreTrue, FilesAreTrue,
         ResultIsTrue, OnChain

-----------------------------------------------------------------------------
(* The loop. *)

\* An entry of the result that is true keeps the entries true.
LEMMA ReportKeeps ==
  ASSUME TypeOK, RecordsAreTrue, NEW version \in Versions,
         NEW info \in CodeInfo, OnChain(run.node, info),
         Report(version, info), UNCHANGED chains
  PROVE  /\ run' \in
              [at : {"check"}, node : {run.node}, version : Versions,
               code_info : {NoFile},
               stored : Seq([version : Versions, code_info : CodeInfo])]
         /\ ResultIsTrue'
<1> DEFINE entry == [version |-> version, code_info |-> info]
           stored == run.stored
<1>1. stored \in Seq([version : Versions, code_info : CodeInfo])
  BY DEF TypeOK
<1>2. entry \in [version : Versions, code_info : CodeInfo]
  OBVIOUS
<1>3. run' = [run EXCEPT !.at = "check", !.version = 1, !.code_info = NoFile,
                         !.stored = Append(stored, entry)]
  BY DEF Report, TypeOK
<1>4. run'.stored = Append(stored, entry) /\ run'.node = run.node
  BY <1>3 DEF TypeOK
<1>5. /\ Append(stored, entry) \in Seq([version : Versions, code_info : CodeInfo])
      /\ Len(Append(stored, entry)) = Len(stored) + 1
      /\ \A i \in 1..Len(stored) : Append(stored, entry)[i] = stored[i]
      /\ Append(stored, entry)[Len(stored) + 1] = entry
  BY <1>1, <1>2, AppendProperties
<1>6. 1 \in Versions
  BY BoundsAreNat DEF Versions
<1>7. ASSUME NEW i \in DOMAIN run'.stored
      PROVE  OnChain(run.node, run.stored[i].code_info)'
  <2>1. Len(stored) \in Nat /\ DOMAIN stored = 1..Len(stored)
    BY <1>1, LenProperties
  <2>2. i \in 1..(Len(stored) + 1)
    BY <1>4, <1>5, <1>7, LenProperties
  <2>3. CASE i = Len(stored) + 1
    <3>1. run'.stored[i] = entry
      BY <2>3, <1>4, <1>5
    <3>2. entry.code_info = info
      BY SMTT(30)
    <3> HIDE DEF entry, stored
    <3> QED BY <3>1, <3>2, <1>4 DEF OnChain
  <2>4. CASE i \in DOMAIN stored
    <3>1. OnChain(run.node, stored[i].code_info)
      BY <2>4 DEF RecordsAreTrue, ResultIsTrue
    <3>2. run'.stored[i] = stored[i]
      BY <2>1, <2>4, <1>4, <1>5
    <3> QED BY <3>1, <3>2, <1>4 DEF OnChain
  <2> QED BY <2>1, <2>2, <2>3, <2>4
<1>8. run' \in [at : {"check"}, node : {run.node}, version : Versions,
                code_info : {NoFile},
                stored : Seq([version : Versions, code_info : CodeInfo])]
  <2> HIDE DEF stored, entry
  <2> QED BY <1>3, <1>5, <1>6 DEF TypeOK
<1> QED BY <1>7, <1>8 DEF ResultIsTrue

\* A record is looked for, and read if it is there.
LEMMA CheckRecordKeeps == ASSUME IInv, CheckRecord PROVE IInv'
<1> DEFINE version == source[Current].version
           p == RecordPath(version)
           file == records[p]
<1> USE DEF IInv
<1>1. Current \in Contracts
  BY CurrentIsContract DEF CheckRecord, Looping
<1>2. version \in Versions
  BY <1>1 DEF TypeOK
<1>3. p \in Path /\ p.node = run.node /\ run.node \in Nodes
  BY <1>1, <1>2 DEF RecordPath, Path, TypeOK
<1>4. UNCHANGED <<source, records, chains, interruptions>>
  BY DEF CheckRecord
<1>5. CASE run' = [run EXCEPT !.at = "store", !.version = version]
  <2>1. Len(run.stored) < Len(ContractTypes)
    BY DEF CheckRecord, Looping
  <2> HIDE DEF version
  <2> QED BY <1>2, <1>4, <1>5, <2>1
       DEF TypeOK, ChainsExist, Chain, UnderWay, RecordsAreTrue, FilesAreTrue,
         ResultIsTrue, OnChain
<1>6. CASE Stop
  BY <1>3, <1>4, <1>6, FreshRun DEF Stop, TypeOK
<1>7. CASE file \in CodeInfo /\ Report(version, file)
  <2>1. OnChain(run.node, file)
    BY <1>3, <1>7 DEF RecordsAreTrue, FilesAreTrue
  <2> HIDE DEF file, version
  <2>2. /\ run' \in [at : {"check"}, node : {run.node}, version : Versions,
                     code_info : {NoFile},
                     stored : Seq([version : Versions, code_info : CodeInfo])]
        /\ ResultIsTrue'
    BY <1>2, <1>4, <1>7, <2>1, ReportKeeps
  <2>3. TypeOK'
    BY <1>4, <2>2 DEF TypeOK
  <2>4. ChainsExist' /\ UnderWay'
    BY <1>4, <2>2 DEF ChainsExist, Chain, UnderWay
  <2>5. RecordsAreTrue'
    BY <1>4, <2>2 DEF RecordsAreTrue, FilesAreTrue, OnChain
  <2> QED BY <2>3, <2>4, <2>5
<1> QED BY <1>5, <1>6, <1>7 DEF CheckRecord, Readable

-----------------------------------------------------------------------------
(* Uploads and discarded chains: chains only grow. *)

\* What a chain had stored stays where it is.
ChainsGrow ==
  \A n \in Nodes :
    /\ DOMAIN chains[n] \subseteq DOMAIN chains'[n]
    /\ \A k \in DOMAIN chains[n] :
         /\ DOMAIN chains[n][k] \subseteq DOMAIN chains'[n][k]
         /\ \A id \in DOMAIN chains[n][k] : chains'[n][k][id] = chains[n][k][id]

\* So nothing that was true becomes false.
LEMMA TruthLasts ==
  ASSUME ChainsGrow, NEW n \in Nodes, NEW info, OnChain(n, info)
  PROVE  /\ info.chain \in DOMAIN chains'[n]
         /\ info.code_id \in DOMAIN chains'[n][info.chain]
         /\ chains'[n][info.chain][info.code_id] = info.code_hash
BY DEF ChainsGrow, OnChain

\* Records and results are true of chains that only grow.
LEMMA RecordsStayTrue ==
  ASSUME TypeOK, RecordsAreTrue, ChainsGrow, records' = records,
         run'.node = run.node, run'.stored = run.stored
  PROVE  RecordsAreTrue'
<1>1. ASSUME NEW p \in Path, records'[p] \in CodeInfo
      PROVE  OnChain(p.node, records[p])'
  <2>1. OnChain(p.node, records[p]) /\ p.node \in Nodes
    BY <1>1 DEF RecordsAreTrue, FilesAreTrue, Path
  <2>2. /\ records[p].chain \in DOMAIN chains'[p.node]
        /\ records[p].code_id \in DOMAIN chains'[p.node][records[p].chain]
        /\ chains'[p.node][records[p].chain][records[p].code_id] = records[p].code_hash
    BY <2>1, TruthLasts
  <2> QED BY <2>2 DEF OnChain
<1>2. ASSUME NEW i \in DOMAIN run'.stored
      PROVE  OnChain(run.node, run.stored[i].code_info)'
  <2>1. OnChain(run.node, run.stored[i].code_info) /\ run.node \in Nodes
    BY <1>2 DEF RecordsAreTrue, ResultIsTrue, TypeOK
  <2> DEFINE info == run.stored[i].code_info
  <2>2. /\ info.chain \in DOMAIN chains'[run.node]
        /\ info.code_id \in DOMAIN chains'[run.node][info.chain]
        /\ chains'[run.node][info.chain][info.code_id] = info.code_hash
    <3> HIDE DEF info
    <3> QED BY <2>1, TruthLasts DEF info
  <2> QED BY <2>2 DEF OnChain
<1> QED BY <1>1, <1>2 DEF RecordsAreTrue, FilesAreTrue, ResultIsTrue

\* Code is uploaded.
LEMMA StoreCodeKeeps == ASSUME IInv, StoreCode PROVE IInv'
<1> USE DEF IInv
<1> DEFINE node == run.node
           k == Chain(node)
           wasm == source[Current].wasm
           old == chains[node][k]
           codes == Append(old, wasm)
           info == [chain |-> k, code_id |-> Len(codes), code_hash |-> wasm]
<1>1. node \in Nodes /\ chains[node] \in Seq(Seq(Code))
  BY DEF TypeOK
<1>2. k \in 1..Len(chains[node]) /\ DOMAIN chains[node] = 1..Len(chains[node])
  BY <1>1, LenProperties DEF Chain, ChainsExist
<1>3. old \in Seq(Code)
  BY <1>1, <1>2, ElementOfSeq
<1>4. Current \in Contracts
  BY CurrentIsContract DEF StoreCode, UnderWay
<1>5. wasm \in Code
  BY <1>4 DEF TypeOK
<1>6. /\ codes \in Seq(Code)
      /\ Len(codes) = Len(old) + 1
      /\ \A i \in 1..Len(old) : codes[i] = old[i]
      /\ codes[Len(old) + 1] = wasm
  BY <1>3, <1>5, AppendProperties
<1>7. /\ Len(old) \in Nat /\ DOMAIN old = 1..Len(old)
      /\ Len(codes) \in Nat /\ DOMAIN codes = 1..Len(codes)
  BY <1>3, <1>6, LenProperties
<1>8. chains' = [chains EXCEPT ![node] = [chains[node] EXCEPT ![k] = codes]]
  BY <1>1 DEF StoreCode, TypeOK
<1>9. [chains[node] EXCEPT ![k] = codes] \in Seq(Seq(Code))
      /\ Len([chains[node] EXCEPT ![k] = codes]) = Len(chains[node])
  BY <1>1, <1>2, <1>6, ExceptSeq
<1>10. UNCHANGED <<source, records, interruptions>>
  BY DEF StoreCode
<1>11. run' = [run EXCEPT !.at = "create", !.code_info = info]
  BY DEF StoreCode
<1>12. info \in CodeInfo
  <2>1. k \in Nat
    BY <1>2
  <2> QED BY <2>1, <1>5, <1>7 DEF CodeInfo
<1>13. chains'[node] = [chains[node] EXCEPT ![k] = codes] /\ chains'[node][k] = codes
  BY <1>1, <1>2, <1>8 DEF TypeOK
<1>14. ChainsGrow
  <2> SUFFICES ASSUME NEW n \in Nodes
               PROVE  /\ DOMAIN chains[n] \subseteq DOMAIN chains'[n]
                      /\ \A j \in DOMAIN chains[n] :
                           /\ DOMAIN chains[n][j] \subseteq DOMAIN chains'[n][j]
                           /\ \A id \in DOMAIN chains[n][j] :
                                chains'[n][j][id] = chains[n][j][id]
    BY DEF ChainsGrow
  <2>1. CASE n # node
    BY <2>1, <1>8 DEF TypeOK
  <2>2. CASE n = node
    <3>1. DOMAIN chains'[node] = DOMAIN chains[node]
      BY <1>13
    <3>2. \A j \in DOMAIN chains[node] : j # k => chains'[node][j] = chains[node][j]
      BY <1>13
    <3>3. DOMAIN old \subseteq DOMAIN codes /\ \A id \in DOMAIN old : codes[id] = old[id]
      BY <1>6, <1>7
    <3> HIDE DEF codes
    <3> QED BY <2>2, <3>1, <3>2, <3>3, <1>13
  <2> QED BY <2>1, <2>2
<1>15. TypeOK'
  <2>1. chains' \in [Nodes -> Seq(Seq(Code))]
    BY <1>8, <1>9 DEF TypeOK
  <2> HIDE DEF info
  <2> QED BY <1>10, <1>11, <1>12, <2>1 DEF TypeOK
<1>16. ChainsExist'
  BY <1>8, <1>9 DEF ChainsExist, Chain, TypeOK
<1>17. UnderWay'
  <2>1. /\ run'.at = "create" /\ run'.node = node
        /\ run'.stored = run.stored /\ run'.code_info = info
    <3> HIDE DEF info
    <3> QED BY <1>11 DEF TypeOK
  <2>2. Len(run'.stored) < Len(ContractTypes)
    BY <2>1 DEF StoreCode, UnderWay
  <2>3. OnChain(run.node, run.code_info)'
    <3>1. info.chain = k /\ info.code_id = Len(codes) /\ info.code_hash = wasm
      OBVIOUS
    <3>2. k \in DOMAIN chains'[node] /\ Len(codes) \in DOMAIN codes
      <4>1. DOMAIN chains'[node] = DOMAIN chains[node]
        BY <1>13
      <4>2. Len(old) + 1 \in 1..(Len(old) + 1)
        BY <1>7
      <4> HIDE DEF codes, old, k
      <4> QED BY <1>2, <1>6, <1>7, <4>1, <4>2
    <3>3. codes[Len(codes)] = wasm
      BY <1>6
    <3> HIDE DEF info, codes, k, wasm
    <3> QED BY <2>1, <3>1, <3>2, <3>3, <1>13 DEF OnChain
  <2> QED BY <1>12, <2>1, <2>2, <2>3 DEF UnderWay
<1>18. RecordsAreTrue'
  BY <1>10, <1>11, <1>14, RecordsStayTrue DEF TypeOK
<1> QED BY <1>15, <1>16, <1>17, <1>18

\* A local chain is discarded.
LEMMA ResetKeeps == ASSUME IInv, NEW n \in Nodes, Reset(n) PROVE IInv'
<1> USE DEF IInv
<1> DEFINE new == Append(chains[n], << >>)
<1>1. chains[n] \in Seq(Seq(Code)) /\ << >> \in Seq(Code)
  BY EmptySeq DEF TypeOK
<1>2. /\ new \in Seq(Seq(Code))
      /\ Len(new) = Len(chains[n]) + 1
      /\ \A i \in 1..Len(chains[n]) : new[i] = chains[n][i]
  BY <1>1, AppendProperties
<1>3. /\ Len(chains[n]) \in Nat /\ DOMAIN chains[n] = 1..Len(chains[n])
      /\ DOMAIN new = 1..Len(new)
  BY <1>1, <1>2, LenProperties
<1>4. chains' = [chains EXCEPT ![n] = new]
  BY DEF Reset, TypeOK
<1>5. UNCHANGED <<source, records, run, interruptions>>
  BY DEF Reset
<1> HIDE DEF new
<1>6. ChainsGrow
  <2>1. \A m \in Nodes : m # n => chains'[m] = chains[m]
    BY <1>4 DEF TypeOK
  <2>2. chains'[n] = new
    BY <1>4 DEF TypeOK
  <2>3. DOMAIN chains[n] \subseteq DOMAIN new
    BY <1>2, <1>3
  <2>4. \A k \in DOMAIN chains[n] : new[k] = chains[n][k]
    BY <1>2, <1>3
  <2>5. ASSUME NEW m \in Nodes
        PROVE  /\ DOMAIN chains[m] \subseteq DOMAIN chains'[m]
               /\ \A k \in DOMAIN chains[m] : chains'[m][k] = chains[m][k]
    BY <2>1, <2>2, <2>3, <2>4
  <2> QED BY <2>5 DEF ChainsGrow
<1>7. TypeOK' /\ ChainsExist'
  <2>1. chains' \in [Nodes -> Seq(Seq(Code))]
    BY <1>2, <1>4 DEF TypeOK
  <2>2. TypeOK'
    BY <1>5, <2>1 DEF TypeOK
  <2>3. Len(new) >= 1
    BY <1>2, <1>3
  <2>4. ChainsExist'
    BY <1>4, <2>3 DEF TypeOK, ChainsExist, Chain
  <2> QED BY <2>2, <2>4
<1>8. UnderWay'
  <2>1. ASSUME run.at \in {"create", "write"} PROVE OnChain(run.node, run.code_info)'
    <3>1. OnChain(run.node, run.code_info) /\ run.node \in Nodes
      BY <2>1 DEF UnderWay, TypeOK
    <3> QED BY <1>5, <1>6, <3>1, TruthLasts DEF OnChain
  <2> QED BY <1>5, <2>1 DEF UnderWay
<1>9. RecordsAreTrue'
  BY <1>5, <1>6, RecordsStayTrue
<1> QED BY <1>7, <1>8, <1>9

-----------------------------------------------------------------------------
(* Records. *)

\* The record of the contract type that the loop has arrived at.
LEMMA RecordPathIsPath ==
  ASSUME TypeOK, Len(run.stored) < Len(ContractTypes)
  PROVE  RecordPath(run.version) \in Path /\ RecordPath(run.version).node = run.node
BY CurrentIsContract DEF RecordPath, Path, TypeOK

\* The file of a record is created.
LEMMA CreateRecordKeeps == ASSUME IInv, CreateRecord PROVE IInv'
<1> USE DEF IInv
<1> DEFINE p == RecordPath(run.version)
<1>1. p \in Path
  BY RecordPathIsPath DEF CreateRecord, UnderWay
<1>2. /\ records' = [records EXCEPT ![p] = CutShort]
      /\ run' = [run EXCEPT !.at = "write"]
      /\ UNCHANGED <<source, chains, interruptions>>
  BY DEF CreateRecord
<1> HIDE DEF p
<1>3. TypeOK' /\ ChainsExist'
  BY <1>1, <1>2 DEF TypeOK, ChainsExist, Chain
<1>4. UnderWay'
  <2>1. run.at = "create"
    BY DEF CreateRecord
  <2> QED BY <1>2, <2>1 DEF UnderWay, TypeOK, OnChain
<1>5. RecordsAreTrue'
  <2>1. FilesAreTrue'
    BY <1>1, <1>2, FileStatesDiffer DEF RecordsAreTrue, FilesAreTrue, OnChain, TypeOK
  <2>2. ResultIsTrue'
    BY <1>2 DEF RecordsAreTrue, ResultIsTrue, OnChain, TypeOK
  <2> QED BY <2>1, <2>2 DEF RecordsAreTrue
<1> QED BY <1>3, <1>4, <1>5

\* The record is written.
LEMMA WriteRecordKeeps == ASSUME IInv, WriteRecord PROVE IInv'
<1> USE DEF IInv
<1> DEFINE p == RecordPath(run.version)
<1>1. p \in Path /\ p.node = run.node
  BY RecordPathIsPath DEF WriteRecord, UnderWay
<1>2. /\ records' = [records EXCEPT ![p] = run.code_info]
      /\ Report(run.version, run.code_info)
      /\ UNCHANGED <<source, chains, interruptions>>
  BY DEF WriteRecord
<1> HIDE DEF p
<1>3. run.code_info \in CodeInfo /\ OnChain(run.node, run.code_info)
  BY DEF WriteRecord, UnderWay
<1>4. run.version \in Versions
  BY DEF TypeOK
<1>5. /\ run' \in [at : {"check"}, node : {run.node}, version : Versions,
                   code_info : {NoFile},
                   stored : Seq([version : Versions, code_info : CodeInfo])]
      /\ ResultIsTrue'
  BY <1>2, <1>3, <1>4, ReportKeeps
<1>6. TypeOK'
  BY <1>1, <1>2, <1>3, <1>5 DEF TypeOK
<1>7. ChainsExist' /\ UnderWay'
  BY <1>2, <1>5 DEF ChainsExist, Chain, UnderWay
<1>8. FilesAreTrue'
  BY <1>1, <1>2, <1>3 DEF RecordsAreTrue, FilesAreTrue, OnChain, TypeOK
<1> QED BY <1>5, <1>6, <1>7, <1>8 DEF RecordsAreTrue

-----------------------------------------------------------------------------
(* The developer. *)

\* An edit is only made below the bound, so each counter stays within it.
LEMMA EditsAreBounded ==
  ASSUME TypeOK, Edits < MaxEdits, NEW c \in Contracts
  PROVE  source[c].version + 1 \in Versions /\ source[c].wasm.build + 1 \in 1..(MaxEdits + 1)
<1>1. \A d \in Contracts : /\ source[d].version \in 1..(MaxEdits + 1)
                           /\ source[d].wasm.build \in 1..(MaxEdits + 1)
  BY DEF TypeOK, Versions, Code
<1>2. /\ "snip721-dealer" \in Contracts /\ "snip721-migratable" \in Contracts
      /\ c \in {"snip721-dealer", "snip721-migratable"}
  BY SMTT(30), ContractTypesAre
<1> QED BY <1>1, <1>2, BoundsAreNat DEF Edits, EditsOf, Versions

\* An edit touches the source only.
LEMMA SourceChanges ==
  ASSUME IInv, source' \in [Contracts -> [version : Versions, wasm : Code]],
         UNCHANGED <<records, chains, run, interruptions>>
  PROVE  IInv'
BY DEF IInv, TypeOK, ChainsExist, Chain, UnderWay, RecordsAreTrue, FilesAreTrue,
       ResultIsTrue, OnChain

\* A version is raised.
LEMMA RaiseVersionKeeps ==
  ASSUME IInv, NEW c \in Contracts, RaiseVersion(c) PROVE IInv'
<1>1. source[c].version + 1 \in Versions
  BY EditsAreBounded DEF IInv, RaiseVersion
<1>2. source' \in [Contracts -> [version : Versions, wasm : Code]]
  BY <1>1 DEF RaiseVersion, IInv, TypeOK
<1> QED BY <1>2, SourceChanges DEF RaiseVersion

\* A contract is compiled.
LEMMA CompileKeeps ==
  ASSUME IInv, NEW c \in Contracts, Compile(c) PROVE IInv'
<1> DEFINE wasm == [contract |-> c, version |-> source[c].version,
                    build |-> source[c].wasm.build + 1]
<1>1. source[c].wasm.build + 1 \in 1..(MaxEdits + 1)
  BY EditsAreBounded DEF IInv, Compile
<1>2. wasm \in Code
  BY <1>1 DEF IInv, TypeOK, Code
<1>3. source' = [source EXCEPT ![c].wasm = wasm]
  BY DEF Compile, IInv, TypeOK
<1> HIDE DEF wasm
<1>4. source' \in [Contracts -> [version : Versions, wasm : Code]]
  BY <1>2, <1>3 DEF IInv, TypeOK
<1> QED BY <1>4, SourceChanges DEF Compile

-----------------------------------------------------------------------------
(* The theorems. *)

\* The tool has not run yet.
LEMMA InitHolds == Init => IInv
<1> SUFFICES ASSUME Init PROVE IInv
  OBVIOUS
<1>1. PICK n \in Nodes : run = Fresh("ready", n)
  BY DEF Init
<1>2. 1 \in Versions
  BY BoundsAreNat DEF Versions
<1>3. << >> \in Seq([version : Versions, code_info : CodeInfo])
  BY EmptySeq
<1>4. << << >> >> \in Seq(Seq(Code)) /\ Len(<< << >> >>) = 1
  OBVIOUS
<1>5. TypeOK
  <2>1. source \in [Contracts -> [version : Versions, wasm : Code]]
    BY <1>2, BoundsAreNat DEF Init, Code
  <2>2. /\ records \in [Path -> CodeInfo \cup {NoFile, CutShort}]
        /\ chains \in [Nodes -> Seq(Seq(Code))]
        /\ interruptions \in Nat
    BY <1>4 DEF Init
  <2> QED BY <1>1, <1>2, <1>3, <2>1, <2>2 DEF Fresh, TypeOK
<1>6. ChainsExist
  BY <1>4 DEF Init, ChainsExist, Chain
<1>7. UnderWay
  BY <1>1 DEF Fresh, UnderWay
<1>8. RecordsAreTrue
  <2>1. FilesAreTrue
    BY FileStatesDiffer DEF Init, FilesAreTrue
  <2>2. DOMAIN run.stored = {}
    BY <1>1 DEF Fresh
  <2> QED BY <2>1, <2>2 DEF RecordsAreTrue, ResultIsTrue
<1> QED BY <1>5, <1>6, <1>7, <1>8 DEF IInv

\* Every step keeps the invariant.
LEMMA NextKeeps == IInv /\ [Next]_vars => IInv'
<1> SUFFICES ASSUME IInv, [Next]_vars PROVE IInv'
  OBVIOUS
<1>1. ASSUME NEW n \in Nodes, Start(n) PROVE IInv'
  BY <1>1, StartKeeps
<1>2. CASE Retry
  BY <1>2, RetryKeeps
<1>3. CASE CheckRecord
  BY <1>3, CheckRecordKeeps
<1>4. CASE StoreCode
  BY <1>4, StoreCodeKeeps
<1>5. CASE CreateRecord
  BY <1>5, CreateRecordKeeps
<1>6. CASE WriteRecord
  BY <1>6, WriteRecordKeeps
<1>7. CASE Finish
  BY <1>7, FinishKeeps
<1>8. CASE Interrupt
  BY <1>8, InterruptKeeps
<1>9. ASSUME NEW c \in Contracts, RaiseVersion(c) PROVE IInv'
  BY <1>9, RaiseVersionKeeps
<1>10. ASSUME NEW c \in Contracts, Compile(c) PROVE IInv'
  BY <1>10, CompileKeeps
<1>11. ASSUME NEW n \in LocalNodes, Reset(n) PROVE IInv'
  BY SMTT(30), <1>11, ResetKeeps, LocalNodesAreNodes
<1>12. CASE UNCHANGED vars
  BY <1>12 DEF vars, IInv, TypeOK, ChainsExist, Chain, UnderWay, RecordsAreTrue,
               FilesAreTrue, ResultIsTrue, OnChain
<1> QED BY <1>1, <1>2, <1>3, <1>4, <1>5, <1>6, <1>7, <1>8, <1>9, <1>10, <1>11, <1>12
       DEF Next

\* The state of the tool and of what it works on keeps its types.
THEOREM TypeCorrect == Spec => []TypeOK
<1>1. IInv => TypeOK
  BY DEF IInv
<1> QED BY <1>1, InitHolds, NextKeeps, PTL DEF Spec

\* Records and results are true of the chains, for any number of nodes, runs,
\* interruptions, edits and discarded chains (main.kt, storeUpdatedContracts).
THEOREM RecordsAlwaysTrue == Spec => []RecordsAreTrue
<1>1. IInv => RecordsAreTrue
  BY DEF IInv
<1> QED BY <1>1, InitHolds, NextKeeps, PTL DEF Spec

-----------------------------------------------------------------------------
(* Uploads. *)

\* The records that can be read, and whether an upload waits for its record.
Recorded == { p \in Path : records[p] \in CodeInfo }
BeingRecorded == IF run.at \in {"create", "write"} THEN 1 ELSE 0

\* The record of an upload that is under way or about to begin does not exist
\* yet: only this run could have written it.
Unrecorded ==
  /\ run.at \in {"store", "create"} => records[RecordPath(run.version)] = NoFile
  /\ run.at = "write" => records[RecordPath(run.version)] = CutShort

\* UploadsAccountedFor with what makes it inductive: Unrecorded, by which the
\* write adds a record and replaces none, and that both sets are finite at any
\* time, however many nodes there are.
Accounts ==
  /\ Unrecorded
  /\ IsFiniteSet(Uploads) /\ IsFiniteSet(Recorded)
  /\ Cardinality(Uploads) <= Cardinality(Recorded) + BeingRecorded + interruptions

\* A step that uploads nothing and does not touch the records' files.
LEMMA NothingUploaded ==
  ASSUME IInv, Accounts, Uploads' = Uploads, Recorded' = Recorded, Unrecorded',
         interruptions' \in Nat,
         BeingRecorded + interruptions <= BeingRecorded' + interruptions'
  PROVE  Accounts'
<1>1. Cardinality(Uploads) \in Nat /\ Cardinality(Recorded) \in Nat
  BY FS_CardinalityType DEF Accounts
<1>2. interruptions \in Nat /\ BeingRecorded \in Nat /\ BeingRecorded' \in Nat
  BY DEF IInv, TypeOK, BeingRecorded
<1> DEFINE u == Cardinality(Uploads)
           r == Cardinality(Recorded)
<1>3. u <= r + BeingRecorded + interruptions
  BY DEF Accounts
<1>4. u <= r + BeingRecorded' + interruptions'
  <2>1. \A x, y, b, i, c, j \in Nat :
          x <= y + b + i /\ b + i <= c + j => x <= y + c + j
    OBVIOUS
  <2>2. u \in Nat /\ r \in Nat
    BY <1>1
  <2> HIDE DEF u, r
  <2> QED BY <1>2, <1>3, <2>1, <2>2
<1>5. Cardinality(Uploads') = u /\ Cardinality(Recorded') = r
  OBVIOUS
<1> QED BY <1>4, <1>5 DEF Accounts

\* What the steps of a run leave alone.
LEMMA SameUploads ==
  /\ chains' = chains => Uploads' = Uploads
  /\ records' = records => Recorded' = Recorded
BY DEF Uploads, Recorded

\* The tool arrives at a contract type without a record of its version.
LEMMA CheckRecordAccounts ==
  ASSUME IInv, Accounts, CheckRecord
  PROVE  Accounts'
<1>1. UNCHANGED <<source, records, chains, interruptions>> /\ run.at = "check"
  BY DEF CheckRecord, Looping
<1>2. BeingRecorded = 0 /\ BeingRecorded' \in Nat /\ interruptions \in Nat
  BY <1>1 DEF BeingRecorded, IInv, TypeOK
<1>3. Unrecorded'
  <2>1. CASE /\ records[RecordPath(source[Current].version)] = NoFile
             /\ run' = [run EXCEPT !.at = "store", !.version = source[Current].version]
    <3>1. /\ run'.at = "store" /\ run'.version = source[Current].version
          /\ run'.stored = run.stored /\ run'.node = run.node
      BY <2>1 DEF IInv, TypeOK
    <3>2. RecordPath(run.version)' = RecordPath(source[Current].version)
      BY <3>1 DEF RecordPath, Current
    <3> QED BY <1>1, <2>1, <3>1, <3>2 DEF Unrecorded
  <2>2. CASE Stop
    BY <2>2 DEF Stop, Fresh, Unrecorded
  <2>3. ASSUME NEW v, NEW info, Report(v, info) PROVE Unrecorded'
    <3>1. run'.at = "check"
      BY <2>3 DEF Report, IInv, TypeOK
    <3> QED BY <3>1 DEF Unrecorded
  <2> QED BY <2>1, <2>2, <2>3 DEF CheckRecord
<1>4. BeingRecorded + interruptions <= BeingRecorded' + interruptions'
  <2>1. interruptions' = interruptions
    BY <1>1
  <2>2. \A b, i \in Nat : 0 + i <= b + i
    OBVIOUS
  <2> QED BY <1>2, <2>1, <2>2
<1>5. Uploads' = Uploads /\ Recorded' = Recorded /\ interruptions' \in Nat
  BY <1>1, <1>2, SameUploads
<1> QED BY <1>3, <1>4, <1>5, NothingUploaded

\* An upload is the number of a chain and an id on it.
LEMMA UploadsAre ==
  \A u : u \in Uploads <=>
           \E n \in Nodes : \E i \in DOMAIN chains[n] : \E id \in DOMAIN chains[n][i] :
             u = <<n, i, id>>
BY DEF Uploads

\* One more upload is under way.
LEMMA StoreCodeAccounts ==
  ASSUME IInv, Accounts, StoreCode
  PROVE  Accounts'
<1> DEFINE node == run.node
           k == Chain(node)
           old == chains[node][k]
           codes == Append(old, source[Current].wasm)
           upload == <<node, k, Len(old) + 1>>
<1>1. /\ chains' = [chains EXCEPT ![node] = [chains[node] EXCEPT ![k] = codes]]
      /\ UNCHANGED <<source, records, interruptions>>
      /\ run.at = "store"
  BY DEF StoreCode, IInv, TypeOK
<1>2. /\ run'.at = "create" /\ run'.version = run.version
      /\ run'.stored = run.stored /\ run'.node = run.node
  <2> DEFINE info == [chain |-> k, code_id |-> Len(codes),
                      code_hash |-> source[Current].wasm]
  <2>1. run' = [run EXCEPT !.at = "create", !.code_info = info]
    BY DEF StoreCode
  <2> HIDE DEF info
  <2> QED BY <2>1 DEF IInv, TypeOK
<1>3. /\ node \in Nodes /\ chains \in [Nodes -> Seq(Seq(Code))]
      /\ k \in DOMAIN chains[node] /\ old \in Seq(Code)
  <2>1. node \in Nodes /\ chains[node] \in Seq(Seq(Code))
    BY DEF IInv, TypeOK
  <2>2. k \in 1..Len(chains[node]) /\ DOMAIN chains[node] = 1..Len(chains[node])
    BY <2>1, LenProperties DEF Chain, IInv, ChainsExist
  <2> QED BY <2>1, <2>2, ElementOfSeq DEF IInv, TypeOK
<1>4. /\ DOMAIN old = 1..Len(old) /\ DOMAIN codes = 1..(Len(old) + 1) /\ Len(old) \in Nat
  <2>1. source[Current].wasm \in Code
    <3>1. Current \in Contracts
      BY <1>1, CurrentIsContract DEF IInv, UnderWay
    <3> QED BY <3>1 DEF IInv, TypeOK
  <2> QED BY <1>3, <2>1, AppendProperties, LenProperties
<1> HIDE DEF codes
<1>5. Uploads' \subseteq Uploads \cup {upload}
  <2> SUFFICES ASSUME NEW n \in Nodes, NEW i \in DOMAIN chains'[n],
                      NEW id \in DOMAIN chains'[n][i], <<n, i, id>> \notin Uploads
               PROVE  <<n, i, id>> = upload
    BY DEF Uploads
  <2>1. /\ n # node => chains'[n] = chains[n]
        /\ chains'[node] = [chains[node] EXCEPT ![k] = codes]
    BY <1>1, <1>3
  <2>2. n = node
    BY <2>1, UploadsAre
  <2>3. i = k /\ id \in DOMAIN codes
    BY <1>3, <2>1, <2>2, UploadsAre
  <2>4. id \notin 1..Len(old)
    BY <1>3, <1>4, <2>2, <2>3, UploadsAre
  <2>5. id = Len(old) + 1
    BY <1>4, <2>3, <2>4
  <2> QED BY <2>2, <2>3, <2>5
<1> HIDE DEF upload
<1>6. /\ IsFiniteSet(Uploads) /\ IsFiniteSet(Recorded)
      /\ Cardinality(Uploads) \in Nat /\ Cardinality(Recorded) \in Nat
  BY FS_CardinalityType DEF Accounts
<1>7. /\ IsFiniteSet(Uploads \cup {upload})
      /\ Cardinality(Uploads \cup {upload}) \in Nat
      /\ Cardinality(Uploads \cup {upload}) <= Cardinality(Uploads) + 1
  <2>1. /\ IsFiniteSet(Uploads \cup {upload})
        /\ Cardinality(Uploads \cup {upload}) =
             IF upload \in Uploads THEN Cardinality(Uploads) ELSE Cardinality(Uploads) + 1
    BY <1>6, FS_AddElement
  <2> QED BY <1>6, <2>1
<1>8. /\ IsFiniteSet(Uploads') /\ Cardinality(Uploads') \in Nat
      /\ Cardinality(Uploads') <= Cardinality(Uploads) + 1
  <2> DEFINE more == Uploads \cup {upload}
             after == Uploads'
  <2>1. IsFiniteSet(more) /\ after \in SUBSET more
    BY <1>5, <1>7
  <2> HIDE DEF more, after
  <2>2. IsFiniteSet(after) /\ Cardinality(after) <= Cardinality(more)
    BY <2>1, FS_Subset
  <2>3. Cardinality(after) \in Nat
    BY <2>2, FS_CardinalityType
  <2>4. Cardinality(more) \in Nat /\ Cardinality(more) <= Cardinality(Uploads) + 1
    BY <1>7 DEF more
  <2>5. Cardinality(after) <= Cardinality(Uploads) + 1
    BY <1>6, <2>2, <2>3, <2>4
  <2> QED BY <2>2, <2>3, <2>5 DEF after
<1>9. Recorded' = Recorded /\ interruptions' = interruptions
  BY <1>1, SameUploads
<1>10. BeingRecorded = 0 /\ BeingRecorded' = 1
  BY <1>1, <1>2 DEF BeingRecorded
<1>11. Cardinality(Uploads') <= Cardinality(Recorded') + BeingRecorded' + interruptions'
  <2>1. Cardinality(Uploads) <= Cardinality(Recorded) + 0 + interruptions
    BY <1>10 DEF Accounts
  <2>2. \A x, y, z, i \in Nat : x <= y + 1 /\ y <= z + 0 + i => x <= z + 1 + i
    OBVIOUS
  <2>3. interruptions \in Nat
    BY DEF IInv, TypeOK
  <2> QED BY <1>6, <1>8, <1>9, <1>10, <2>1, <2>2, <2>3
<1>12. Unrecorded'
  <2>1. RecordPath(run.version)' = RecordPath(run.version)
    BY <1>2 DEF RecordPath, Current
  <2> QED BY <1>1, <1>2, <2>1 DEF Accounts, Unrecorded
<1> QED BY <1>6, <1>8, <1>9, <1>11, <1>12 DEF Accounts

\* The file that is created is no record yet.
LEMMA CreateRecordAccounts ==
  ASSUME IInv, Accounts, CreateRecord
  PROVE  Accounts'
<1> DEFINE p == RecordPath(run.version)
<1>1. /\ run.at = "create" /\ records' = [records EXCEPT ![p] = CutShort]
      /\ run' = [run EXCEPT !.at = "write"]
      /\ UNCHANGED <<source, chains, interruptions>>
  BY DEF CreateRecord
<1>2. p \in Path /\ records[p] = NoFile
  BY <1>1, RecordPathIsPath DEF IInv, UnderWay, Accounts, Unrecorded
<1>3. /\ run'.at = "write" /\ run'.version = run.version
      /\ run'.stored = run.stored /\ run'.node = run.node
  BY <1>1 DEF IInv, TypeOK
<1>4. RecordPath(run.version)' = p
  BY <1>3 DEF RecordPath, Current
<1> HIDE DEF p
<1>5. records'[p] = CutShort /\ \A q \in Path : q # p => records'[q] = records[q]
  BY <1>1, <1>2 DEF IInv, TypeOK
<1>6. Recorded' = Recorded
  BY <1>2, <1>5, FileStatesDiffer DEF Recorded
<1>7. Unrecorded'
  BY <1>3, <1>4, <1>5 DEF Unrecorded
<1>8. BeingRecorded' = BeingRecorded /\ interruptions' = interruptions
  BY <1>1, <1>3 DEF BeingRecorded
<1>9. BeingRecorded + interruptions \in Nat /\ interruptions \in Nat
  BY DEF BeingRecorded, IInv, TypeOK
<1>10. BeingRecorded + interruptions <= BeingRecorded' + interruptions'
  BY <1>8, <1>9
<1> QED BY <1>1, <1>6, <1>7, <1>8, <1>9, <1>10, NothingUploaded, SameUploads

\* The upload that was under way has its record.
LEMMA WriteRecordAccounts ==
  ASSUME IInv, Accounts, WriteRecord
  PROVE  Accounts'
<1> DEFINE p == RecordPath(run.version)
<1>1. /\ run.at = "write" /\ records' = [records EXCEPT ![p] = run.code_info]
      /\ Report(run.version, run.code_info)
      /\ UNCHANGED <<source, chains, interruptions>>
  BY DEF WriteRecord
<1>2. p \in Path /\ records[p] = CutShort /\ run.code_info \in CodeInfo
  BY <1>1, RecordPathIsPath DEF IInv, UnderWay, Accounts, Unrecorded
<1>3. run'.at = "check"
  BY <1>1 DEF Report, IInv, TypeOK
<1> HIDE DEF p
<1>4. records'[p] \in CodeInfo /\ \A q \in Path : q # p => records'[q] = records[q]
  BY <1>1, <1>2 DEF IInv, TypeOK
<1>5. Recorded' = Recorded \cup {p} /\ p \notin Recorded
  BY <1>2, <1>4, FileStatesDiffer DEF Recorded
<1>6. /\ IsFiniteSet(Uploads) /\ IsFiniteSet(Recorded)
      /\ Cardinality(Uploads) \in Nat /\ Cardinality(Recorded) \in Nat
  BY FS_CardinalityType DEF Accounts
<1>7. IsFiniteSet(Recorded') /\ Cardinality(Recorded') = Cardinality(Recorded) + 1
  <2>1. /\ IsFiniteSet(Recorded \cup {p})
        /\ Cardinality(Recorded \cup {p}) =
             IF p \in Recorded THEN Cardinality(Recorded) ELSE Cardinality(Recorded) + 1
    BY <1>6, FS_AddElement
  <2> QED BY <1>5, <2>1
<1>8. Uploads' = Uploads /\ interruptions' = interruptions
  BY <1>1, SameUploads
<1>9. BeingRecorded = 1 /\ BeingRecorded' = 0
  BY <1>1, <1>3 DEF BeingRecorded
<1>10. Cardinality(Uploads') <= Cardinality(Recorded') + BeingRecorded' + interruptions'
  <2>1. Cardinality(Uploads) <= Cardinality(Recorded) + 1 + interruptions
    BY <1>9 DEF Accounts
  <2>2. \A x, z, i \in Nat : x <= z + 1 + i => x <= (z + 1) + 0 + i
    OBVIOUS
  <2>3. interruptions \in Nat
    BY DEF IInv, TypeOK
  <2> QED BY <1>6, <1>7, <1>8, <1>9, <2>1, <2>2, <2>3
<1>11. Unrecorded'
  BY <1>3 DEF Unrecorded
<1> QED BY <1>6, <1>7, <1>8, <1>10, <1>11 DEF Accounts

\* A fresh chain has no code.
LEMMA ResetAccounts ==
  ASSUME IInv, Accounts, NEW node \in Nodes, Reset(node)
  PROVE  Accounts'
<1> DEFINE new == Append(chains[node], << >>)
<1>1. /\ chains' = [chains EXCEPT ![node] = new]
      /\ UNCHANGED <<source, records, run, interruptions>>
  BY DEF Reset, IInv, TypeOK
<1>2. chains \in [Nodes -> Seq(Seq(Code))] /\ chains[node] \in Seq(Seq(Code))
  BY DEF IInv, TypeOK
<1>3. /\ DOMAIN chains[node] = 1..Len(chains[node]) /\ Len(chains[node]) \in Nat
      /\ DOMAIN new = 1..(Len(chains[node]) + 1)
      /\ \A i \in 1..Len(chains[node]) : new[i] = chains[node][i]
      /\ new[Len(chains[node]) + 1] = << >>
  <2>1. << >> \in Seq(Code)
    BY EmptySeq
  <2> QED BY <1>2, <2>1, AppendProperties, LenProperties
<1> HIDE DEF new
<1>4. chains'[node] = new /\ \A n \in Nodes : n # node => chains'[n] = chains[n]
  BY <1>1, <1>2
<1>5. \A i \in DOMAIN new : i \notin DOMAIN chains[node] => DOMAIN new[i] = {}
  BY <1>3
<1>6. ASSUME NEW n \in Nodes, NEW i, NEW id
      PROVE  (i \in DOMAIN chains'[n] /\ id \in DOMAIN chains'[n][i])
               <=> (i \in DOMAIN chains[n] /\ id \in DOMAIN chains[n][i])
  <2>1. CASE n # node
    BY <1>4, <2>1
  <2>2. CASE n = node
    <3>1. CASE i \in DOMAIN chains[node]
      BY <1>3, <1>4, <2>2, <3>1
    <3>2. CASE i \notin DOMAIN chains[node]
      BY <1>4, <1>5, <2>2, <3>2
    <3> QED BY <3>1, <3>2
  <2> QED BY <2>1, <2>2
<1>7. Uploads' = Uploads
  BY <1>6 DEF Uploads
<1>8. Unrecorded' /\ Recorded' = Recorded
  BY <1>1 DEF Accounts, Unrecorded, RecordPath, Current, Recorded
<1>9. BeingRecorded' = BeingRecorded /\ interruptions' = interruptions
  BY <1>1 DEF BeingRecorded
<1>10. BeingRecorded + interruptions \in Nat /\ interruptions \in Nat
  BY DEF BeingRecorded, IInv, TypeOK
<1>11. BeingRecorded + interruptions <= BeingRecorded' + interruptions'
  BY <1>9, <1>10
<1> QED BY <1>7, <1>8, <1>9, <1>10, <1>11, NothingUploaded

\* A run that is started, cut off, started again or finished is not at a record;
\* an upload that was not recorded when the run was cut off is charged to the
\* interruption.
LEMMA RunAccounts ==
  ASSUME IInv, Accounts, UNCHANGED <<records, chains>>,
         run'.at \in {"check", "failed", "done"}, interruptions' \in Nat,
         \/ run.at \notin {"create", "write"} /\ interruptions' = interruptions
         \/ interruptions' = interruptions + 1
  PROVE  Accounts'
<1>1. Unrecorded'
  BY DEF Unrecorded
<1>2. BeingRecorded' = 0 /\ BeingRecorded \in 0..1 /\ interruptions \in Nat
  BY DEF BeingRecorded, IInv, TypeOK
<1>3. BeingRecorded + interruptions <= 0 + interruptions'
  <2>1. run.at \notin {"create", "write"} => BeingRecorded = 0
    BY DEF BeingRecorded
  <2>2. \A b \in 0..1, i \in Nat : b + i <= 0 + (i + 1) /\ 0 + i <= 0 + i
    OBVIOUS
  <2> QED BY <1>2, <2>1, <2>2
<1> QED BY <1>1, <1>2, <1>3, NothingUploaded, SameUploads

\* Every step keeps the accounts.
LEMMA NextAccounts == IInv /\ Accounts /\ [Next]_vars => Accounts'
<1> SUFFICES ASSUME IInv, Accounts, [Next]_vars PROVE Accounts'
  OBVIOUS
<1>0. interruptions \in Nat
  BY DEF IInv, TypeOK
<1>1. ASSUME NEW n \in Nodes, Start(n) PROVE Accounts'
  BY <1>0, <1>1, RunAccounts DEF Start, Fresh
<1>2. CASE Retry
  BY <1>0, <1>2, RunAccounts DEF Retry, Fresh
<1>3. CASE CheckRecord
  BY <1>3, CheckRecordAccounts
<1>4. CASE StoreCode
  BY <1>4, StoreCodeAccounts
<1>5. CASE CreateRecord
  BY <1>5, CreateRecordAccounts
<1>6. CASE WriteRecord
  BY <1>6, WriteRecordAccounts
<1>7. CASE Finish
  <2>1. run'.at = "done"
    BY <1>7 DEF Finish, IInv, TypeOK
  <2> QED BY <1>0, <1>7, <2>1, RunAccounts DEF Finish
<1>8. CASE Interrupt
  BY <1>0, <1>8, RunAccounts DEF Interrupt, Stop, Fresh
<1>9. CASE UNCHANGED <<records, chains, run, interruptions>>
  <2>1. Unrecorded'
    BY <1>9 DEF Accounts, Unrecorded, RecordPath, Current
  <2>2. /\ BeingRecorded' = BeingRecorded /\ interruptions' = interruptions
        /\ BeingRecorded + interruptions \in Nat
    BY <1>0, <1>9 DEF BeingRecorded
  <2>3. BeingRecorded + interruptions <= BeingRecorded' + interruptions'
    BY <2>2
  <2> QED BY <1>0, <1>9, <2>1, <2>2, <2>3, NothingUploaded, SameUploads
<1>10. ASSUME NEW n \in LocalNodes, Reset(n) PROVE Accounts'
  BY <1>10, ResetAccounts, LocalNodesAreNodes
<1> QED BY <1>1, <1>2, <1>3, <1>4, <1>5, <1>6, <1>7, <1>8, <1>9, <1>10
        DEF Next, RaiseVersion, Compile, vars

\* At first there are no uploads and no records.
LEMMA InitAccounts == Init => Accounts
<1> SUFFICES ASSUME Init PROVE Accounts
  OBVIOUS
<1>1. Uploads = {}
  <2>1. \A n \in Nodes : chains[n] = << << >> >>
    BY DEF Init
  <2>2. \A i \in DOMAIN << << >> >> : << << >> >>[i] = << >>
    OBVIOUS
  <2>3. DOMAIN << >> = {}
    OBVIOUS
  <2>4. \A n \in Nodes : \A i \in DOMAIN chains[n] : DOMAIN chains[n][i] = {}
    BY <2>1, <2>2, <2>3
  <2> QED BY <2>4 DEF Uploads
<1>2. Recorded = {}
  BY FileStatesDiffer DEF Init, Recorded
<1>3. run.at = "ready" /\ interruptions = 0
  BY DEF Init, Fresh
<1> QED BY <1>1, <1>2, <1>3, FS_EmptySet DEF Accounts, Unrecorded, BeingRecorded

\* For any number of nodes, runs, interruptions, edits and discarded chains, an
\* upload has a record, is being recorded, or was lost to an interruption.
THEOREM UploadsAreAccountedFor == Spec => []UploadsAccountedFor
<1>1. Accounts => UploadsAccountedFor
  BY DEF Accounts, UploadsAccountedFor, Recorded, BeingRecorded
<1> QED BY <1>1, InitHolds, NextKeeps, InitAccounts, NextAccounts, PTL DEF Spec

-----------------------------------------------------------------------------
(* Records that cannot be read. *)

Unreadable == { p \in Path : records[p] = CutShort }
Writing == IF run.at = "write" THEN 1 ELSE 0

\* UnreadableOnlyAfterCrash with what makes it inductive: that the file which is
\* being written is one of those counted, and that they are finitely many.
Charged ==
  /\ run.at = "write" => RecordPath(run.version) \in Unreadable
  /\ IsFiniteSet(Unreadable)
  /\ Cardinality(Unreadable) <= Writing + interruptions

\* A step that does not touch the records.
LEMMA NothingWritten ==
  ASSUME IInv, Charged, records' = records, interruptions' \in Nat,
         run'.at # "write",
         Writing + interruptions <= interruptions'
  PROVE  Charged'
<1>1. Unreadable' = Unreadable
  BY DEF Unreadable
<1>2. Cardinality(Unreadable) \in Nat
  BY FS_CardinalityType DEF Charged
<1>3. Writing \in Nat /\ interruptions \in Nat /\ Writing' = 0
  BY DEF Writing, IInv, TypeOK
<1>4. Cardinality(Unreadable) <= Writing + interruptions
  BY DEF Charged
<1> DEFINE u == Cardinality(Unreadable)
<1>5. u <= Writing' + interruptions'
  <2>1. \A x, b, i, j \in Nat : x <= b + i /\ b + i <= j => x <= 0 + j
    OBVIOUS
  <2> HIDE DEF u
  <2> QED BY <1>2, <1>3, <1>4, <2>1 DEF u
<1> QED BY <1>1, <1>5 DEF Charged

\* A step that is taken when nothing is being written, and writes nothing.
LEMMA NotWriting ==
  ASSUME IInv, Charged, records' = records, run.at # "write", run'.at # "write",
         interruptions' = interruptions
  PROVE  Charged'
<1>1. Writing = 0 /\ interruptions \in Nat
  BY DEF Writing, IInv, TypeOK
<1>2. Writing + interruptions <= interruptions'
  BY <1>1
<1> QED BY <1>1, <1>2, NothingWritten

\* The file that is created cannot be read yet.
LEMMA CreateRecordCharged ==
  ASSUME IInv, Charged, CreateRecord
  PROVE  Charged'
<1> DEFINE p == RecordPath(run.version)
<1>1. /\ run.at = "create" /\ records' = [records EXCEPT ![p] = CutShort]
      /\ run' = [run EXCEPT !.at = "write"]
      /\ interruptions' = interruptions
  BY DEF CreateRecord
<1>2. p \in Path
  BY <1>1, RecordPathIsPath DEF IInv, UnderWay
<1>3. /\ run'.at = "write" /\ run'.version = run.version
      /\ run'.stored = run.stored /\ run'.node = run.node
  BY <1>1 DEF IInv, TypeOK
<1>4. RecordPath(run.version)' = p
  BY <1>3 DEF RecordPath, Current
<1> HIDE DEF p
<1>5. records'[p] = CutShort /\ \A q \in Path : q # p => records'[q] = records[q]
  BY <1>1, <1>2 DEF IInv, TypeOK
<1>6. Unreadable' = Unreadable \cup {p}
  BY <1>2, <1>5 DEF Unreadable
<1>7. IsFiniteSet(Unreadable) /\ Cardinality(Unreadable) \in Nat
  BY FS_CardinalityType DEF Charged
<1>8. /\ IsFiniteSet(Unreadable')
      /\ Cardinality(Unreadable') \in Nat
      /\ Cardinality(Unreadable') <= Cardinality(Unreadable) + 1
  <2>1. /\ IsFiniteSet(Unreadable \cup {p})
        /\ Cardinality(Unreadable \cup {p}) =
             IF p \in Unreadable THEN Cardinality(Unreadable) ELSE Cardinality(Unreadable) + 1
    BY <1>7, FS_AddElement
  <2> QED BY <1>6, <1>7, <2>1
<1>9. Writing = 0 /\ Writing' = 1 /\ interruptions \in Nat
  BY <1>1, <1>3 DEF Writing, IInv, TypeOK
<1>10. Cardinality(Unreadable) <= 0 + interruptions
  BY <1>9 DEF Charged
<1>11. Cardinality(Unreadable') <= Writing' + interruptions'
  <2>1. \A x, y, i \in Nat : x <= y + 1 /\ y <= 0 + i => x <= 1 + i
    OBVIOUS
  <2> QED BY <1>1, <1>7, <1>8, <1>9, <1>10, <2>1
<1> QED BY <1>4, <1>6, <1>8, <1>11 DEF Charged

\* The content makes it a record.
LEMMA WriteRecordCharged ==
  ASSUME IInv, Charged, WriteRecord
  PROVE  Charged'
<1> DEFINE p == RecordPath(run.version)
<1>1. /\ run.at = "write" /\ records' = [records EXCEPT ![p] = run.code_info]
      /\ Report(run.version, run.code_info)
      /\ interruptions' = interruptions
  BY DEF WriteRecord
<1>2. p \in Unreadable /\ p \in Path /\ run.code_info \in CodeInfo
  BY <1>1, RecordPathIsPath DEF IInv, UnderWay, Charged
<1>3. run'.at = "check"
  BY <1>1 DEF Report, IInv, TypeOK
<1> HIDE DEF p
<1>4. records'[p] \in CodeInfo /\ \A q \in Path : q # p => records'[q] = records[q]
  BY <1>1, <1>2 DEF IInv, TypeOK
<1>5. Unreadable' = Unreadable \ {p}
  BY <1>4, FileStatesDiffer DEF Unreadable
<1>6. IsFiniteSet(Unreadable) /\ Cardinality(Unreadable) \in Nat
  BY FS_CardinalityType DEF Charged
<1>7. /\ IsFiniteSet(Unreadable')
      /\ Cardinality(Unreadable') = Cardinality(Unreadable) - 1
  <2>1. /\ IsFiniteSet(Unreadable \ {p})
        /\ Cardinality(Unreadable \ {p}) =
             IF p \in Unreadable THEN Cardinality(Unreadable) - 1 ELSE Cardinality(Unreadable)
    BY <1>6, FS_RemoveElement
  <2> QED BY <1>2, <1>5, <2>1
<1>8. Writing = 1 /\ Writing' = 0 /\ interruptions \in Nat
  BY <1>1, <1>3 DEF Writing, IInv, TypeOK
<1>9. Cardinality(Unreadable) <= 1 + interruptions
  BY <1>8 DEF Charged
<1>10. Cardinality(Unreadable') <= Writing' + interruptions'
  <2>1. \A y, i \in Nat : y <= 1 + i => y - 1 <= 0 + i
    OBVIOUS
  <2> QED BY <1>1, <1>6, <1>7, <1>8, <1>9, <2>1
<1> QED BY <1>3, <1>7, <1>10 DEF Charged

\* Every step keeps the charge.
LEMMA NextCharged == IInv /\ Charged /\ [Next]_vars => Charged'
<1> SUFFICES ASSUME IInv, Charged, [Next]_vars PROVE Charged'
  OBVIOUS
<1>1. ASSUME NEW n \in Nodes, Start(n) PROVE Charged'
  BY <1>1, NotWriting DEF Start, Fresh
<1>2. CASE Retry
  BY <1>2, NotWriting DEF Retry, Fresh
<1>3. CASE CheckRecord
  <2>1. run.at = "check" /\ records' = records /\ interruptions' = interruptions
    BY <1>3 DEF CheckRecord, Looping
  <2>2. run'.at # "write"
    <3>1. CASE run' = [run EXCEPT !.at = "store", !.version = source[Current].version]
      BY <3>1 DEF IInv, TypeOK
    <3>2. CASE Stop
      BY <3>2 DEF Stop, Fresh
    <3>3. ASSUME NEW v, NEW info, Report(v, info) PROVE run'.at # "write"
      BY <3>3 DEF Report, IInv, TypeOK
    <3> QED BY <1>3, <3>1, <3>2, <3>3 DEF CheckRecord
  <2> QED BY <2>1, <2>2, NotWriting
<1>4. CASE StoreCode
  <2>1. run'.at = "create"
    BY <1>4 DEF StoreCode, IInv, TypeOK
  <2> QED BY <1>4, <2>1, NotWriting DEF StoreCode
<1>5. CASE CreateRecord
  BY <1>5, CreateRecordCharged
<1>6. CASE WriteRecord
  BY <1>6, WriteRecordCharged
<1>7. CASE Finish
  <2>1. run'.at = "done"
    BY <1>7 DEF Finish, IInv, TypeOK
  <2> QED BY <1>7, <2>1, NotWriting DEF Finish
<1>8. CASE Interrupt
  <2>1. interruptions \in Nat /\ Writing \in 0..1
    BY DEF Writing, IInv, TypeOK
  <2>2. interruptions' = interruptions + 1 /\ records' = records /\ run'.at = "failed"
    BY <1>8 DEF Interrupt, Stop, Fresh
  <2>3. interruptions' \in Nat /\ Writing + interruptions <= interruptions'
    BY <2>1, <2>2
  <2> QED BY <2>2, <2>3, NothingWritten
<1>9. CASE UNCHANGED <<records, run, interruptions>>
  BY <1>9 DEF Charged, Unreadable, Writing, RecordPath, Current
<1> QED BY <1>1, <1>2, <1>3, <1>4, <1>5, <1>6, <1>7, <1>8, <1>9
        DEF Next, RaiseVersion, Compile, Reset, vars

\* For any number of nodes, runs, interruptions and edits, a record that cannot
\* be read is one that is being written, or was left by an interruption, which
\* leaves no second one.
THEOREM UnreadableAreCharged == Spec => []UnreadableOnlyAfterCrash
<1>1. Init => Charged
  <2> SUFFICES ASSUME Init PROVE Charged
    OBVIOUS
  <2>1. Unreadable = {}
    BY FileStatesDiffer DEF Init, Unreadable
  <2>2. run.at = "ready" /\ interruptions = 0
    BY DEF Init, Fresh
  <2> QED BY <2>1, <2>2, FS_EmptySet DEF Charged, Writing
<1>2. Charged => UnreadableOnlyAfterCrash
  BY DEF Charged, UnreadableOnlyAfterCrash, Unreadable, Writing
<1> QED BY <1>1, <1>2, InitHolds, NextKeeps, NextCharged, PTL DEF Spec
=============================================================================
