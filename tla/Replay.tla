------------------------------- MODULE Replay -------------------------------
(***************************************************************************)
(* replay_transaction (src/src/replay.rs): a transaction is fetched from a *)
(* fuel-core node, then the code of its contracts, then it is dry-run, and *)
(* a summary of what arrived is written.  Requests are sent one after the  *)
(* other; each may fail on its own, and only the first failure is fatal.   *)
(*                                                                         *)
(* A failed answer stands for every error of FuelGraphQLClient::send (no   *)
(* connection, HTTP status, not JSON, GraphQL errors) and of the parsers   *)
(* (no data, no such field).  A field that is null is no error: it parses  *)
(* to empty parts.                                                         *)
(***************************************************************************)
EXTENDS Integers, Sequences, FiniteSets

CONSTANTS None, Contract,
          Inputs,        \* the lists of inputs a transaction may have
          MaxReceipts,   \* receipts of a dry run
          Dir            \* output directories

(* Inputs that are no InputContract with an id; "unnamed" lacks the id.    *)
OtherInput == {"coin", "message", "unnamed"}

ASSUME InputAssumption == Inputs \subseteq Seq(Contract \union OtherInput)
ASSUME DistinctAssumption ==
  Contract \intersect OtherInput = {} /\ MaxReceipts \in Nat /\ None \notin Nat

Transaction == [id : {"tx"}, inputs : Inputs, height : {None, 1}]

EmptyTransaction == [id |-> "", inputs |-> <<>>, height |-> None]

(* What the node may answer, with what is parsed from it. *)
Answers(contents, empty) ==
  [status : {"ok"}, content : contents] \union [status : {"failed", "null"}, content : {empty}]

TransactionAnswer == Answers(Transaction, EmptyTransaction)

BytecodeAnswer == Answers({None}, None)

DryRunAnswer == Answers(0..MaxReceipts, 0)

Config == [output_dir : Dir, source_dir : {None, "unbuilt", "built"},
           historical_execution : BOOLEAN]

VARIABLES
  config,
  stage,     \* idle -> transaction -> bytecode -> dry_run -> write -> done
  tx_data, contract_ids,
  next,      \* position in contract_ids of the next one to fetch
  contracts, source_info, dry_run_result,
  summary,   \* the file replay_summary.json
  log        \* the requests sent, with their answers

replayVars == <<config, stage, tx_data, contract_ids, next, contracts, source_info,
          dry_run_result, summary, log>>

------------------------------------------------------------------------------

MutantExtractUnnamed(inputs) == SelectSeq(inputs, LAMBDA i : i \notin {"coin", "message"})

(* Unique contract ids, in the order of their first input.                 *)
ExtractContractIds(inputs) ==
  LET first == { k \in 1..Len(inputs) :
                   inputs[k] \in Contract /\ \A j \in 1..(k - 1) : inputs[j] # inputs[k] }
      At[k \in 0..Len(inputs)] ==
        IF k = 0 THEN <<>>
        ELSE IF k \in first THEN Append(At[k - 1], inputs[k]) ELSE At[k - 1]
  IN  At[Len(inputs)]

Sent(request, about, answer) ==
  Append(log, [request |-> request, about |-> about, answer |-> answer])

FetchTransaction ==
  /\ stage = "transaction"
  /\ \E answer \in TransactionAnswer :
       /\ log' = Sent("transaction", None, answer)
       /\ IF answer.status = "failed"
            THEN stage' = "failed" /\ UNCHANGED <<tx_data, contract_ids>>
            ELSE /\ stage' = "bytecode"
                 /\ tx_data' = answer.content
                 /\ contract_ids' = ExtractContractIds(tx_data'.inputs)
  /\ UNCHANGED <<config, next, contracts, source_info, dry_run_result, summary>>

(* A failure is reported and skipped.  The code of an unknown contract is  *)
(* null and counts as fetched, empty.                                      *)
FetchBytecode ==
  /\ stage = "bytecode" /\ next <= Len(contract_ids)
  /\ \E answer \in BytecodeAnswer :
       /\ log' = Sent("bytecode", contract_ids[next], answer)
       /\ contracts' = IF answer.status = "failed" THEN contracts
                       ELSE Append(contracts, contract_ids[next])
  /\ next' = next + 1
  /\ UNCHANGED <<config, stage, tx_data, contract_ids, source_info,
                 dry_run_result, summary>>

MutantMapsNeedContracts ==
  /\ stage = "bytecode" /\ next > Len(contract_ids) /\ contract_ids # <<>>
  /\ stage' = "dry_run"
  /\ source_info' = IF config.source_dir = "built" THEN contract_ids ELSE <<>>
  /\ UNCHANGED <<config, tx_data, contract_ids, next, contracts, dry_run_result,
                 summary, log>>

(* find_source_maps looks at the directory only: all contracts or none.    *)
FindSourceMaps ==
  /\ stage = "bytecode" /\ next > Len(contract_ids)
  /\ stage' = "dry_run"
  /\ source_info' = IF config.source_dir = "built" THEN contract_ids ELSE <<>>
  /\ UNCHANGED <<config, tx_data, contract_ids, next, contracts, dry_run_result,
                 summary, log>>

(* Historical execution is announced but nothing runs.                     *)
DryRun ==
  /\ stage = "dry_run"
  /\ stage' = "write"
  /\ IF config.historical_execution
       THEN UNCHANGED <<dry_run_result, log>>
       ELSE \E answer \in DryRunAnswer :
              /\ log' = Sent("dry_run", tx_data.id, answer)
              /\ dry_run_result' = IF answer.status = "failed" THEN None ELSE answer.content
  /\ UNCHANGED <<config, tx_data, contract_ids, next, contracts, source_info, summary>>

MutantCountContracts ==
  [ tx_id |-> tx_data.id, block_height |-> tx_data.height,
    contract_ids |-> contract_ids, contracts_with_bytecode |-> Len(contract_ids),
    has_source_maps |-> source_info # <<>>,
    dry_run_receipts |-> IF dry_run_result = None THEN 0 ELSE dry_run_result,
    historical_execution |-> config.historical_execution ]

Summary ==
  [ tx_id |-> tx_data.id, block_height |-> tx_data.height,
    contract_ids |-> contract_ids, contracts_with_bytecode |-> Len(contracts),
    has_source_maps |-> source_info # <<>>,
    dry_run_receipts |-> IF dry_run_result = None THEN 0 ELSE dry_run_result,
    historical_execution |-> config.historical_execution ]

Write ==
  /\ stage = "write"
  /\ \/ stage' = "done" /\ summary' = Summary
     \/ stage' = "disk_failed" /\ UNCHANGED summary
  /\ UNCHANGED <<config, tx_data, contract_ids, next, contracts, source_info,
                 dry_run_result, log>>

------------------------------------------------------------------------------

ReplayInit ==
  /\ config \in Config
  /\ stage = "idle"
  /\ tx_data = None /\ contract_ids = <<>> /\ next = 1
  /\ contracts = <<>> /\ source_info = <<>> /\ dry_run_result = None
  /\ summary = None /\ log = <<>>

ReplayNext == FetchTransaction \/ FetchBytecode \/ FindSourceMaps \/ DryRun \/ Write

------------------------------------------------------------------------------
(* Properties, checked of CommandLine.                                     *)

Ended == {"failed", "disk_failed", "done"}

ReplayTypeOK ==
  /\ config \in Config
  /\ stage \in {"idle", "transaction", "bytecode", "dry_run", "write"} \union Ended
  /\ tx_data \in {None, EmptyTransaction} \union Transaction
  /\ contract_ids \in Seq(Contract) /\ next \in 1..(Len(contract_ids) + 1)
  /\ contracts \in Seq(Contract) /\ source_info \in Seq(Contract)
  /\ dry_run_result \in {None} \union (0..MaxReceipts)

Requests(kind) == {k \in 1..Len(log) : log[k].request = kind}

(* Only a transaction that cannot be fetched fails a replay before it      *)
(* writes (replay.rs:830-832, 863-869, 908-911).  The summary says what    *)
(* the node answered, whichever answers failed: the contracts of the       *)
(* transaction, each asked for once, how many of these requests did not    *)
(* fail, and the receipts of the one dry run or 0 (replay.rs:863-871 and   *)
(* 919-932).  A contract that is null counts: it parses to an empty        *)
(* bytecode (572-585), although the field is documented as the number of   *)
(* contracts "for which bytecode was fetched" (962).                       *)
SummaryMatchesAnswers ==
  /\ stage = "failed" => log[1].answer.status = "failed"
  /\ summary # None =>
    LET inputs == log[1].answer.content.inputs
        ids == summary.contract_ids
    IN  /\ Requests("bytecode") = 2..(Len(ids) + 1)
        /\ \A k \in 1..Len(ids) : log[k + 1].about = ids[k]
        /\ \A i, j \in 1..Len(ids) : ids[i] = ids[j] => i = j
        /\ {ids[k] : k \in 1..Len(ids)} = {inputs[k] : k \in 1..Len(inputs)} \ OtherInput
        /\ summary.contracts_with_bytecode
             = Cardinality({k \in Requests("bytecode") : log[k].answer.status # "failed"})
        /\ \A k \in Requests("dry_run") :
             k = Len(log) /\ summary.dry_run_receipts = log[k].answer.content
        /\ Requests("dry_run") = {} => summary.dry_run_receipts = 0

(* "For now, fall back to dryRun" (replay.rs:898).                         *)
HistoricalFallsBackToDryRun ==
  stage = "done" => Requests("dry_run") # {}
==============================================================================
