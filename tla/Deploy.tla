------------------------------- MODULE Deploy -------------------------------
(***************************************************************************)
(* DeployHandler with processTx inside it, and the two event handlers that *)
(* finish its work beside it: TxExecutedHandler writes status and address  *)
(* into the contract row, ContractDeployedHandler links contract and       *)
(* transaction to the wallet.  When the command describes the collection,  *)
(* the handler itself stores common metadata, after the deployment.  Each  *)
(* command is the Job of its call of processTx.  Clients execute payloads  *)
(* of dry runs, and write whatever status they like into a contract row,   *)
(* at any time, through updateStatus.                                      *)
(***************************************************************************)
EXTENDS ProcessTx

\* The statuses of the enum Statuses, "pending" standing for those that no code of
\* the service writes or reads.
Status == {"created", "pending", "processed", "failed"}

VARIABLES
    described,      \* meta_data, asset_url and asset_type are all there
    hpc,            \* what the handler awaits; "call": processTx
    reply,          \* what it has answered
    contractRow,    \* status of the row in contracts
    address,        \* the row has the address of a contract
    reported,       \* history: the jobs whose row's status a client wrote last
    client,         \* what became of a dry run's payload, executed by the client
    links,          \* ContractDeployedHandler; "contract": the first link is made
    asset,          \* asset and metadata, once buildMetadata has returned them
    metadata        \* the row in metadata

handlerVars == <<described, hpc, reply>>
contractVars == <<contractRow, address, reported>>
dvars == <<vars, handlerVars, contractVars, client, links, asset, metadata>>

DeployTypeOK ==
    /\ TypeOK
    /\ described \in [Job -> BOOLEAN]
    /\ hpc \in [Job -> {"wallet", "create", "call", "build", "store", "attach", "over"}]
    /\ reply \in [Job -> {"none", "ok", "error"}]
    /\ contractRow \in [Job -> {"absent"} \cup Status]
    /\ address \in [Job -> BOOLEAN]
    /\ reported \subseteq Job
    /\ client \in [Job -> {"none", "succeeded", "reverted"}]
    /\ \A j \in Job : address[j] => contractRow[j] # "absent"
    /\ links \in [Job -> {"none", "published", "contract", "both", "broken"}]
    /\ asset \in [Job -> {"none", "built"}]
    /\ metadata \in [Job -> {"absent", "created", "attached"}]

DeployInit ==
    /\ Init
    /\ described \in [Job -> BOOLEAN]
    /\ hpc = [j \in Job |-> "wallet"]
    /\ reply = [j \in Job |-> "none"]
    /\ contractRow = [j \in Job |-> "absent"]
    /\ address = [j \in Job |-> FALSE]
    /\ reported = {}
    /\ client = [j \in Job |-> "none"]
    /\ links = [j \in Job |-> "none"]
    /\ asset = [j \in Job |-> "none"]
    /\ metadata = [j \in Job |-> "absent"]

HandlerGoto(j, l) == hpc' = [hpc EXCEPT ![j] = l] /\ UNCHANGED <<described, reply>>
Reply(j, r) ==
    /\ hpc' = [hpc EXCEPT ![j] = "over"]
    /\ reply' = [reply EXCEPT ![j] = r]
    /\ UNCHANGED described

-----------------------------------------------------------------------------
(* DeployHandler.execute                                                   *)

FindWallet(j) ==
    /\ hpc[j] = "wallet"
    /\ HandlerGoto(j, "create")
    /\ UNCHANGED <<vars, contractVars, client, links, asset, metadata>>

\* The row is created, the constructor call encoded and processTx called in the
\* same turn, unless encoding throws and leaves the row behind.
CreateContract(j) ==
    /\ hpc[j] = "create"
    /\ contractRow' = [contractRow EXCEPT ![j] = "created"]
    /\ \/ Call(j) /\ HandlerGoto(j, "call")
       \/ UNCHANGED vars /\ Reply(j, "error")
    /\ UNCHANGED <<address, reported, client, links, asset, metadata>>

\* No such wallet, or the table refuses.
DeployRefused(j) ==
    /\ hpc[j] \in {"wallet", "create"}
    /\ Reply(j, "error")
    /\ UNCHANGED <<vars, contractVars, client, links, asset, metadata>>

\* Mutant: the handler itself completes the row when processTx has returned.
DeployReturnsMarked(j) ==
    /\ hpc[j] = "call"
    /\ result[j] \in {"payload", "receipt"}
    /\ contractRow' = [contractRow EXCEPT ![j] = "processed"]
    /\ address' = [address EXCEPT ![j] = TRUE]
    /\ IF described[j] THEN HandlerGoto(j, "build") ELSE Reply(j, "ok")
    /\ UNCHANGED <<vars, reported, client, links, asset, metadata>>

\* processTx returned: ContractDeployedEvent is published, with a dry run's
\* payload too, and the handler goes on to the metadata, if there is any.
DeployReturns(j) ==
    /\ hpc[j] = "call"
    /\ result[j] \in {"payload", "receipt"}
    /\ links' = [links EXCEPT ![j] = "published"]
    /\ IF described[j] THEN HandlerGoto(j, "build") ELSE Reply(j, "ok")
    /\ UNCHANGED <<vars, contractVars, client, asset, metadata>>

DeployThrows(j) ==
    /\ hpc[j] = "call"
    /\ result[j] = "error"
    /\ Reply(j, "error")
    /\ UNCHANGED <<vars, contractVars, client, links, asset, metadata>>

\* Mutant: the address is read with ?. and is simply missing in a dry run.
BuildMetadataAnyway(j) ==
    /\ hpc[j] = "build"
    /\ asset' = [asset EXCEPT ![j] = "built"]
    /\ HandlerGoto(j, "store")
    /\ UNCHANGED <<vars, contractVars, client, links, metadata>>

\* buildMetadata has returned: the asset is pinned, its type known.  The address is read from
\* tx.txModel, which the result of a dry run has not: TypeError.
BuildMetadata(j) ==
    /\ hpc[j] = "build"
    /\ asset' = [asset EXCEPT ![j] = "built"]
    /\ IF req[j].execute THEN HandlerGoto(j, "store") ELSE Reply(j, "error")
    /\ UNCHANGED <<vars, contractVars, client, links, metadata>>

StoreMetadata(j) ==
    /\ hpc[j] = "store"
    /\ metadata' = [metadata EXCEPT ![j] = "created"]
    /\ HandlerGoto(j, "attach")
    /\ UNCHANGED <<vars, contractVars, client, links, asset>>

AttachMetadata(j) ==
    /\ hpc[j] = "attach"
    /\ metadata' = [metadata EXCEPT ![j] = "attached"]
    /\ Reply(j, "ok")
    /\ UNCHANGED <<vars, contractVars, client, links, asset>>

\* Mutant: the deployment is done, so its command is answered with success.
DescribeFailsSilently(j) ==
    /\ hpc[j] \in {"build", "store", "attach"}
    /\ Reply(j, "ok")
    /\ UNCHANGED <<vars, contractVars, client, links, asset, metadata>>

\* The asset is not found, cannot be pinned or has no known type, or the table
\* refuses: the caller of a deployment that is done is told of an error.
DescribeFails(j) ==
    /\ hpc[j] \in {"build", "store", "attach"}
    /\ Reply(j, "error")
    /\ UNCHANGED <<vars, contractVars, client, links, asset, metadata>>

-----------------------------------------------------------------------------
(* The event handlers, processTx, the network, the end of the process      *)

\* Mutant: the whole row is saved as the handler has it, not its wallet only.
LinkContractSavesRow(j) ==
    /\ links[j] = "published"
    /\ links' = [links EXCEPT ![j] = "contract"]
    /\ contractRow' = [contractRow EXCEPT ![j] = "created"]
    /\ UNCHANGED <<vars, handlerVars, address, reported, client, asset, metadata>>

\* The row's wallet_id is updated, and nothing else of it.
LinkContract(j) ==
    /\ links[j] = "published"
    /\ links' = [links EXCEPT ![j] = "contract"]
    /\ UNCHANGED <<vars, handlerVars, contractVars, client, asset, metadata>>

\* A dry run has no transaction row to link.
LinkTransaction(j) ==
    /\ links[j] = "contract"
    /\ links' = [links EXCEPT ![j] = IF result[j] = "receipt" THEN "both" ELSE "broken"]
    /\ UNCHANGED <<vars, handlerVars, contractVars, client, asset, metadata>>

\* The handler catches (also that a dry run may have found no wallet), logs, ends.
LinkFails(j) ==
    /\ links[j] \in {"published", "contract"}
    /\ links' = [links EXCEPT ![j] = "broken"]
    /\ UNCHANGED <<vars, handlerVars, contractVars, client, asset, metadata>>

\* TxExecutedHandler, case DEPLOY: status and address, over a client's report too.
SettleContract(j) ==
    /\ HandleEvent(j)
    /\ contractRow' = IF event'[j] = "handled"
                      THEN [contractRow EXCEPT ![j] = "processed"] ELSE contractRow
    /\ address' = [address EXCEPT ![j] = @ \/ event'[j] = "handled"]
    /\ reported' = IF event'[j] = "handled" THEN reported \ {j} ELSE reported
    /\ UNCHANGED <<handlerVars, client, links, asset, metadata>>

Around(A) == A /\ UNCHANGED <<handlerVars, contractVars, client, links, asset, metadata>>

-----------------------------------------------------------------------------
(* The client.                                                             *)

\* It signs and sends the payload of a dry run, which is mined.
ClientExecutes(j) ==
    /\ reply[j] = "ok" /\ ~req[j].execute /\ client[j] = "none"
    /\ nonce[j] = txCount[From(j)]
    /\ \E o \in {"succeeded", "reverted"} : client' = [client EXCEPT ![j] = o]
    /\ UseUpNonce(From(j), tx)
    /\ UNCHANGED <<serviceVars, handlerVars, contractVars, links, asset, metadata>>

\* Mutant: without the validation of the request.
UpdateStatusUnchecked(j) ==
    /\ contractRow[j] # "absent"
    /\ \E s \in Status \cup {"shipped"} : contractRow' = [contractRow EXCEPT ![j] = s]
    /\ reported' = reported \cup {j}
    /\ UNCHANGED <<vars, handlerVars, address, client, links, asset, metadata>>

\* updateStatus: the client's word is written, at any time and whatever the row
\* says; no receipt is looked up, and no address written.
UpdateStatus(j) ==
    /\ contractRow[j] # "absent"
    /\ \E s \in Status : contractRow' = [contractRow EXCEPT ![j] = s]
    /\ reported' = reported \cup {j}
    /\ UNCHANGED <<vars, handlerVars, address, client, links, asset, metadata>>

-----------------------------------------------------------------------------
HandlerBusy(j) == hpc[j] \notin {"wallet", "over"}
Linking(j) == links[j] \in {"published", "contract"}

DeployCrash ==
    /\ \E j \in Job : \/ HandlerBusy(j) \/ Linking(j)
                      \/ linked[j] = "pending" \/ event[j] = "published"
    /\ LoseMemory
    /\ hpc' = [j \in Job |-> IF HandlerBusy(j) THEN "over" ELSE hpc[j]]
    /\ links' = [j \in Job |-> IF Linking(j) THEN "broken" ELSE links[j]]
    /\ UNCHANGED <<described, reply, contractVars, client, asset, metadata>>

DeployQuiet == (\A j \in Job : hpc[j] = "over") /\ UNCHANGED dvars

DeployNext ==
    \/ \E j \in Job :
        \/ FindWallet(j) \/ CreateContract(j) \/ DeployRefused(j)
        \/ DeployReturns(j) \/ DeployThrows(j)
        \/ BuildMetadata(j) \/ StoreMetadata(j) \/ AttachMetadata(j) \/ DescribeFails(j)
        \/ LinkContract(j) \/ LinkTransaction(j) \/ LinkFails(j) \/ SettleContract(j)
        \/ ClientExecutes(j) \/ UpdateStatus(j)
        \/ Around(Step(j)) \/ Around(Mine(j))
    \/ DeployCrash
    \/ DeployQuiet

DeploySpec == DeployInit /\ [][DeployNext]_dvars

-----------------------------------------------------------------------------
(* Properties.                                                             *)

\* Until a client reports, the row says PROCESSED exactly if it has its address,
\* which is of a contract in the chain, and it never says FAILED: whatever the two
\* event handlers, which nobody awaits, do to it in whatever order, and whichever of
\* them a crash or a failing save takes.  What the service has written is so until
\* a client overwrites it, and what a client wrote the receipt's event corrects.
UnreportedStatusIsTrue ==
    \A j \in Job \ reported :
        /\ contractRow[j] \in {"absent", "created", "processed"}
        /\ contractRow[j] = "processed" <=> address[j]
        /\ address[j] => tx[j] = "succeeded"

\* The row has an address only of a contract that the service itself has deployed,
\* from the event of its receipt; and a deployment answered with success has it,
\* or else its handler is still running or has failed.  (A contract that a client
\* has deployed never gets one, and no report changes an address.)
AddressIsOfReceipt ==
    \A j \in Job :
        /\ address[j] => tx[j] = "succeeded" /\ event[j] = "handled"
        /\ reply[j] = "ok" /\ req[j].execute =>
               address[j] \/ event[j] \in {"published", "dropped"}

\* Common metadata exists only for a contract that is in the chain and recorded,
\* so that it never carries an address that is none.
MetadataIsOfDeployed ==
    \A j \in Job : metadata[j] # "absent" => tx[j] = "succeeded" /\ txModel[j] = "processed"

\* Success means that all has been done that was asked for: the transaction is
\* mined and recorded, and the metadata attached; or a payload and nothing more.
SuccessIsComplete ==
    \A j \in Job : reply[j] = "ok" =>
        /\ described[j] => metadata[j] = "attached"
        /\ IF req[j].execute THEN tx[j] = "succeeded" /\ txModel[j] = "processed"
           ELSE tx[j] = "unsent" /\ txModel[j] = "absent"

\* What became of a deployment in the chain, whoever has executed it.
Outcome(j) == IF req[j].execute THEN tx[j] ELSE client[j]

\* INTEGRATION.md:539: "The microservice will retrieve the transaction receipt from
\* the blockchain using this transaction hash and will update the status of the
\* object [...] depending on the results of the transaction": a deployment that is
\* mined does not become PROCESSED or FAILED against its receipt.
StatusByReceipt ==
    [][\A j \in Job :
          contractRow'[j] # contractRow[j] =>
              /\ Outcome(j) = "reverted" => contractRow'[j] # "processed"
              /\ Outcome(j) = "succeeded" => contractRow'[j] # "failed"]_dvars
=============================================================================
