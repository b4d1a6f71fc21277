------------------------------ MODULE ProcessTx ------------------------------
(***************************************************************************)
(* Web3Service.processTx: the routine through which every deploy, mint,    *)
(* whitelist and common command reaches the blockchain.  A Job is one call *)
(* of it.  Calls run concurrently: every await is a point where the event  *)
(* loop may run another call, so each stretch between two awaits is an     *)
(* action.  Around the jobs there are                                      *)
(*   - the node and its chain (external): a transaction count per wallet   *)
(*     and the fate of each job's signed transaction,                      *)
(*   - the transactions table, which survives a crash,                     *)
(*   - the work processTx starts and does not await: the link of the row   *)
(*     to its contract and the handler of TxExecutedEvent.                 *)
(***************************************************************************)
EXTENDS Naturals

CONSTANTS
    Job,            \* calls of processTx
    Wallet,         \* from_address values
    NonceBound      \* transactions of other signers are mined up to this count

ASSUME NonceBoundAssumption == NonceBound \in Nat

VARIABLES
    req,        \* txPayload of each job, as far as control depends on it
    pc,         \* where the job is
    nonce,      \* tx.nonce
    result,     \* what the caller of processTx has been given
    txModel,    \* status of the job's row in the transactions table
    linked,     \* the row's contract_id, written by the un-awaited $add
    event,      \* TxExecutedEvent and the TxExecutedHandler it starts
    tx,         \* the job's signed transaction, as the network sees it
    txCount     \* transactions of each wallet in the chain

serviceVars == <<req, pc, nonce, result, txModel, linked, event>>
chainVars == <<tx, txCount>>
vars == <<req, pc, nonce, result, txModel, linked, event, tx, txCount>>

Request == [from: Wallet, execute: BOOLEAN]

TypeOK ==
    /\ req \in [Job -> Request]
    /\ pc \in [Job -> {"idle", "nonce", "estimate", "record", "send", "wait",
                       "save", "done", "lost"}]
    /\ nonce \in [Job -> Nat]
    /\ result \in [Job -> {"none", "payload", "receipt", "error"}]
    /\ txModel \in [Job -> {"absent", "created", "processed"}]
    /\ linked \in [Job -> {"no", "pending", "yes"}]
    /\ event \in [Job -> {"none", "published", "handled", "dropped"}]
    /\ tx \in [Job -> {"unsent", "pending", "succeeded", "reverted", "void"}]
    /\ txCount \in [Wallet -> Nat]

Init ==
    /\ req \in [Job -> Request]
    /\ pc = [j \in Job |-> "idle"]
    /\ nonce = [j \in Job |-> 0]
    /\ result = [j \in Job |-> "none"]
    /\ txModel = [j \in Job |-> "absent"]
    /\ linked = [j \in Job |-> "no"]
    /\ event = [j \in Job |-> "none"]
    /\ tx = [j \in Job |-> "unsent"]
    /\ txCount = [w \in Wallet |-> 0]

From(j) == req[j].from
Called(j) == pc[j] # "idle"
Ended(j) == pc[j] \in {"done", "lost"}
InFlight(j) == Called(j) /\ ~Ended(j)
Mined(j) == tx[j] \in {"succeeded", "reverted"}

Goto(j, l) == pc' = [pc EXCEPT ![j] = l]
Return(j, r) == Goto(j, "done") /\ result' = [result EXCEPT ![j] = r]

-----------------------------------------------------------------------------
(* The service.                                                            *)

\* The command handler awaits processTx.
Call(j) ==
    /\ pc[j] = "idle"
    /\ Goto(j, "nonce")
    /\ UNCHANGED <<req, nonce, result, txModel, linked, event, chainVars>>

\* Mutant: the nonce of the last mined transaction, not of the next one.
ReadNonceOffByOne(j) ==
    /\ pc[j] = "nonce"
    /\ nonce' = [nonce EXCEPT ![j] = txCount[From(j)] - 1]
    /\ Goto(j, "estimate")
    /\ UNCHANGED <<req, result, txModel, linked, event, chainVars>>

\* After the gas price calls: nonce is the count of mined transactions
\* (getTransactionCount without a block argument means "latest").
ReadNonce(j) ==
    /\ pc[j] = "nonce"
    /\ nonce' = [nonce EXCEPT ![j] = txCount[From(j)]]
    /\ Goto(j, "estimate")
    /\ UNCHANGED <<req, result, txModel, linked, event, chainVars>>

\* Mutant: the row is written later, with the receipt.
EstimateThenSend(j) ==
    /\ pc[j] = "estimate"
    /\ \/ ~req[j].execute /\ Return(j, "payload")
       \/ req[j].execute /\ Goto(j, "send") /\ UNCHANGED result
    /\ UNCHANGED <<req, nonce, txModel, linked, event, chainVars>>

\* estimateGas and getBalance answered and the commission is covered: a dry
\* run is over, an executing call goes on to write its row.
Estimate(j) ==
    /\ pc[j] = "estimate"
    /\ \/ /\ ~req[j].execute
          /\ Return(j, "payload")
       \/ /\ req[j].execute
          /\ Goto(j, "record")
          /\ UNCHANGED result
    /\ UNCHANGED <<req, nonce, txModel, linked, event, chainVars>>

\* A call of the node fails, the estimated call reverts or the balance is too
\* small: processTx throws before it has written anything.
Refuse(j) ==
    /\ pc[j] \in {"nonce", "estimate"}
    /\ Return(j, "error")
    /\ UNCHANGED <<req, nonce, txModel, linked, event, chainVars>>

\* repository.create answers; $add is started and not awaited.
CreateRow(j) ==
    /\ pc[j] = "record"
    /\ txModel' = [txModel EXCEPT ![j] = "created"]
    /\ linked' = [linked EXCEPT ![j] = "pending"]
    /\ Goto(j, "send")
    /\ UNCHANGED <<req, nonce, result, event, chainVars>>

\* repository.create rejects, before or after the database kept the row.
CreateRowFails(j) ==
    /\ pc[j] = "record"
    /\ \E s \in {"absent", "created"} : txModel' = [txModel EXCEPT ![j] = s]
    /\ Return(j, "error")
    /\ UNCHANGED <<req, nonce, linked, event, chainVars>>

\* The node takes a raw transaction whose nonce is not used up.  The answer
\* with the hash may be lost, and then sendSignedTransaction rejects although
\* the network has the transaction.
Broadcast(j) ==
    /\ pc[j] = "send"
    /\ nonce[j] >= txCount[From(j)]
    /\ tx' = [tx EXCEPT ![j] = "pending"]
    /\ \/ Goto(j, "wait") /\ UNCHANGED result
       \/ Return(j, "error")
    /\ UNCHANGED <<req, nonce, txModel, linked, event, txCount>>

\* decrypt or sign throws, or the node refuses: nonce too low, underpriced
\* beside a transaction with that nonce, funds too small for gas and value.
BroadcastRefused(j) ==
    /\ pc[j] = "send"
    /\ Return(j, "error")
    /\ UNCHANGED <<req, nonce, txModel, linked, event, chainVars>>

\* Mutant: the transaction counts as executed once its nonce is used up.
ReceiptByNonce(j) ==
    /\ pc[j] = "wait"
    /\ nonce[j] < txCount[From(j)]
    /\ event' = [event EXCEPT ![j] = "published"]
    /\ Goto(j, "save")
    /\ UNCHANGED <<req, nonce, result, txModel, linked, chainVars>>

\* Mutant: a receipt that comes after the time-out is still taken.
LateReceiptOk(j) ==
    /\ pc[j] \in {"wait", "done"}
    /\ tx[j] = "succeeded"
    /\ event[j] = "none"
    /\ event' = [event EXCEPT ![j] = "published"]
    /\ Goto(j, "save")
    /\ UNCHANGED <<req, nonce, result, txModel, linked, chainVars>>

\* The poll for the hash finds a receipt with status true: the event is
\* published, which starts its handler, before the row is saved.
ReceiptOk(j) ==
    /\ pc[j] = "wait"
    /\ tx[j] = "succeeded"
    /\ event' = [event EXCEPT ![j] = "published"]
    /\ Goto(j, "save")
    /\ UNCHANGED <<req, nonce, result, txModel, linked, chainVars>>

\* Status false: web3 rejects the promise, so that the branch meant to store
\* FAILED does not run (and would throw: txModel is not an array there).
ReceiptReverted(j) ==
    /\ pc[j] = "wait"
    /\ tx[j] = "reverted"
    /\ Return(j, "error")
    /\ UNCHANGED <<req, nonce, txModel, linked, event, chainVars>>

\* Mutant: no time-out.
NeverGiveUp(j) == pc[j] = "wait" /\ tx[j] = "reverted" /\ UNCHANGED vars

\* Mutant: a call that is given up takes its row back.
GiveUpAndDelete(j) ==
    /\ pc[j] = "wait"
    /\ txModel' = [txModel EXCEPT ![j] = "absent"]
    /\ Return(j, "error")
    /\ UNCHANGED <<req, nonce, linked, event, chainVars>>

\* web3 stops polling, after its time or its number of blocks, or a poll
\* fails.  The transaction stays with the network.
GiveUp(j) ==
    /\ pc[j] = "wait"
    /\ Return(j, "error")
    /\ UNCHANGED <<req, nonce, txModel, linked, event, chainVars>>

SaveRow(j) ==
    /\ pc[j] = "save"
    /\ txModel' = [txModel EXCEPT ![j] = "processed"]
    /\ Return(j, "receipt")
    /\ UNCHANGED <<req, nonce, linked, event, chainVars>>

\* Mutant: a failed save is logged and not reported.
SaveRowFailsSilently(j) ==
    /\ pc[j] = "save"
    /\ Return(j, "receipt")
    /\ UNCHANGED <<req, nonce, txModel, linked, event, chainVars>>

\* txModel.save rejects, before or after the database kept the update.
SaveRowFails(j) ==
    /\ pc[j] = "save"
    /\ \E s \in {"created", "processed"} : txModel' = [txModel EXCEPT ![j] = s]
    /\ Return(j, "error")
    /\ UNCHANGED <<req, nonce, linked, event, chainVars>>

-----------------------------------------------------------------------------
(* Work that processTx started and nobody awaits.                          *)

LinkRow(j) ==
    /\ linked[j] = "pending"
    /\ linked' = [linked EXCEPT ![j] = "yes"]
    /\ UNCHANGED <<req, pc, nonce, result, txModel, event, chainVars>>

\* TxExecutedHandler saves the contract, token or whitelist rows, or catches
\* the error of the save, logs it and forgets the event.
HandleEvent(j) ==
    /\ event[j] = "published"
    /\ \E e \in {"handled", "dropped"} : event' = [event EXCEPT ![j] = e]
    /\ UNCHANGED <<req, pc, nonce, result, txModel, linked, chainVars>>

\* What was in memory is gone, the table and the chain are not.
LoseMemory ==
    /\ pc' = [j \in Job |-> IF InFlight(j) THEN "lost" ELSE pc[j]]
    /\ linked' = [j \in Job |-> IF linked[j] = "pending" THEN "no" ELSE linked[j]]
    /\ event' = [j \in Job |-> IF event[j] = "published" THEN "dropped" ELSE event[j]]
    /\ UNCHANGED <<req, nonce, result, txModel, chainVars>>

\* The process dies (an unhandled rejection of $add is enough) and comes up
\* again; nothing at start-up looks for rows left CREATED.
Crash ==
    /\ \E j \in Job : InFlight(j) \/ linked[j] = "pending" \/ event[j] = "published"
    /\ LoseMemory

-----------------------------------------------------------------------------
(* The network.  Several pending transactions of one wallet may carry the  *)
(* same nonce (a replacement); the one that is mined makes the others void. *)

UseUpNonce(w, t) ==
    /\ txCount' = [txCount EXCEPT ![w] = @ + 1]
    /\ tx' = [k \in Job |->
                IF t[k] = "pending" /\ From(k) = w /\ nonce[k] = txCount[w]
                THEN "void" ELSE t[k]]

Mine(j) ==
    /\ tx[j] = "pending"
    /\ nonce[j] = txCount[From(j)]
    /\ \E o \in {"succeeded", "reverted"} :
           UseUpNonce(From(j), [tx EXCEPT ![j] = o])
    /\ UNCHANGED serviceVars

\* A transaction of the same wallet that processTx did not send: a client
\* that signs the payload of a dry run, or sendAdmin.
MineForeign(w) ==
    /\ txCount[w] < NonceBound
    /\ UseUpNonce(w, tx)
    /\ UNCHANGED serviceVars

-----------------------------------------------------------------------------
Step(j) ==
    \/ ReadNonce(j) \/ Estimate(j) \/ Refuse(j)
    \/ CreateRow(j) \/ CreateRowFails(j)
    \/ Broadcast(j) \/ BroadcastRefused(j)
    \/ ReceiptOk(j) \/ ReceiptReverted(j) \/ GiveUp(j)
    \/ SaveRow(j) \/ SaveRowFails(j)

Background(j) == LinkRow(j) \/ HandleEvent(j)

Network == (\E j \in Job : Mine(j)) \/ (\E w \in Wallet : MineForeign(w))

\* All calls have been made and are over.
Quiet == (\A j \in Job : Ended(j)) /\ UNCHANGED vars

Next ==
    \/ \E j \in Job : Call(j) \/ Step(j) \/ Background(j)
    \/ Crash
    \/ Network
    \/ Quiet

Spec == Init /\ [][Next]_vars

-----------------------------------------------------------------------------
(* Properties.                                                             *)

\* The table is a write-ahead log of the chain: whatever became of the call,
\* a transaction that the network has seen has a row, written before it.  (The
\* row is created at 138 and the transaction sent at 143, with a crash, a
\* lost answer or a time-out possible anywhere between and after.)
WriteAhead == \A j \in Job : tx[j] # "unsent" => txModel[j] # "absent"

\* The service takes the job for executed: its row says PROCESSED, or the event
\* that marks its contract, token or whitelist rows PROCESSED is out.
TakenForExecuted(j) == txModel[j] = "processed" \/ event[j] # "none"

\* What the service takes for executed is executed: the job's own transaction
\* is in the chain and succeeded, it did not lose its nonce to a rival.
ProcessedIsMined == \A j \in Job : TakenForExecuted(j) => tx[j] = "succeeded"

\* The caller is told the truth: with a receipt the row says PROCESSED; with
\* a bare payload the call has left no trace in the table or in the chain.
AnswerIsTrue ==
    \A j \in Job :
        /\ result[j] = "receipt" => txModel[j] = "processed" /\ tx[j] = "succeeded"
        /\ result[j] = "payload" => /\ ~req[j].execute
                                    /\ txModel[j] = "absent" /\ tx[j] = "unsent"

\* Concurrent calls of one wallet read the same nonce; the service takes at
\* most one of them for executed.
OneWinnerPerNonce ==
    \A j, k \in Job :
        /\ TakenForExecuted(j) /\ TakenForExecuted(k)
        /\ From(j) = From(k)
        /\ nonce[j] = nonce[k]
        => j = k

\* A step never takes a record back, and a call that is over is never taken up
\* again: its row keeps the status and its caller the answer it was left with,
\* even when the transaction is mined later; what was not sent stays unsent.  The
\* link to the contract, made by a promise nobody awaits, beside the save of the
\* row or after the answer, does not undo the save, and neither save nor crash
\* undoes a link that is made.
NoneRevised ==
    \A j \in Job :
        /\ txModel[j] # "absent" => txModel'[j] # "absent"
        /\ txModel[j] = "processed" => txModel'[j] = "processed"
        /\ linked[j] = "yes" => linked'[j] = "yes"
        /\ Ended(j) => /\ pc'[j] = pc[j] /\ result'[j] = result[j]
                       /\ txModel'[j] = txModel[j]
                       /\ tx[j] = "unsent" => tx'[j] = "unsent"

\* No step revises what is on record or over.
NoSecondThoughts == [][NoneRevised]_vars

\* Every call ends: in an answer, or with the process.  A call whose nonce was
\* taken by a rival waits for a receipt that never comes, and is ended only by
\* the time-out of web3.  (Under the fairness of SqsConsumer.)
CallEnds == \A j \in Job : Called(j) ~> Ended(j)

\* processTx keeps TxPromise: the chain's view of a job is reduced to whether
\* its transaction has been executed and how.
Promise == INSTANCE TxPromise WITH
    row <- txModel,
    effect <- [j \in Job |-> IF Mined(j) THEN tx[j] ELSE "none"],
    answer <- result

KeepsPromise == Promise!Spec
=============================================================================
