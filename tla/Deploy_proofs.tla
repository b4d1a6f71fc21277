---------------------------- MODULE Deploy_proofs ----------------------------
(* Proofs about DeployHandler and the event handlers beside it, for any number *)
(* of commands and wallets.                                                    *)
EXTENDS Deploy, ProcessTx_proofs

\* Where the handler is tells what it has called, stored and answered.
HandlerProgress ==
    \A j \in Job :
        /\ hpc[j] \in {"wallet", "create"} => pc[j] = "idle" /\ contractRow[j] = "absent"
        /\ hpc[j] \in {"wallet", "create", "call", "build"} => metadata[j] = "absent"
        /\ hpc[j] # "over" => reply[j] = "none"
        /\ hpc[j] \in {"build", "store", "attach"} =>
               described[j] /\ result[j] \in {"payload", "receipt"}
        /\ hpc[j] \in {"store", "attach"} \/ metadata[j] # "absent" => result[j] = "receipt"
        /\ reply[j] = "ok" => /\ result[j] \in {"payload", "receipt"}
                              /\ described[j] => metadata[j] = "attached"

\* The contract row is there before the call, and its address comes with the
\* event of the receipt.
ContractRecord ==
    \A j \in Job :
        /\ pc[j] # "idle" => contractRow[j] # "absent"
        /\ address[j] <=> event[j] = "handled"

DeployInv ==
    /\ DeployTypeOK
    /\ IInv
    /\ HandlerProgress
    /\ ContractRecord
    /\ UnreportedStatusIsTrue

-----------------------------------------------------------------------------
\* Before the first command there is no contract row.
LEMMA DeployInvInit == DeployInit => DeployInv
<1> SUFFICES ASSUME DeployInit PROVE DeployInv
  OBVIOUS
<1>1. IInv
  BY InvInit DEF DeployInit
<1>2. QED
  BY <1>1 DEF DeployInit, Init, DeployInv, DeployTypeOK, HandlerProgress, ContractRecord,
     UnreportedStatusIsTrue, IInv

\* Whatever the handlers do, processTx takes a step of its own or none; only a
\* client uses up a nonce beside it.
LEMMA DeployMovesService ==
    DeployInv /\ [DeployNext]_dvars =>
        \/ [Next]_vars
        \/ \E w \in Wallet : UseUpNonce(w, tx) /\ UNCHANGED serviceVars
<1> SUFFICES ASSUME DeployInv, [DeployNext]_dvars
             PROVE  \/ [Next]_vars
                    \/ \E w \in Wallet : UseUpNonce(w, tx) /\ UNCHANGED serviceVars
  OBVIOUS
<1>1. ASSUME NEW k \in Job, ClientExecutes(k)
      PROVE  \E w \in Wallet : UseUpNonce(w, tx) /\ UNCHANGED serviceVars
  BY <1>1 DEF ClientExecutes, From, DeployInv, IInv, TypeOK, Request
<1>2. ASSUME NEW k \in Job,
             \/ FindWallet(k) \/ CreateContract(k) \/ DeployRefused(k)
             \/ DeployReturns(k) \/ DeployThrows(k) \/ BuildMetadata(k)
             \/ StoreMetadata(k) \/ AttachMetadata(k) \/ DescribeFails(k)
      PROVE  [Next]_vars
  BY <1>2 DEF FindWallet, CreateContract, DeployRefused, DeployReturns, DeployThrows,
     BuildMetadata, StoreMetadata, AttachMetadata, DescribeFails, Next
<1>3. ASSUME NEW k \in Job,
             \/ LinkContract(k) \/ LinkTransaction(k) \/ LinkFails(k)
             \/ SettleContract(k) \/ UpdateStatus(k)
             \/ Around(Step(k)) \/ Around(Mine(k))
      PROVE  [Next]_vars
  BY <1>3 DEF LinkContract, LinkTransaction, LinkFails, SettleContract, UpdateStatus,
     Around, Next, Background, Network
<1>4. ASSUME DeployCrash PROVE [Next]_vars
  BY <1>4, MemoryLost DEF DeployCrash, DeployInv, IInv
<1>5. ASSUME UNCHANGED dvars PROVE [Next]_vars
  BY <1>5 DEF dvars
<1>6. QED
  BY <1>1, <1>2, <1>3, <1>4, <1>5 DEF DeployNext, DeployQuiet

\* So the invariant of processTx and what is settled stay, nothing on record is
\* revised, and its promise is kept.
LEMMA DeployKeepsService ==
    DeployInv /\ [DeployNext]_dvars =>
        /\ IInv'
        /\ \A j \in Job : Settled(j)
        /\ [NoneRevised]_vars
        /\ [Promise!Next]_(Promise!vars)
<1> SUFFICES ASSUME DeployInv, [DeployNext]_dvars
             PROVE  /\ IInv'
                    /\ \A j \in Job : Settled(j)
                    /\ [NoneRevised]_vars
                    /\ [Promise!Next]_(Promise!vars)
  OBVIOUS
<1>1. IInv
  BY DEF DeployInv
<1>2. CASE [Next]_vars
  BY <1>1, <1>2, InvStep, SettledStep, RevisionStep, PromiseStep
<1>3. ASSUME NEW w \in Wallet, UseUpNonce(w, tx), UNCHANGED serviceVars
      PROVE  /\ IInv' /\ \A j \in Job : Settled(j)
             /\ NoneRevised /\ UNCHANGED Promise!vars
  <2>1. IInv' /\ \A j \in Job : Settled(j)
    BY <1>1, <1>3, NonceUsedUp, SettledUsedUp
  <2>2. UNCHANGED <<pc, result, txModel, linked>>
    BY <1>3 DEF serviceVars
  <2>3. \A j \in Job : /\ tx[j] = "unsent" => tx'[j] = "unsent"
                       /\ (IF Mined(j) THEN tx[j] ELSE "none")' =
                              (IF Mined(j) THEN tx[j] ELSE "none")
    BY <1>1, <1>3 DEF UseUpNonce, IInv, TypeOK, Mined
  <2>4. NoneRevised
    BY <2>2, <2>3 DEF NoneRevised
  <2>5. [j \in Job |-> IF Mined(j) THEN tx[j] ELSE "none"]' =
            [j \in Job |-> IF Mined(j) THEN tx[j] ELSE "none"]
    BY <2>3
  <2>6. UNCHANGED Promise!vars
    BY <2>2, <2>5 DEF Promise!vars
  <2>7. QED
    BY <2>1, <2>4, <2>6
<1>4. QED
  BY <1>2, <1>3, DeployMovesService

-----------------------------------------------------------------------------
\* The part of DeployInv that is about the handlers.
HandlerInv == DeployTypeOK /\ HandlerProgress /\ ContractRecord /\ UnreportedStatusIsTrue

\* Every step of a handler, an event handler, a client or the chain keeps the
\* invariant.
LEMMA DeployInvStep == DeployInv /\ [DeployNext]_dvars => DeployInv'
<1> SUFFICES ASSUME DeployInv, [DeployNext]_dvars PROVE DeployInv'
  OBVIOUS
<1>1. IInv' /\ TypeOK' /\ \A j \in Job : Settled(j)
  BY DeployKeepsService DEF IInv
<1>2. TypeOK /\ Progress /\ ProcessedIsMined /\ AnswerIsTrue
  BY DEF DeployInv, IInv, Record
<1> USE <1>1, <1>2 DEF DeployInv, HandlerInv, DeployTypeOK, HandlerProgress, ContractRecord,
    UnreportedStatusIsTrue, HandlerGoto, Reply, handlerVars, contractVars, Settled
<1>3. ASSUME NEW k \in Job, FindWallet(k) PROVE HandlerInv'
  BY <1>3 DEF FindWallet, vars
<1>4. ASSUME NEW k \in Job, CreateContract(k) PROVE HandlerInv'
  <2>1. hpc[k] = "create" /\ pc[k] = "idle" /\ UNCHANGED <<event, result, tx, req>>
    BY <1>4 DEF CreateContract, Call, vars, chainVars
  <2>2. \A j \in Job : j # k => hpc'[j] = hpc[j] /\ pc'[j] = pc[j]
    BY <1>4 DEF CreateContract, Call, Goto, vars, TypeOK
  <2>3. hpc'[k] \in {"call", "over"} /\ reply'[k] \in {"none", "error"}
    BY <1>4 DEF CreateContract
  <2>4. DeployTypeOK'
    BY <1>4 DEF CreateContract, Status
  <2>5. HandlerProgress'
    BY <1>4, <2>1, <2>2, <2>3 DEF CreateContract
  <2>6. ContractRecord'
    BY <1>4, <2>1, <2>2 DEF CreateContract
  <2>7. UnreportedStatusIsTrue'
    BY <1>4, <2>1 DEF CreateContract
  <2>8. QED
    BY <2>4, <2>5, <2>6, <2>7
<1>5. ASSUME NEW k \in Job, DeployRefused(k) PROVE HandlerInv'
  BY <1>5 DEF DeployRefused, vars
<1>6. ASSUME NEW k \in Job, DeployReturns(k) PROVE HandlerInv'
  BY <1>6 DEF DeployReturns, vars
<1>7. ASSUME NEW k \in Job, DeployThrows(k) PROVE HandlerInv'
  BY <1>7 DEF DeployThrows, vars
<1>8. ASSUME NEW k \in Job, BuildMetadata(k) PROVE HandlerInv'
  BY <1>8 DEF BuildMetadata, vars, AnswerIsTrue
<1>9. ASSUME NEW k \in Job, StoreMetadata(k) PROVE HandlerInv'
  BY <1>9 DEF StoreMetadata, vars
<1>10. ASSUME NEW k \in Job, AttachMetadata(k) PROVE HandlerInv'
  BY <1>10 DEF AttachMetadata, vars
<1>11. ASSUME NEW k \in Job, DescribeFails(k) PROVE HandlerInv'
  BY <1>11 DEF DescribeFails, vars
<1>12. ASSUME NEW k \in Job, LinkContract(k) \/ LinkTransaction(k) \/ LinkFails(k)
       PROVE  HandlerInv'
  BY <1>12 DEF LinkContract, LinkTransaction, LinkFails, vars
<1>13. ASSUME NEW k \in Job, SettleContract(k) PROVE HandlerInv'
  <2>1. /\ event[k] = "published" /\ tx[k] = "succeeded" /\ req[k].execute
        /\ pc[k] # "idle" /\ contractRow[k] # "absent" /\ ~address[k]
        /\ hpc[k] \notin {"wallet", "create"}
    BY <1>13 DEF SettleContract, HandleEvent, Progress, ProcessedIsMined, TakenForExecuted
  <2>2. UNCHANGED <<pc, result, tx, req, handlerVars, client, links, asset, metadata>>
    BY <1>13 DEF SettleContract, HandleEvent, chainVars
  <2>3. CASE event' = [event EXCEPT ![k] = "handled"]
    <3>1. contractRow' = [contractRow EXCEPT ![k] = "processed"]
      BY <1>13, <2>3 DEF SettleContract, TypeOK
    <3>2. address' = [address EXCEPT ![k] = TRUE]
      <4>1. address' = [address EXCEPT ![k] = address[k] \/ event'[k] = "handled"]
        BY <1>13 DEF SettleContract
      <4>2. (address[k] \/ event'[k] = "handled") = TRUE
        BY <2>3 DEF TypeOK
      <4>3. QED
        BY ONLY <4>1, <4>2, Zenon
    <3>3. reported' = reported \ {k}
      BY <1>13, <2>3 DEF SettleContract, TypeOK
    <3>4. DeployTypeOK'
      BY <2>1, <2>2, <3>1, <3>2, <3>3 DEF Status
    <3>5. HandlerProgress' /\ ContractRecord' /\ UnreportedStatusIsTrue'
      BY <2>1, <2>2, <2>3, <3>1, <3>2, <3>3 DEF TypeOK
    <3>6. QED
      BY <3>4, <3>5
  <2>4. CASE event' = [event EXCEPT ![k] = "dropped"]
    <3>1. contractRow' = contractRow
      BY <1>13, <2>4 DEF SettleContract, TypeOK
    <3>2. address' = [address EXCEPT ![k] = @]
      <4>1. address' = [address EXCEPT ![k] = address[k] \/ event'[k] = "handled"]
        BY <1>13 DEF SettleContract
      <4>2. (address[k] \/ event'[k] = "handled") = address[k]
        BY <2>4 DEF TypeOK
      <4>3. QED
        BY ONLY <4>1, <4>2, Zenon
    <3>3. reported' = reported
      BY <1>13, <2>4 DEF SettleContract, TypeOK
    <3>4. QED
      BY <2>1, <2>2, <2>4, <3>1, <3>2, <3>3 DEF TypeOK
  <2>5. QED
    BY <1>13, <2>3, <2>4 DEF SettleContract, HandleEvent
<1>14. ASSUME NEW k \in Job, ClientExecutes(k) PROVE HandlerInv'
  BY <1>14 DEF ClientExecutes, serviceVars, Mined
<1>15. ASSUME NEW k \in Job, UpdateStatus(k) PROVE HandlerInv'
  <2>1. PICK s \in Status : contractRow' = [contractRow EXCEPT ![k] = s]
    BY <1>15 DEF UpdateStatus
  <2>2. s # "absent" /\ contractRow[k] # "absent" /\ reported' = reported \cup {k}
    BY <1>15, <2>1 DEF UpdateStatus, Status
  <2>3. \A j \in Job : j # k => contractRow'[j] = contractRow[j]
    BY <2>1
  <2>4. contractRow'[k] = s
    BY <2>1
  <2>5. UNCHANGED <<vars, handlerVars, address, client, links, asset, metadata>>
    BY <1>15 DEF UpdateStatus
  <2>6. DeployTypeOK'
    BY <2>1, <2>2, <2>5 DEF vars
  <2>7. QED
    BY <2>2, <2>3, <2>4, <2>5, <2>6 DEF vars
<1>16. ASSUME NEW k \in Job, Around(Step(k)) \/ Around(Mine(k)) PROVE HandlerInv'
  <2>1. \A j \in Job : /\ pc[j] = "idle" => pc'[j] = "idle"
                       /\ event'[j] = "handled" => event[j] = "handled"
    BY <1>16, InsideStep, MineStep DEF Around, serviceVars
  <2>2. QED
    BY <1>16, <2>1 DEF Around, Mined
<1>17. CASE DeployCrash
  BY <1>17 DEF DeployCrash, LoseMemory, chainVars, HandlerBusy, Linking, InFlight, Called,
     Ended, TypeOK
<1>18. CASE UNCHANGED dvars
  BY <1>18 DEF dvars, vars
<1>19. DeployNext \/ UNCHANGED dvars
  OBVIOUS
<1>20. HandlerInv'
  BY ONLY <1>3, <1>4, <1>5, <1>6, <1>7, <1>8, <1>9, <1>10, <1>11, <1>12, <1>13, <1>14,
     <1>15, <1>16, <1>17, <1>18, <1>19 DEF DeployNext, DeployQuiet
<1>21. QED
  BY <1>20

-----------------------------------------------------------------------------
\* The inductive invariant holds in every reachable state: that of processTx,
\* with what the handlers and clients have made of its answers.
THEOREM DeployInvariance == DeploySpec => []DeployInv
  BY DeployInvInit, DeployInvStep, PTL DEF DeploySpec

\* The handlers' variables have their types, and an address its row.
THEOREM DeployTypesCorrect == DeploySpec => []DeployTypeOK
<1>1. DeployInv => DeployTypeOK
  BY DEF DeployInv
<1>2. QED
  BY DeployInvariance, <1>1, PTL

\* A contract the chain may have has its two rows, whatever became of the call.
THEOREM DeploymentLogged ==
    DeploySpec => [](\A j \in Job : tx[j] # "unsent" =>
                        contractRow[j] # "absent" /\ txModel[j] # "absent")
<1>1. DeployInv => \A j \in Job : tx[j] # "unsent" =>
                      contractRow[j] # "absent" /\ txModel[j] # "absent"
  BY DEF DeployInv, IInv, Record, WriteAhead, Progress, ContractRecord
<1>2. QED
  BY DeployInvariance, <1>1, PTL

\* A row that no client wrote last says PROCESSED exactly of a contract that is in
\* the chain and whose address it has, and it does not say FAILED.
THEOREM DeploymentStatusTrue == DeploySpec => []UnreportedStatusIsTrue
<1>1. DeployInv => UnreportedStatusIsTrue
  BY DEF DeployInv
<1>2. QED
  BY DeployInvariance, <1>1, PTL

\* An address is that of a contract the service has deployed.
THEOREM AddressFromReceipt == DeploySpec => []AddressIsOfReceipt
<1>1. DeployInv => AddressIsOfReceipt
  <2> SUFFICES ASSUME DeployInv, NEW j \in Job
               PROVE  /\ address[j] => tx[j] = "succeeded" /\ event[j] = "handled"
                      /\ reply[j] = "ok" /\ req[j].execute =>
                             address[j] \/ event[j] \in {"published", "dropped"}
    BY DEF AddressIsOfReceipt
  <2>1. address[j] <=> event[j] = "handled"
    BY DEF DeployInv, ContractRecord
  <2>2. event[j] = "handled" => tx[j] = "succeeded"
    BY DEF DeployInv, IInv, Record, ProcessedIsMined, TakenForExecuted
  <2>3. reply[j] = "ok" => result[j] \in {"payload", "receipt"}
    BY DEF DeployInv, HandlerProgress
  <2>4. result[j] = "payload" => ~req[j].execute
    BY DEF DeployInv, IInv, Record, AnswerIsTrue
  <2>5. result[j] = "receipt" => event[j] # "none"
    BY DEF DeployInv, IInv, Progress
  <2>6. event[j] \in {"none", "published", "handled", "dropped"}
    BY DEF DeployInv, IInv, TypeOK
  <2>7. QED
    BY <2>1, <2>2, <2>3, <2>4, <2>5, <2>6
<1>2. QED
  BY DeployInvariance, <1>1, PTL

\* Common metadata is stored only of a deployed contract.
THEOREM MetadataOnlyIfDeployed == DeploySpec => []MetadataIsOfDeployed
<1>1. DeployInv => MetadataIsOfDeployed
  BY DEF DeployInv, IInv, Record, AnswerIsTrue, HandlerProgress, MetadataIsOfDeployed
<1>2. QED
  BY DeployInvariance, <1>1, PTL

\* A command answered with success has done all it was asked, and no more.
THEOREM SuccessComplete == DeploySpec => []SuccessIsComplete
<1>1. DeployInv => SuccessIsComplete
  BY DEF DeployInv, IInv, Record, AnswerIsTrue, Progress, HandlerProgress,
     SuccessIsComplete
<1>2. QED
  BY DeployInvariance, <1>1, PTL

\* Also beside clients who execute payloads of their own, deployments are answered
\* and recorded as processTx promises, and what is on record is never revised.
THEOREM DeployKeepsPromise == DeploySpec => KeepsPromise /\ NoSecondThoughts
<1>1. DeployInit => Init /\ Promise!Init
  BY DEF DeployInit, Init, Promise!Init, Mined
<1>2. DeploySpec => KeepsPromise
  BY <1>1, DeployInvariance, DeployKeepsService, PTL DEF DeploySpec, KeepsPromise, Promise!Spec
<1>3. DeploySpec => NoSecondThoughts
  BY DeployInvariance, DeployKeepsService, PTL DEF DeploySpec, NoSecondThoughts
<1>4. QED
  BY <1>2, <1>3
=============================================================================
