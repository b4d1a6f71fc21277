----------------------------- MODULE Mint_proofs -----------------------------
(* Proofs about the ids of minted tokens and their metadata, for any commands, *)
(* wallets and quantities.                                                     *)
EXTENDS Mint, ProcessTx_proofs

\* Where the handler is tells what it has called, and what others have made of
\* its transaction.
MintProgress ==
    \A j \in Job :
        /\ hpc[j] \in {"start", "create"} => pc[j] = "idle"
        /\ InFlight(j) => hpc[j] = "call"
        /\ meta[j] # "none" => result[j] \in {"payload", "receipt"}
        /\ token[j] = "processed" => tx[j] = "succeeded"
        /\ tx[j] # "succeeded" => minted[j] = {}

\* The contract gives no id twice.
IdsMintedOnce ==
    /\ \A j \in Job : \A id \in minted[j] : id < supply
    /\ \A j, k \in Job : j # k => minted[j] \cap minted[k] = {}

\* As long as nobody has come in between, there is one command under way at most,
\* and what it has read is what it will mint, or has minted.
GuessesHold ==
    ~disturbed =>
        /\ \A j, k \in Job : Loose(j) /\ Loose(k) => j = k
        /\ \A j \in Job : Loose(j) /\ tx[j] \in {"unsent", "pending"} =>
               ids[j] = Ids(supply, qty[j])
        /\ \A j \in Job : tx[j] = "succeeded" => ids[j] = minted[j]

MintInv ==
    /\ MintTypeOK
    /\ IInv
    /\ MintProgress
    /\ IdsMintedOnce
    /\ GuessesHold

-----------------------------------------------------------------------------
\* Before the first command nothing is minted and nobody has read the supply.
LEMMA MintInvInit == MintInit => MintInv
<1> SUFFICES ASSUME MintInit PROVE MintInv
  OBVIOUS
<1>1. IInv
  BY InvInit DEF MintInit
<1>2. disturbed \in BOOLEAN
  BY Zenon DEF MintInit
<1>3. MintTypeOK
  BY <1>1, <1>2 DEF MintInit, MintTypeOK, IInv
<1>4. MintProgress /\ IdsMintedOnce
  BY DEF MintInit, Init, MintProgress, IdsMintedOnce, InFlight, Called
<1>5. GuessesHold
  BY DEF MintInit, Init, GuessesHold, Loose, HandlerBusy
<1>6. QED
  BY <1>1, <1>3, <1>4, <1>5 DEF MintInv

\* The ids of some tokens, counted from the supply.
LEMMA IdsFromSupply ==
    ASSUME NEW s \in Nat, NEW n \in Nat \ {0}
    PROVE  /\ Ids(s, n) \in SUBSET Nat
           /\ \A id \in Ids(s, n) : s <= id /\ id < s + n
  BY DEF Ids

\* Whatever the handlers and other clients do, processTx takes a step of its own
\* or none.
LEMMA MintMovesService == MintInv /\ [MintNext]_mvars => [Next]_vars
<1> SUFFICES ASSUME MintInv, [MintNext]_mvars PROVE [Next]_vars
  OBVIOUS
<1>1. ASSUME NEW j \in Job,
             \/ ReadSupply(j) \/ CreateToken(j) \/ MintFails(j) \/ Announce(j)
             \/ CreateMetadata(j) \/ SetMetadata(j) \/ MetadataFails(j)
      PROVE  [Next]_vars
  BY <1>1 DEF ReadSupply, CreateToken, MintFails, Announce, CreateMetadata,
     SetMetadata, MetadataFails, Next
<1>2. ASSUME NEW j \in Job, ProcessTxStep(j) \/ SettleToken(j) \/ MineMint(j)
      PROVE  [Next]_vars
  BY <1>2 DEF ProcessTxStep, SettleToken, MineMint, Next, Background, Network
<1>3. CASE MintCrash
  BY <1>3, MemoryLost DEF MintCrash, MintInv, IInv
<1>4. CASE ForeignMint \/ UNCHANGED mvars
  BY <1>4 DEF ForeignMint, mvars
<1>5. QED
  BY <1>1, <1>2, <1>3, <1>4 DEF MintNext, MintQuiet

\* Nothing of a contract whose tokens and readers stay is disturbed.
LEMMA GuessesKept ==
    ASSUME GuessesHold, UNCHANGED <<qty, ids, supply, minted, disturbed>>,
           \A j \in Job :
               /\ Loose(j)' => Loose(j)
               /\ tx'[j] \in {"unsent", "pending"} => tx[j] \in {"unsent", "pending"}
               /\ tx'[j] = "succeeded" => tx[j] = "succeeded"
    PROVE  GuessesHold'
  BY DEF GuessesHold, Ids

-----------------------------------------------------------------------------
\* Every step of a handler, its event handler, processTx or another minter keeps
\* the invariant.
LEMMA MintInvStep == MintInv /\ [MintNext]_mvars => MintInv'
<1> SUFFICES ASSUME MintInv, [MintNext]_mvars PROVE MintInv'
  OBVIOUS
<1>1. [Next]_vars
  BY MintMovesService
<1>2. IInv' /\ TypeOK'
  BY <1>1, InvStep DEF MintInv, IInv
<1>3. \A j \in Job : Settled(j)
  BY <1>1, SettledStep DEF MintInv
<1>4. TypeOK /\ Progress /\ ProcessedIsMined
  BY DEF MintInv, IInv, Record
<1> DEFINE Kept == MintTypeOK' /\ MintProgress' /\ IdsMintedOnce' /\ GuessesHold'
<1> USE DEF MintInv, MintTypeOK, MintProgress, IdsMintedOnce, handlerVars, tokenVars,
    contractVars
<1>5. ASSUME NEW j \in Job, ReadSupply(j) PROVE Kept
  <2>1. qty[j] \in Nat \ {0} /\ Ids(supply, qty[j]) \in SUBSET Nat
    BY MintAssumption, IdsFromSupply
  <2>2. disturbed' \in BOOLEAN
    BY <1>5, Zenon DEF ReadSupply
  <2>3. ~disturbed' => ~disturbed /\ \A k \in Job : ~Loose(k)
    BY <1>5, Zenon DEF ReadSupply
  <2>4. /\ UNCHANGED <<qty, supply, minted, token, meta, pc, tx, result>>
        /\ hpc[j] = "start" /\ hpc' = [hpc EXCEPT ![j] = "create"]
        /\ ids' = [ids EXCEPT ![j] = Ids(supply, qty[j])]
    BY <1>5 DEF ReadSupply, vars
  <2>5. MintTypeOK'
    BY <1>2, <2>1, <2>2, <2>4
  <2>6. MintProgress' /\ IdsMintedOnce'
    BY <2>4 DEF InFlight, Called, Ended
  <2>7. pc[j] = "idle" /\ tx[j] = "unsent"
    BY <2>4, <1>4 DEF Progress
  <2>8. ASSUME ~disturbed' PROVE \A k \in Job : k # j => ~Loose(k)'
    BY <2>3, <2>4, <2>8 DEF Loose, HandlerBusy, Ended
  <2>9. GuessesHold'
    BY <2>3, <2>4, <2>7, <2>8 DEF GuessesHold, Ids
  <2>10. QED
    BY <2>5, <2>6, <2>9
<1>6. ASSUME NEW j \in Job, CreateToken(j) PROVE Kept
  <2>0. /\ hpc[j] = "create" /\ pc[j] = "idle"
        /\ token' = [token EXCEPT ![j] = "created"]
        /\ UNCHANGED <<qty, ids, meta, supply, minted, disturbed, tx, result>>
        /\ \/ /\ hpc' = [hpc EXCEPT ![j] = "call"] /\ pc' = [pc EXCEPT ![j] = "nonce"]
           \/ hpc' = [hpc EXCEPT ![j] = "over"] /\ pc' = pc
    BY <1>6 DEF CreateToken, Call, Goto, chainVars, vars
  <2>1. MintTypeOK' /\ MintProgress' /\ IdsMintedOnce'
    <3>1. MintTypeOK' /\ IdsMintedOnce'
      BY <1>2, <2>0
    <3>2. MintProgress'
      BY <1>4, <2>0 DEF InFlight, Called, Ended, TypeOK
    <3>3. QED
      BY <3>1, <3>2
  <2>2. GuessesHold'
    BY <1>4, <2>0, GuessesKept DEF Loose, HandlerBusy, Ended, TypeOK
  <2>3. QED
    BY <2>1, <2>2
<1>7. ASSUME NEW j \in Job, MintFails(j) PROVE Kept
  <2>1. MintTypeOK' /\ MintProgress' /\ IdsMintedOnce'
    BY <1>2, <1>7 DEF MintFails, vars, InFlight, Called, Ended
  <2>2. GuessesHold'
    BY <1>7, GuessesKept DEF MintFails, vars, Loose, HandlerBusy, Ended
  <2>3. QED
    BY <2>1, <2>2
<1>8. ASSUME NEW j \in Job, Announce(j) PROVE Kept
  <2>1. MintTypeOK' /\ MintProgress' /\ IdsMintedOnce'
    BY <1>2, <1>4, <1>8 DEF Announce, vars, InFlight, Called, Ended, Progress
  <2>2. GuessesHold'
    BY <1>8, GuessesKept DEF Announce, vars, Loose, HandlerBusy, Ended
  <2>3. QED
    BY <2>1, <2>2
<1>9. ASSUME NEW j \in Job, CreateMetadata(j) \/ SetMetadata(j) \/ MetadataFails(j)
      PROVE  Kept
  <2>1. MintTypeOK' /\ MintProgress' /\ IdsMintedOnce'
    BY <1>2, <1>9 DEF CreateMetadata, SetMetadata, MetadataFails, HalfWay, vars,
       InFlight, Called, Ended
  <2>2. GuessesHold'
    BY <1>9, GuessesKept DEF CreateMetadata, SetMetadata, MetadataFails, vars, Loose,
       HandlerBusy, Ended
  <2>3. QED
    BY <2>1, <2>2
<1>10. ASSUME NEW j \in Job, ProcessTxStep(j) PROVE Kept
  <2>1. UNCHANGED <<qty, hpc, ids, token, meta, supply, minted, disturbed>>
    BY <1>10 DEF ProcessTxStep
  <2>2. \A k \in Job :
            /\ Ended(k) => Ended(k)'
            /\ InFlight(k)' => InFlight(k)
            /\ pc[k] = "idle" => pc'[k] = "idle"
            /\ tx'[k] # tx[k] =>
                   pc[k] = "send" /\ tx[k] = "unsent" /\ tx'[k] = "pending"
    BY <1>10, InsideStep DEF ProcessTxStep
  <2>3. MintTypeOK' /\ IdsMintedOnce'
    BY <1>2, <2>1
  <2>4. MintProgress'
    BY <1>3, <2>1, <2>2 DEF Settled
  <2>5. \A k \in Job : Loose(k)' => Loose(k)
    BY <2>1, <2>2 DEF Loose, HandlerBusy, InFlight, Called, Ended
  <2>6. GuessesHold'
    BY <2>1, <2>2, <2>5, GuessesKept
  <2>7. QED
    BY <2>3, <2>4, <2>6
<1>11. ASSUME NEW j \in Job, SettleToken(j) PROVE Kept
  <2>1. /\ UNCHANGED <<qty, hpc, ids, meta, supply, minted, disturbed, pc, tx, result>>
        /\ event[j] = "published"
        /\ token' \in {token, [token EXCEPT ![j] = "processed"]}
    BY <1>11 DEF SettleToken, HandleEvent, chainVars
  <2>2. tx[j] = "succeeded"
    BY <2>1, <1>4 DEF ProcessedIsMined, TakenForExecuted
  <2>3. MintTypeOK' /\ MintProgress' /\ IdsMintedOnce'
    BY <1>2, <2>1, <2>2 DEF InFlight, Called, Ended
  <2>4. GuessesHold'
    BY <2>1, GuessesKept DEF Loose, HandlerBusy, Ended
  <2>5. QED
    BY <2>3, <2>4
<1>12. ASSUME NEW j \in Job, MineMint(j) PROVE Kept
  <2>1. /\ UNCHANGED <<qty, hpc, ids, token, meta, disturbed, pc, result>>
        /\ tx[j] = "pending" /\ tx'[j] \in {"succeeded", "reverted"}
        /\ \A k \in Job : k # j => tx'[k] = tx[k] \/ (tx[k] = "pending" /\ tx'[k] = "void")
    BY <1>12, MineStep DEF MineMint, serviceVars
  <2>2. qty[j] \in Nat \ {0} /\ supply \in Nat
    BY MintAssumption
  <2>3. \A k \in Job : Loose(k)' => Loose(k)
    BY <2>1 DEF Loose, HandlerBusy, Ended
  <2>4. Loose(j)
    BY <2>1 DEF Loose
  <2>5. CASE tx'[j] = "reverted"
    <3>1. UNCHANGED <<supply, minted>>
      BY <1>12, <2>5 DEF MineMint
    <3>2. MintTypeOK' /\ MintProgress' /\ IdsMintedOnce'
      BY <1>2, <2>1, <2>5, <3>1 DEF InFlight, Called, Ended
    <3>3. GuessesHold'
      BY <2>1, <2>3, <2>5, <3>1, GuessesKept
    <3>4. QED
      BY <3>2, <3>3
  <2>6. CASE tx'[j] = "succeeded"
    <3>1. /\ minted' = [minted EXCEPT ![j] = Ids(supply, qty[j])]
          /\ supply' = supply + qty[j]
      BY <1>12, <2>6 DEF MineMint
    <3>2. /\ Ids(supply, qty[j]) \in SUBSET Nat
          /\ \A id \in Ids(supply, qty[j]) : supply <= id /\ id < supply + qty[j]
      BY <2>2, IdsFromSupply
    <3>3. MintTypeOK' /\ MintProgress'
      BY <1>2, <2>1, <2>2, <2>6, <3>1, <3>2 DEF InFlight, Called, Ended
    <3>4. IdsMintedOnce'
      <4>1. ASSUME NEW k \in Job, NEW id \in minted'[k] PROVE id < supply'
        BY <2>2, <3>1, <3>2, <4>1
      <4>2. ASSUME NEW k \in Job, k # j PROVE minted'[k] \cap minted'[j] = {}
        BY <2>2, <3>1, <3>2, <4>2
      <4>3. \A k, l \in Job : k # l => minted'[k] \cap minted'[l] = {}
        BY <3>1, <4>2
      <4>4. QED
        BY <4>1, <4>3
    <3>5. GuessesHold'
      <4> SUFFICES ASSUME ~disturbed PROVE
              /\ \A k, l \in Job : Loose(k)' /\ Loose(l)' => k = l
              /\ \A k \in Job : Loose(k)' /\ tx'[k] \in {"unsent", "pending"} =>
                     ids'[k] = Ids(supply', qty'[k])
              /\ \A k \in Job : tx'[k] = "succeeded" => ids'[k] = minted'[k]
        BY <2>1 DEF GuessesHold, Ids
      <4>1. \A k, l \in Job : Loose(k) /\ Loose(l) => k = l
        BY DEF GuessesHold
      <4>2. ids[j] = Ids(supply, qty[j])
        BY <2>1, <2>4 DEF GuessesHold
      <4>3. \A k \in Job : tx'[k] = "succeeded" => ids'[k] = minted'[k]
        BY <2>1, <3>1, <4>2 DEF GuessesHold
      <4>4. QED
        BY <2>1, <2>3, <2>4, <4>1, <4>3
    <3>6. QED
      BY <3>3, <3>4, <3>5
  <2>7. QED
    BY <2>1, <2>5, <2>6
<1>13. ASSUME ForeignMint PROVE Kept
  <2>1. /\ UNCHANGED <<qty, hpc, ids, token, meta, minted, pc, tx, result>>
        /\ supply' = supply + 1
    BY <1>13 DEF ForeignMint, vars
  <2>2. disturbed' \in BOOLEAN
    BY <1>13, Zenon DEF ForeignMint
  <2>3. ~disturbed' => ~disturbed /\ \A k \in Job : ~Loose(k)
    BY <1>13, Zenon DEF ForeignMint
  <2>4. MintTypeOK' /\ MintProgress'
    BY <1>2, <2>1, <2>2 DEF InFlight, Called, Ended
  <2>5. IdsMintedOnce'
    BY <2>1
  <2>6. GuessesHold'
    BY <2>1, <2>3 DEF GuessesHold, Loose, HandlerBusy, Ended
  <2>7. QED
    BY <2>4, <2>5, <2>6
<1>14. ASSUME MintCrash PROVE Kept
  <2>1. MintTypeOK' /\ MintProgress' /\ IdsMintedOnce'
    BY <1>2, <1>14 DEF MintCrash, LoseMemory, HalfWay, HandlerBusy, chainVars, InFlight,
       Called, Ended
  <2>2. GuessesHold'
    BY <1>14, GuessesKept DEF MintCrash, LoseMemory, chainVars, Loose, HandlerBusy, Ended
  <2>3. QED
    BY <2>1, <2>2
<1>15. ASSUME UNCHANGED mvars PROVE Kept
  <2>1. MintTypeOK' /\ MintProgress' /\ IdsMintedOnce'
    BY <1>2, <1>15 DEF mvars, vars, InFlight, Called, Ended
  <2>2. GuessesHold'
    BY <1>15, GuessesKept DEF mvars, vars, Loose, HandlerBusy, Ended
  <2>3. QED
    BY <2>1, <2>2
<1>16. QED
  BY <1>2, <1>5, <1>6, <1>7, <1>8, <1>9, <1>10, <1>11, <1>12, <1>13, <1>14, <1>15
     DEF MintNext, MintQuiet

-----------------------------------------------------------------------------
\* The inductive invariant holds in every reachable state: that of processTx,
\* and, while nobody comes in between, that the guessed ids are those minted.
THEOREM MintInvariance == MintSpec => []MintInv
  BY MintInvInit, MintInvStep, PTL DEF MintSpec

\* The variables have their types; ids are natural numbers.
THEOREM MintTypesCorrect == MintSpec => []MintTypeOK
<1>1. MintInv => MintTypeOK
  BY DEF MintInv
<1>2. QED
  BY MintInvariance, <1>1, PTL

\* Metadata of an executed command exists only when its tokens do.
LEMMA MetadataNeedsMint == MintInv => MetadataFollowsMint
  BY DEF MintInv, MintProgress, IInv, Record, AnswerIsTrue, MetadataFollowsMint

\* However commands, events and crashes interleave, metadata of an executed
\* command is stored only when its tokens exist.
THEOREM MetadataOnlyOfMinted == MintSpec => []MetadataFollowsMint
  BY MintInvariance, MetadataNeedsMint, PTL

\* The ids on record are the minted ones unless somebody came in between, be it
\* a command that was given up and whose transaction was still under way.
THEOREM RecordedIdsAreMinted == MintSpec => []IdsAreMinted
<1>1. MintInv => IdsAreMinted
  BY DEF MintInv, MintProgress, GuessesHold, IdsAreMinted
<1>2. QED
  BY MintInvariance, <1>1, PTL

\* Then, without dry runs, the metadata found for a token is its own.
THEOREM OwnMetadataFound == MintSpec => []LookupIsRight
<1>1. MintInv => LookupIsRight
  <2> SUFFICES ASSUME MintInv, ~disturbed, \A j \in Job : req[j].execute,
                      NEW j \in Job, NEW id \in minted[j], NEW k \in Lookup(id)
               PROVE  k = j
    BY DEF LookupIsRight
  <2>1. k \in Job /\ meta[k] # "none" /\ id \in ids[k]
    BY DEF Lookup
  <2>2. tx[k] = "succeeded"
    BY <2>1, MetadataNeedsMint DEF MetadataFollowsMint
  <2>3. id \in minted[k]
    BY <2>1, <2>2 DEF MintInv, GuessesHold
  <2>4. QED
    BY <2>1, <2>3 DEF MintInv, IdsMintedOnce
<1>2. QED
  BY MintInvariance, <1>1, PTL

\* As far as processTx is concerned minting only calls it: handler, events and
\* clients together implement its specification.
THEOREM MintRunsService == MintSpec => Spec
<1>1. MintInit => Init
  BY DEF MintInit
<1>2. QED
  BY <1>1, MintInvariance, MintMovesService, PTL DEF MintSpec, Spec

\* So every mint is answered and recorded as processTx promises, and what is on
\* record is never revised.
THEOREM MintKeepsPromise == MintSpec => KeepsPromise /\ NoSecondThoughts
  BY MintRunsService, PromiseKept, NothingRevised, PTL
=============================================================================
