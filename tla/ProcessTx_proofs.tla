-------------------------- MODULE ProcessTx_proofs --------------------------
(* Proofs of the safety properties of ProcessTx, for any jobs and wallets. *)
EXTENDS ProcessTx, TLAPS

\* Where a job is tells what it has written and sent.
Progress ==
    \A j \in Job :
        /\ pc[j] \in {"idle", "nonce", "estimate", "record"} =>
               /\ txModel[j] = "absent" /\ linked[j] = "no"
               /\ tx[j] = "unsent" /\ event[j] = "none"
        /\ pc[j] \in {"record", "send", "wait", "save"} \/ tx[j] # "unsent" => req[j].execute
        /\ pc[j] = "send" =>
               txModel[j] = "created" /\ tx[j] = "unsent" /\ event[j] = "none"
        /\ pc[j] = "wait" =>
               txModel[j] = "created" /\ tx[j] # "unsent" /\ event[j] = "none"
        /\ pc[j] = "save" =>
               txModel[j] = "created" /\ tx[j] = "succeeded" /\ event[j] # "none"
        /\ result[j] = "receipt" => event[j] # "none"
        /\ pc[j] # "done" => result[j] = "none"

\* What table, event and answer say of the chain.
Record == WriteAhead /\ ProcessedIsMined /\ AnswerIsTrue

\* The network's nonces: none is from the future, what is pending may still be
\* mined, what is mined has used its nonce up.
Nonces ==
    \A j \in Job :
        /\ nonce[j] <= txCount[From(j)]
        /\ tx[j] = "pending" => nonce[j] >= txCount[From(j)]
        /\ Mined(j) => nonce[j] < txCount[From(j)]

\* The network itself mines at most one transaction per wallet and nonce.
OneMinedPerNonce ==
    \A j, k \in Job :
        Mined(j) /\ Mined(k) /\ From(j) = From(k) /\ nonce[j] = nonce[k] => j = k

IInv ==
    /\ TypeOK
    /\ Progress
    /\ Record
    /\ Nonces
    /\ OneMinedPerNonce

-----------------------------------------------------------------------------
\* Before the first call the variables have their types.
LEMMA TypeInit == Init => TypeOK
  BY DEF Init, TypeOK, Request

\* Every step of the service, the network or a crash keeps the types.
LEMMA TypeStep == TypeOK /\ [Next]_vars => TypeOK'
<1> SUFFICES ASSUME TypeOK, [Next]_vars PROVE TypeOK'
  OBVIOUS
<1> USE DEF TypeOK, Goto, Return, chainVars, serviceVars, From, Request
<1>1. ASSUME NEW j \in Job, Call(j) PROVE TypeOK'
  BY <1>1 DEF Call
<1>2. ASSUME NEW j \in Job, ReadNonce(j) PROVE TypeOK'
  <2>1. PICK n \in Nat : nonce' = [nonce EXCEPT ![j] = n]
    BY <1>2 DEF ReadNonce
  <2>2. nonce' \in [Job -> Nat]
    BY <2>1
  <2>3. QED
    BY <1>2, <2>2 DEF ReadNonce
<1>3. ASSUME NEW j \in Job, Estimate(j) PROVE TypeOK'
  <2>1. CASE ~req[j].execute
    BY <1>3, <2>1 DEF Estimate
  <2>2. CASE req[j].execute
    BY <1>3, <2>2 DEF Estimate
  <2>3. QED
    BY <2>1, <2>2
<1>4. ASSUME NEW j \in Job, Refuse(j) PROVE TypeOK'
  BY <1>4 DEF Refuse
<1>5. ASSUME NEW j \in Job, CreateRow(j) PROVE TypeOK'
  BY <1>5 DEF CreateRow
<1>6. ASSUME NEW j \in Job, CreateRowFails(j) PROVE TypeOK'
  BY <1>6 DEF CreateRowFails
<1>7. ASSUME NEW j \in Job, Broadcast(j) PROVE TypeOK'
  BY <1>7 DEF Broadcast
<1>8. ASSUME NEW j \in Job, BroadcastRefused(j) PROVE TypeOK'
  BY <1>8 DEF BroadcastRefused
<1>9. ASSUME NEW j \in Job, ReceiptOk(j) PROVE TypeOK'
  BY <1>9 DEF ReceiptOk
<1>10. ASSUME NEW j \in Job, ReceiptReverted(j) PROVE TypeOK'
  BY <1>10 DEF ReceiptReverted
<1>11. ASSUME NEW j \in Job, GiveUp(j) PROVE TypeOK'
  BY <1>11 DEF GiveUp
<1>12. ASSUME NEW j \in Job, SaveRow(j) PROVE TypeOK'
  BY <1>12 DEF SaveRow
<1>13. ASSUME NEW j \in Job, SaveRowFails(j) PROVE TypeOK'
  BY <1>13 DEF SaveRowFails
<1>14. ASSUME NEW j \in Job, LinkRow(j) PROVE TypeOK'
  BY <1>14 DEF LinkRow
<1>15. ASSUME NEW j \in Job, HandleEvent(j) PROVE TypeOK'
  BY <1>15 DEF HandleEvent
<1>16. ASSUME NEW j \in Job, Mine(j) PROVE TypeOK'
  BY <1>16 DEF Mine, UseUpNonce
<1>17. CASE Crash
  BY <1>17 DEF Crash, LoseMemory
<1>18. ASSUME NEW w \in Wallet, MineForeign(w) PROVE TypeOK'
  BY <1>18 DEF MineForeign, UseUpNonce
<1>19. CASE UNCHANGED vars
  BY <1>19 DEF vars
<1>20. QED
  BY <1>1, <1>2, <1>3, <1>4, <1>5, <1>6, <1>7, <1>8, <1>9, <1>10, <1>11, <1>12,
     <1>13, <1>14, <1>15, <1>16, <1>17, <1>18, <1>19 DEF Next, Step, Background,
     Network, Quiet

\* The type invariant, for any number of jobs and wallets.
THEOREM TypeCorrect == Spec => []TypeOK
  BY TypeInit, TypeStep, PTL DEF Spec

\* A step takes a job from one place to the next with what it has written so far.
LEMMA ProgressStep == TypeOK /\ Progress /\ [Next]_vars => Progress'
<1> SUFFICES ASSUME TypeOK /\ Progress, [Next]_vars PROVE Progress'
  OBVIOUS
<1> USE DEF TypeOK, Goto, Return, chainVars, serviceVars, From, Request, Progress
<1>1. ASSUME NEW j \in Job, Call(j) PROVE Progress'
  BY <1>1 DEF Call
<1>2. ASSUME NEW j \in Job, ReadNonce(j) PROVE Progress'
  BY <1>2 DEF ReadNonce
<1>3. ASSUME NEW j \in Job, Estimate(j) PROVE Progress'
  BY <1>3 DEF Estimate
<1>4. ASSUME NEW j \in Job, Refuse(j) PROVE Progress'
  BY <1>4 DEF Refuse
<1>5. ASSUME NEW j \in Job, CreateRow(j) PROVE Progress'
  BY <1>5 DEF CreateRow
<1>6. ASSUME NEW j \in Job, CreateRowFails(j) PROVE Progress'
  BY <1>6 DEF CreateRowFails
<1>7. ASSUME NEW j \in Job, Broadcast(j) PROVE Progress'
  BY <1>7 DEF Broadcast
<1>8. ASSUME NEW j \in Job, BroadcastRefused(j) PROVE Progress'
  BY <1>8 DEF BroadcastRefused
<1>9. ASSUME NEW j \in Job, ReceiptOk(j) PROVE Progress'
  BY <1>9 DEF ReceiptOk
<1>10. ASSUME NEW j \in Job, ReceiptReverted(j) PROVE Progress'
  BY <1>10 DEF ReceiptReverted
<1>11. ASSUME NEW j \in Job, GiveUp(j) PROVE Progress'
  BY <1>11 DEF GiveUp
<1>12. ASSUME NEW j \in Job, SaveRow(j) PROVE Progress'
  BY <1>12 DEF SaveRow
<1>13. ASSUME NEW j \in Job, SaveRowFails(j) PROVE Progress'
  BY <1>13 DEF SaveRowFails
<1>14. ASSUME NEW j \in Job, LinkRow(j) PROVE Progress'
  BY <1>14 DEF LinkRow
<1>15. ASSUME NEW j \in Job, HandleEvent(j) PROVE Progress'
  BY <1>15 DEF HandleEvent
<1>16. ASSUME NEW j \in Job, Mine(j) PROVE Progress'
  BY <1>16 DEF Mine, UseUpNonce
<1>17. CASE Crash
  BY <1>17 DEF Crash, LoseMemory, InFlight, Called, Ended
<1>18. ASSUME NEW w \in Wallet, MineForeign(w) PROVE Progress'
  BY <1>18 DEF MineForeign, UseUpNonce
<1>19. CASE UNCHANGED vars
  BY <1>19 DEF vars
<1>20. QED
  BY <1>1, <1>2, <1>3, <1>4, <1>5, <1>6, <1>7, <1>8, <1>9, <1>10, <1>11, <1>12,
     <1>13, <1>14, <1>15, <1>16, <1>17, <1>18, <1>19 DEF Next, Step, Background,
     Network, Quiet

\* What the table, the event and the answer say of the chain stays true.
LEMMA RecordStep == TypeOK /\ Progress /\ Record /\ [Next]_vars => Record'
<1> SUFFICES ASSUME TypeOK /\ Progress /\ Record, [Next]_vars PROVE Record'
  OBVIOUS
<1> USE DEF TypeOK, Goto, Return, chainVars, serviceVars, From, Request, Progress,
    Record, WriteAhead, ProcessedIsMined, AnswerIsTrue, TakenForExecuted
<1>1. ASSUME NEW j \in Job, Call(j) PROVE Record'
  BY <1>1 DEF Call
<1>2. ASSUME NEW j \in Job, ReadNonce(j) PROVE Record'
  BY <1>2 DEF ReadNonce
<1>3. ASSUME NEW j \in Job, Estimate(j) PROVE Record'
  BY <1>3 DEF Estimate
<1>4. ASSUME NEW j \in Job, Refuse(j) PROVE Record'
  BY <1>4 DEF Refuse
<1>5. ASSUME NEW j \in Job, CreateRow(j) PROVE Record'
  BY <1>5 DEF CreateRow
<1>6. ASSUME NEW j \in Job, CreateRowFails(j) PROVE Record'
  BY <1>6 DEF CreateRowFails
<1>7. ASSUME NEW j \in Job, Broadcast(j) PROVE Record'
  BY <1>7 DEF Broadcast
<1>8. ASSUME NEW j \in Job, BroadcastRefused(j) PROVE Record'
  BY <1>8 DEF BroadcastRefused
<1>9. ASSUME NEW j \in Job, ReceiptOk(j) PROVE Record'
  BY <1>9 DEF ReceiptOk
<1>10. ASSUME NEW j \in Job, ReceiptReverted(j) PROVE Record'
  BY <1>10 DEF ReceiptReverted
<1>11. ASSUME NEW j \in Job, GiveUp(j) PROVE Record'
  BY <1>11 DEF GiveUp
<1>12. ASSUME NEW j \in Job, SaveRow(j) PROVE Record'
  BY <1>12 DEF SaveRow
<1>13. ASSUME NEW j \in Job, SaveRowFails(j) PROVE Record'
  BY <1>13 DEF SaveRowFails
<1>14. ASSUME NEW j \in Job, LinkRow(j) PROVE Record'
  BY <1>14 DEF LinkRow
<1>15. ASSUME NEW j \in Job, HandleEvent(j) PROVE Record'
  BY <1>15 DEF HandleEvent
<1>16. ASSUME NEW j \in Job, Mine(j) PROVE Record'
  BY <1>16 DEF Mine, UseUpNonce
<1>17. CASE Crash
  BY <1>17 DEF Crash, LoseMemory, InFlight, Called, Ended
<1>18. ASSUME NEW w \in Wallet, MineForeign(w) PROVE Record'
  BY <1>18 DEF MineForeign, UseUpNonce
<1>19. CASE UNCHANGED vars
  BY <1>19 DEF vars
<1>20. QED
  BY <1>1, <1>2, <1>3, <1>4, <1>5, <1>6, <1>7, <1>8, <1>9, <1>10, <1>11, <1>12,
     <1>13, <1>14, <1>15, <1>16, <1>17, <1>18, <1>19 DEF Next, Step, Background,
     Network, Quiet

\* Mining a nonce voids the rivals that are still pending.
LEMMA NoncesStep == TypeOK /\ Progress /\ Nonces /\ [Next]_vars => Nonces'
<1> SUFFICES ASSUME TypeOK /\ Progress /\ Nonces, [Next]_vars PROVE Nonces'
  OBVIOUS
<1> USE DEF TypeOK, Goto, Return, chainVars, serviceVars, From, Request, Progress,
    Nonces, Mined
<1>1. ASSUME NEW j \in Job, Call(j) PROVE Nonces'
  BY <1>1 DEF Call
<1>2. ASSUME NEW j \in Job, ReadNonce(j) PROVE Nonces'
  BY <1>2 DEF ReadNonce
<1>3. ASSUME NEW j \in Job, Estimate(j) PROVE Nonces'
  BY <1>3 DEF Estimate
<1>4. ASSUME NEW j \in Job, Refuse(j) PROVE Nonces'
  BY <1>4 DEF Refuse
<1>5. ASSUME NEW j \in Job, CreateRow(j) PROVE Nonces'
  BY <1>5 DEF CreateRow
<1>6. ASSUME NEW j \in Job, CreateRowFails(j) PROVE Nonces'
  BY <1>6 DEF CreateRowFails
<1>7. ASSUME NEW j \in Job, Broadcast(j) PROVE Nonces'
  BY <1>7 DEF Broadcast
<1>8. ASSUME NEW j \in Job, BroadcastRefused(j) PROVE Nonces'
  BY <1>8 DEF BroadcastRefused
<1>9. ASSUME NEW j \in Job, ReceiptOk(j) PROVE Nonces'
  BY <1>9 DEF ReceiptOk
<1>10. ASSUME NEW j \in Job, ReceiptReverted(j) PROVE Nonces'
  BY <1>10 DEF ReceiptReverted
<1>11. ASSUME NEW j \in Job, GiveUp(j) PROVE Nonces'
  BY <1>11 DEF GiveUp
<1>12. ASSUME NEW j \in Job, SaveRow(j) PROVE Nonces'
  BY <1>12 DEF SaveRow
<1>13. ASSUME NEW j \in Job, SaveRowFails(j) PROVE Nonces'
  BY <1>13 DEF SaveRowFails
<1>14. ASSUME NEW j \in Job, LinkRow(j) PROVE Nonces'
  BY <1>14 DEF LinkRow
<1>15. ASSUME NEW j \in Job, HandleEvent(j) PROVE Nonces'
  BY <1>15 DEF HandleEvent
<1>16. ASSUME NEW j \in Job, Mine(j) PROVE Nonces'
  BY <1>16 DEF Mine, UseUpNonce
<1>17. CASE Crash
  BY <1>17 DEF Crash, LoseMemory, InFlight, Called, Ended
<1>18. ASSUME NEW w \in Wallet, MineForeign(w) PROVE Nonces'
  BY <1>18 DEF MineForeign, UseUpNonce
<1>19. CASE UNCHANGED vars
  BY <1>19 DEF vars
<1>20. QED
  BY <1>1, <1>2, <1>3, <1>4, <1>5, <1>6, <1>7, <1>8, <1>9, <1>10, <1>11, <1>12,
     <1>13, <1>14, <1>15, <1>16, <1>17, <1>18, <1>19 DEF Next, Step, Background,
     Network, Quiet

\* A nonce that is used up is never used again.
LEMMA MinedOnceStep ==
    TypeOK /\ Progress /\ Nonces /\ OneMinedPerNonce /\ [Next]_vars => OneMinedPerNonce'
<1> SUFFICES ASSUME TypeOK, Progress, Nonces, OneMinedPerNonce, [Next]_vars
             PROVE  OneMinedPerNonce'
  OBVIOUS
<1> USE DEF TypeOK, Goto, Return, chainVars, serviceVars, From, Request, Progress,
    Nonces, Mined, OneMinedPerNonce
<1>1. ASSUME NEW j \in Job, Call(j) PROVE OneMinedPerNonce'
  BY <1>1 DEF Call
<1>2. ASSUME NEW j \in Job, ReadNonce(j) PROVE OneMinedPerNonce'
  BY <1>2 DEF ReadNonce
<1>3. ASSUME NEW j \in Job, Estimate(j) PROVE OneMinedPerNonce'
  BY <1>3 DEF Estimate
<1>4. ASSUME NEW j \in Job, Refuse(j) PROVE OneMinedPerNonce'
  BY <1>4 DEF Refuse
<1>5. ASSUME NEW j \in Job, CreateRow(j) PROVE OneMinedPerNonce'
  BY <1>5 DEF CreateRow
<1>6. ASSUME NEW j \in Job, CreateRowFails(j) PROVE OneMinedPerNonce'
  BY <1>6 DEF CreateRowFails
<1>7. ASSUME NEW j \in Job, Broadcast(j) PROVE OneMinedPerNonce'
  BY <1>7 DEF Broadcast
<1>8. ASSUME NEW j \in Job, BroadcastRefused(j) PROVE OneMinedPerNonce'
  BY <1>8 DEF BroadcastRefused
<1>9. ASSUME NEW j \in Job, ReceiptOk(j) PROVE OneMinedPerNonce'
  BY <1>9 DEF ReceiptOk
<1>10. ASSUME NEW j \in Job, ReceiptReverted(j) PROVE OneMinedPerNonce'
  BY <1>10 DEF ReceiptReverted
<1>11. ASSUME NEW j \in Job, GiveUp(j) PROVE OneMinedPerNonce'
  BY <1>11 DEF GiveUp
<1>12. ASSUME NEW j \in Job, SaveRow(j) PROVE OneMinedPerNonce'
  BY <1>12 DEF SaveRow
<1>13. ASSUME NEW j \in Job, SaveRowFails(j) PROVE OneMinedPerNonce'
  BY <1>13 DEF SaveRowFails
<1>14. ASSUME NEW j \in Job, LinkRow(j) PROVE OneMinedPerNonce'
  BY <1>14 DEF LinkRow
<1>15. ASSUME NEW j \in Job, HandleEvent(j) PROVE OneMinedPerNonce'
  BY <1>15 DEF HandleEvent
<1>16. ASSUME NEW j \in Job, Mine(j) PROVE OneMinedPerNonce'
  BY <1>16 DEF Mine, UseUpNonce
<1>17. CASE Crash
  BY <1>17 DEF Crash, LoseMemory, InFlight, Called, Ended
<1>18. ASSUME NEW w \in Wallet, MineForeign(w) PROVE OneMinedPerNonce'
  BY <1>18 DEF MineForeign, UseUpNonce
<1>19. CASE UNCHANGED vars
  BY <1>19 DEF vars
<1>20. QED
  BY <1>1, <1>2, <1>3, <1>4, <1>5, <1>6, <1>7, <1>8, <1>9, <1>10, <1>11, <1>12,
     <1>13, <1>14, <1>15, <1>16, <1>17, <1>18, <1>19 DEF Next, Step, Background,
     Network, Quiet

-----------------------------------------------------------------------------
\* Before the first call nothing is recorded and nothing is sent.
LEMMA InvInit == Init => IInv
<1> SUFFICES ASSUME Init PROVE IInv
  OBVIOUS
<1>1. TypeOK
  BY TypeInit
<1>2. Progress /\ Record
  BY DEF Init, Progress, Record, WriteAhead, ProcessedIsMined, TakenForExecuted,
     AnswerIsTrue
<1>3. Nonces /\ OneMinedPerNonce
  BY DEF Init, Nonces, OneMinedPerNonce, Mined, From, Request
<1>4. QED
  BY <1>1, <1>2, <1>3 DEF IInv

\* Every step keeps the invariant; the lemmas above take it conjunct by conjunct.
LEMMA InvStep == IInv /\ [Next]_vars => IInv'
  BY TypeStep, ProgressStep, RecordStep, NoncesStep, MinedOnceStep DEF IInv, Record

\* Also a transaction that uses up a nonce beyond the bound keeps it.
LEMMA NonceUsedUp ==
    ASSUME IInv, NEW w \in Wallet, UseUpNonce(w, tx), UNCHANGED serviceVars
    PROVE  IInv'
<1> USE DEF IInv, TypeOK, UseUpNonce, serviceVars, From, Request
<1>1. TypeOK'
  OBVIOUS
<1>2. Progress'
  BY DEF Progress
<1>3. Record'
  BY DEF Record, WriteAhead, ProcessedIsMined, AnswerIsTrue, TakenForExecuted
<1>4. Nonces'
  BY DEF Nonces, Mined
<1>5. OneMinedPerNonce'
  BY DEF OneMinedPerNonce, Mined
<1>6. QED
  BY <1>1, <1>2, <1>3, <1>4, <1>5

\* The end of the process, at whatever moment, is a step of ProcessTx or none.
LEMMA MemoryLost == TypeOK /\ LoseMemory => [Next]_vars
<1> SUFFICES ASSUME TypeOK, LoseMemory PROVE [Next]_vars
  OBVIOUS
<1>1. CASE \E j \in Job : InFlight(j) \/ linked[j] = "pending" \/ event[j] = "published"
  BY <1>1 DEF Crash, Next
<1>2. CASE ~\E j \in Job : InFlight(j) \/ linked[j] = "pending" \/ event[j] = "published"
  BY <1>2 DEF LoseMemory, TypeOK, vars, chainVars
<1>3. QED
  BY <1>1, <1>2

\* What is final for a job: its answer, the fate of its transaction, the end of
\* its event.
Settled(j) ==
    /\ req' = req
    /\ result[j] # "none" => result'[j] = result[j]
    /\ Mined(j) => tx'[j] = tx[j]
    /\ tx[j] # "unsent" => tx'[j] # "unsent"
    /\ pc[j] # "idle" => pc'[j] # "idle"
    /\ event[j] # "none" => event'[j] # "none"
    /\ event[j] \in {"handled", "dropped"} => event'[j] = event[j]

\* ... and stays so, in every step.
LEMMA SettledStep == ASSUME IInv, [Next]_vars, NEW j \in Job PROVE Settled(j)
<1> USE DEF IInv, TypeOK, Progress, Settled, Mined, Goto, Return, chainVars, serviceVars, From
<1>1. ASSUME NEW k \in Job, Call(k) PROVE Settled(j)
  BY <1>1 DEF Call
<1>2. ASSUME NEW k \in Job, ReadNonce(k) PROVE Settled(j)
  BY <1>2 DEF ReadNonce
<1>3. ASSUME NEW k \in Job, Estimate(k) PROVE Settled(j)
  BY <1>3 DEF Estimate
<1>4. ASSUME NEW k \in Job, Refuse(k) PROVE Settled(j)
  BY <1>4 DEF Refuse
<1>5. ASSUME NEW k \in Job, CreateRow(k) PROVE Settled(j)
  BY <1>5 DEF CreateRow
<1>6. ASSUME NEW k \in Job, CreateRowFails(k) PROVE Settled(j)
  BY <1>6 DEF CreateRowFails
<1>7. ASSUME NEW k \in Job, Broadcast(k) PROVE Settled(j)
  BY <1>7 DEF Broadcast
<1>8. ASSUME NEW k \in Job, BroadcastRefused(k) PROVE Settled(j)
  BY <1>8 DEF BroadcastRefused
<1>9. ASSUME NEW k \in Job, ReceiptOk(k) PROVE Settled(j)
  BY <1>9 DEF ReceiptOk
<1>10. ASSUME NEW k \in Job, ReceiptReverted(k) PROVE Settled(j)
  BY <1>10 DEF ReceiptReverted
<1>11. ASSUME NEW k \in Job, GiveUp(k) PROVE Settled(j)
  BY <1>11 DEF GiveUp
<1>12. ASSUME NEW k \in Job, SaveRow(k) PROVE Settled(j)
  BY <1>12 DEF SaveRow
<1>13. ASSUME NEW k \in Job, SaveRowFails(k) PROVE Settled(j)
  BY <1>13 DEF SaveRowFails
<1>14. ASSUME NEW k \in Job, LinkRow(k) PROVE Settled(j)
  BY <1>14 DEF LinkRow
<1>15. ASSUME NEW k \in Job, HandleEvent(k) PROVE Settled(j)
  BY <1>15 DEF HandleEvent
<1>16. ASSUME NEW k \in Job, Mine(k) PROVE Settled(j)
  BY <1>16 DEF Mine, UseUpNonce
<1>17. CASE Crash
  BY <1>17 DEF Crash, LoseMemory, InFlight, Called, Ended
<1>18. ASSUME NEW w \in Wallet, MineForeign(w) PROVE Settled(j)
  BY <1>18 DEF MineForeign, UseUpNonce
<1>19. CASE UNCHANGED vars
  BY <1>19 DEF vars
<1>20. QED
  BY <1>1, <1>2, <1>3, <1>4, <1>5, <1>6, <1>7, <1>8, <1>9, <1>10, <1>11, <1>12,
     <1>13, <1>14, <1>15, <1>16, <1>17, <1>18, <1>19 DEF Next, Step, Background,
     Network, Quiet

\* A nonce used up by somebody else changes nothing that is settled.
LEMMA SettledUsedUp ==
    ASSUME IInv, NEW w \in Wallet, UseUpNonce(w, tx), UNCHANGED serviceVars, NEW j \in Job
    PROVE  Settled(j)
  BY DEF IInv, TypeOK, Settled, Mined, UseUpNonce, serviceVars

\* A step of a call calls nothing, ends no other one, handles no event, and sends
\* and answers at most its own transaction.
LEMMA InsideStep ==
    ASSUME IInv, NEW k \in Job, Step(k)
    PROVE  \A j \in Job :
               /\ pc[j] = "idle" => pc'[j] = "idle"
               /\ Ended(j) => Ended(j)'
               /\ InFlight(j)' => InFlight(j)
               /\ event'[j] = "handled" => event[j] = "handled"
               /\ tx'[j] # tx[j] =>
                      pc[j] = "send" /\ tx[j] = "unsent" /\ tx'[j] = "pending"
               /\ j # k => result'[j] = result[j]
<1> USE DEF IInv, TypeOK, Ended, InFlight, Called, Goto, Return, chainVars, serviceVars
<1>1. CASE ReadNonce(k) \/ Estimate(k) \/ Refuse(k)
  BY <1>1 DEF ReadNonce, Estimate, Refuse
<1>2. CASE CreateRow(k) \/ CreateRowFails(k)
  BY <1>2 DEF CreateRow, CreateRowFails
<1>3. CASE Broadcast(k) \/ BroadcastRefused(k)
  BY <1>3 DEF Broadcast, BroadcastRefused, Progress
<1>4. CASE ReceiptOk(k) \/ ReceiptReverted(k) \/ GiveUp(k)
  BY <1>4 DEF ReceiptOk, ReceiptReverted, GiveUp
<1>5. CASE SaveRow(k) \/ SaveRowFails(k)
  BY <1>5 DEF SaveRow, SaveRowFails
<1>6. QED
  BY <1>1, <1>2, <1>3, <1>4, <1>5 DEF Step

\* Mining settles one pending transaction and makes void its rivals for the nonce,
\* which are all that the wallet has pending.
LEMMA MineStep ==
    ASSUME IInv, NEW k \in Job, Mine(k)
    PROVE  /\ UNCHANGED serviceVars
           /\ tx[k] = "pending" /\ tx'[k] \in {"succeeded", "reverted"}
           /\ \A j \in Job : j # k =>
                  IF tx[j] = "pending" /\ From(j) = From(k) THEN tx'[j] = "void"
                  ELSE tx'[j] = tx[j]
  BY DEF IInv, TypeOK, Nonces, Mine, UseUpNonce, From, Request

\* A transaction is sent by its own call; and when it is mined, its wallet has none
\* left that could be.
LEMMA FateStep ==
    ASSUME IInv, [Next]_vars, NEW j \in Job, tx'[j] # tx[j]
    PROVE  \/ tx[j] = "unsent" /\ tx'[j] = "pending" /\ InFlight(j)
           \/ tx[j] = "pending" /\ tx'[j] = "void"
           \/ /\ tx[j] = "pending" /\ tx'[j] \in {"succeeded", "reverted"}
              /\ \A k \in Job : From(k) = From(j) => tx'[k] # "pending"
<1>1. ASSUME NEW k \in Job, Step(k) PROVE tx[j] = "unsent" /\ tx'[j] = "pending" /\ InFlight(j)
  BY <1>1, InsideStep DEF InFlight, Called, Ended
<1>2. ASSUME NEW k \in Job, Call(k) \/ Background(k) PROVE FALSE
  BY <1>2 DEF Call, Background, LinkRow, HandleEvent, chainVars
<1>3. ASSUME NEW k \in Job, Mine(k)
      PROVE  \/ tx[j] = "pending" /\ tx'[j] = "void"
             \/ /\ tx[j] = "pending" /\ tx'[j] \in {"succeeded", "reverted"}
                /\ \A i \in Job : From(i) = From(j) => tx'[i] # "pending"
  BY <1>3, MineStep
<1>4. ASSUME NEW w \in Wallet, MineForeign(w) PROVE tx[j] = "pending" /\ tx'[j] = "void"
  BY <1>4 DEF MineForeign, UseUpNonce, IInv, TypeOK
<1>5. CASE Crash \/ UNCHANGED vars
  BY <1>5 DEF Crash, LoseMemory, chainVars, vars
<1>6. QED
  BY <1>1, <1>2, <1>3, <1>4, <1>5 DEF Next, Network, Quiet

\* The inductive invariant: the four safety properties with what a job's place
\* says of its writes and with the network's rule for nonces.
THEOREM Invariance == Spec => []IInv
  BY InvInit, InvStep, PTL DEF Spec

\* No transaction reaches the network before its row is in the table.
THEOREM LoggedFirst == Spec => []WriteAhead
<1>1. IInv => WriteAhead
  BY DEF IInv, Record
<1>2. QED
  BY Invariance, <1>1, PTL

\* PROCESSED, in the table or through the event, is said only of a job whose
\* own transaction has succeeded.
THEOREM ProcessedOnlyIfMined == Spec => []ProcessedIsMined
<1>1. IInv => ProcessedIsMined
  BY DEF IInv, Record
<1>2. QED
  BY Invariance, <1>1, PTL

\* A receipt is never given for nothing, a bare payload never with a trace.
THEOREM AnswersAreTrue == Spec => []AnswerIsTrue
<1>1. IInv => AnswerIsTrue
  BY DEF IInv, Record
<1>2. QED
  BY Invariance, <1>1, PTL

\* However many calls of a wallet read one nonce, at most one is taken for
\* executed.
THEOREM NonceUsedOnce == Spec => []OneWinnerPerNonce
<1>1. IInv => OneWinnerPerNonce
  BY DEF IInv, Record, ProcessedIsMined, OneMinedPerNonce, OneWinnerPerNonce, Mined
<1>2. QED
  BY Invariance, <1>1, PTL

\* A step writes only what its job's place allows.
LEMMA RevisionStep == IInv /\ [Next]_vars => [NoneRevised]_vars
<1> SUFFICES ASSUME IInv, [Next]_vars, vars' # vars PROVE NoneRevised
  OBVIOUS
<1> USE DEF IInv, Record, TypeOK, Progress, NoneRevised, Ended, Goto, Return,
    chainVars, serviceVars
<1>1. ASSUME NEW j \in Job, Call(j) PROVE NoneRevised
  BY <1>1 DEF Call
<1>2. ASSUME NEW j \in Job, ReadNonce(j) PROVE NoneRevised
  BY <1>2 DEF ReadNonce
<1>3. ASSUME NEW j \in Job, Estimate(j) PROVE NoneRevised
  BY <1>3 DEF Estimate
<1>4. ASSUME NEW j \in Job, Refuse(j) PROVE NoneRevised
  BY <1>4 DEF Refuse
<1>5. ASSUME NEW j \in Job, CreateRow(j) PROVE NoneRevised
  BY <1>5 DEF CreateRow
<1>6. ASSUME NEW j \in Job, CreateRowFails(j) PROVE NoneRevised
  BY <1>6 DEF CreateRowFails
<1>7. ASSUME NEW j \in Job, Broadcast(j) PROVE NoneRevised
  BY <1>7 DEF Broadcast
<1>8. ASSUME NEW j \in Job, BroadcastRefused(j) PROVE NoneRevised
  BY <1>8 DEF BroadcastRefused
<1>9. ASSUME NEW j \in Job, ReceiptOk(j) PROVE NoneRevised
  BY <1>9 DEF ReceiptOk
<1>10. ASSUME NEW j \in Job, ReceiptReverted(j) PROVE NoneRevised
  BY <1>10 DEF ReceiptReverted
<1>11. ASSUME NEW j \in Job, GiveUp(j) PROVE NoneRevised
  BY <1>11 DEF GiveUp
<1>12. ASSUME NEW j \in Job, SaveRow(j) PROVE NoneRevised
  BY <1>12 DEF SaveRow
<1>13. ASSUME NEW j \in Job, SaveRowFails(j) PROVE NoneRevised
  BY <1>13 DEF SaveRowFails
<1>14. ASSUME NEW j \in Job, LinkRow(j) PROVE NoneRevised
  BY <1>14 DEF LinkRow
<1>15. ASSUME NEW j \in Job, HandleEvent(j) PROVE NoneRevised
  BY <1>15 DEF HandleEvent
<1>16. ASSUME NEW j \in Job, Mine(j) PROVE NoneRevised
  BY <1>16 DEF Mine, UseUpNonce
<1>17. CASE Crash
  BY <1>17 DEF Crash, LoseMemory, InFlight
<1>18. ASSUME NEW w \in Wallet, MineForeign(w) PROVE NoneRevised
  BY <1>18 DEF MineForeign, UseUpNonce
<1>19. QED
  BY <1>1, <1>2, <1>3, <1>4, <1>5, <1>6, <1>7, <1>8, <1>9, <1>10, <1>11, <1>12,
     <1>13, <1>14, <1>15, <1>16, <1>17, <1>18 DEF Next, Step, Background, Network,
     Quiet

\* A call that is over stays as it is, for any jobs and wallets.
THEOREM NothingRevised == Spec => NoSecondThoughts
  BY Invariance, RevisionStep, PTL DEF Spec, NoSecondThoughts

-----------------------------------------------------------------------------
\* What a step does to a record, an answer and the chain is a step of
\* TxPromise for one job, or nothing.
LEMMA PromiseStep == IInv /\ [Next]_vars => [Promise!Next]_(Promise!vars)
<1> SUFFICES ASSUME IInv, [Next]_vars, ~ UNCHANGED Promise!vars PROVE Promise!Next
  OBVIOUS
<1> DEFINE effect == [j \in Job |-> IF Mined(j) THEN tx[j] ELSE "none"]
           Same == effect' = effect
<1>0. tx' = tx => Same
  BY DEF Mined
<1> USE DEF Goto, Return, chainVars, serviceVars
<1>1. ASSUME NEW j \in Job, Call(j) PROVE Promise!Next
  BY <1>1, <1>0 DEF Call, Promise!vars
<1>2. ASSUME NEW j \in Job, ReadNonce(j) PROVE Promise!Next
  BY <1>2, <1>0 DEF ReadNonce, Promise!vars
<1>3. ASSUME NEW j \in Job, Estimate(j) PROVE Promise!Next
  <2>1. Same
    BY <1>3, <1>0 DEF Estimate, IInv, Record, TypeOK, Progress, Mined
  <2>2. Promise!Describe(j) \/ UNCHANGED Promise!vars
    BY <1>3, <2>1 DEF Estimate, IInv, Record, TypeOK, Progress, Promise!Open,
       Promise!Describe, Promise!vars
  <2>3. QED
    BY <2>2 DEF Promise!Next
<1>4. ASSUME NEW j \in Job, Refuse(j) PROVE Promise!Next
  <2>1. Promise!Fail(j)
    BY <1>4, <1>0 DEF Refuse, IInv, Record, TypeOK, Progress, Promise!Open, Promise!Fail
  <2>2. QED
    BY <2>1 DEF Promise!Next
<1>5. ASSUME NEW j \in Job, CreateRow(j) PROVE Promise!Next
  <2>1. Promise!Log(j)
    BY <1>5, <1>0 DEF CreateRow, IInv, Record, TypeOK, Progress, Promise!Open, Promise!Log
  <2>2. QED
    BY <2>1 DEF Promise!Next
<1>6. ASSUME NEW j \in Job, CreateRowFails(j) PROVE Promise!Next
  <2>1. Same
    BY <1>6, <1>0 DEF CreateRowFails, IInv, Record, TypeOK, Progress, Mined
  <2>2. PICK s \in {"absent", "created"} : txModel' = [txModel EXCEPT ![j] = s]
    BY <1>6 DEF CreateRowFails
  <2>3. Promise!Open(j) /\ txModel[j] = "absent"
    BY <1>6 DEF CreateRowFails, IInv, Record, Progress, Promise!Open
  <2>4. CASE s = "created"
    BY <1>6, <2>1, <2>2, <2>3, <2>4 DEF CreateRowFails, Promise!Log, Promise!Next
  <2>5. CASE s = "absent"
    <3>1. txModel' = txModel
      BY <2>2, <2>3, <2>5 DEF IInv, Record, TypeOK
    <3>2. Promise!Fail(j)
      BY <1>6, <2>1, <2>3, <3>1 DEF CreateRowFails, Promise!Fail
    <3>3. QED
      BY <3>2 DEF Promise!Next
  <2>6. QED
    BY <2>4, <2>5
<1>7. ASSUME NEW j \in Job, Broadcast(j) PROVE Promise!Next
  <2>1. Same
    BY <1>7, <1>0 DEF Broadcast, IInv, Record, TypeOK, Progress, Mined
  <2>2. Promise!Fail(j) \/ UNCHANGED Promise!vars
    BY <1>7, <2>1 DEF Broadcast, IInv, Record, TypeOK, Progress, Promise!Open,
       Promise!Fail, Promise!vars
  <2>3. QED
    BY <2>2 DEF Promise!Next
<1>8. ASSUME NEW j \in Job, BroadcastRefused(j) PROVE Promise!Next
  <2>1. Promise!Fail(j)
    BY <1>8, <1>0 DEF BroadcastRefused, IInv, Record, TypeOK, Progress, Promise!Open,
       Promise!Fail
  <2>2. QED
    BY <2>1 DEF Promise!Next
<1>9. ASSUME NEW j \in Job, ReceiptOk(j) PROVE Promise!Next
  BY <1>9, <1>0 DEF ReceiptOk, Promise!vars
<1>10. ASSUME NEW j \in Job, ReceiptReverted(j) PROVE Promise!Next
  <2>1. Promise!Fail(j)
    BY <1>10, <1>0 DEF ReceiptReverted, IInv, Record, TypeOK, Progress, Promise!Open,
       Promise!Fail
  <2>2. QED
    BY <2>1 DEF Promise!Next
<1>11. ASSUME NEW j \in Job, GiveUp(j) PROVE Promise!Next
  <2>1. Promise!Fail(j)
    BY <1>11, <1>0 DEF GiveUp, IInv, Record, TypeOK, Progress, Promise!Open, Promise!Fail
  <2>2. QED
    BY <2>1 DEF Promise!Next
<1>12. ASSUME NEW j \in Job, SaveRow(j) PROVE Promise!Next
  <2>1. Promise!Settle(j)
    BY <1>12, <1>0 DEF SaveRow, IInv, Record, TypeOK, Progress, Mined, Promise!Open,
       Promise!Settle
  <2>2. QED
    BY <2>1 DEF Promise!Next
<1>13. ASSUME NEW j \in Job, SaveRowFails(j) PROVE Promise!Next
  <2>1. Same
    BY <1>13, <1>0 DEF SaveRowFails
  <2>2. PICK s \in {"created", "processed"} : txModel' = [txModel EXCEPT ![j] = s]
    BY <1>13 DEF SaveRowFails
  <2>3. Promise!Open(j) /\ txModel[j] = "created" /\ effect[j] = "succeeded"
    BY <1>13 DEF SaveRowFails, IInv, Record, Progress, Promise!Open, Mined
  <2>4. CASE s = "processed"
    BY <1>13, <2>1, <2>2, <2>3, <2>4 DEF SaveRowFails, Promise!Settle, Promise!Next
  <2>5. CASE s = "created"
    <3>1. txModel' = txModel
      BY <2>2, <2>3, <2>5 DEF IInv, Record, TypeOK
    <3>2. Promise!Fail(j)
      BY <1>13, <2>1, <2>3, <3>1 DEF SaveRowFails, Promise!Fail
    <3>3. QED
      BY <3>2 DEF Promise!Next
  <2>6. QED
    BY <2>4, <2>5
<1>14. ASSUME NEW j \in Job, LinkRow(j) PROVE Promise!Next
  BY <1>14, <1>0 DEF LinkRow, Promise!vars
<1>15. ASSUME NEW j \in Job, HandleEvent(j) PROVE Promise!Next
  BY <1>15, <1>0 DEF HandleEvent, Promise!vars
<1>16. ASSUME NEW j \in Job, Mine(j) PROVE Promise!Next
  <2>1. PICK o \in {"succeeded", "reverted"} : UseUpNonce(From(j), [tx EXCEPT ![j] = o])
    BY <1>16 DEF Mine
  <2>2. txModel[j] = "created" /\ effect[j] = "none"
    BY <1>16 DEF Mine, IInv, Record, TypeOK, WriteAhead, ProcessedIsMined,
       TakenForExecuted, Mined
  <2>3. effect' = [effect EXCEPT ![j] = o]
    BY <1>16, <2>1 DEF Mine, UseUpNonce, IInv, Record, TypeOK, Mined
  <2>4. Promise!Execute(j)
    BY <1>16, <2>2, <2>3 DEF Mine, Promise!Execute
  <2>5. QED
    BY <2>4 DEF Promise!Next
<1>17. CASE Crash
  BY <1>17, <1>0 DEF Crash, LoseMemory, Promise!vars
<1>18. ASSUME NEW w \in Wallet, MineForeign(w) PROVE Promise!Next
  <2>1. Same
    BY <1>18 DEF MineForeign, UseUpNonce, IInv, Record, TypeOK, Mined
  <2>2. QED
    BY <1>18, <2>1 DEF MineForeign, Promise!vars
<1>19. CASE UNCHANGED vars
  BY <1>19, <1>0 DEF vars, Promise!vars
<1>20. QED
  BY <1>1, <1>2, <1>3, <1>4, <1>5, <1>6, <1>7, <1>8, <1>9, <1>10, <1>11, <1>12,
     <1>13, <1>14, <1>15, <1>16, <1>17, <1>18, <1>19 DEF Next, Step, Background,
     Network, Quiet

\* processTx implements its abstract promise, for any jobs and wallets.
THEOREM PromiseKept == Spec => KeepsPromise
<1>1. Init => Promise!Init
  BY DEF Init, Promise!Init, Mined
<1>2. QED
  BY <1>1, Invariance, PromiseStep, PTL DEF Spec, KeepsPromise, Promise!Spec
=============================================================================
