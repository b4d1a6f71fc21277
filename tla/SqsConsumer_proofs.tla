------------------------- MODULE SqsConsumer_proofs -------------------------
(* Proofs about the consumer, for any queue, any number of attempts, commands *)
(* over Redis and wallets: no command is lost.                                *)
EXTENDS SqsConsumer, ProcessTx_proofs

\* Only commands that are to be executed reach processTx.
AllExecute == \A j \in Job : req[j].execute

\* What was answered has been read or executed: the answer is the receipt of
\* the attempt's own transaction.
Answered == \A j \in answers : attempt[j] \in View \/ tx[j] = "succeeded"

\* handleMessage returns only after the answer.
AnsweredFirst == stage = "delete" => current \in answers

SqsInv ==
    /\ SqsTypeOK
    /\ IInv
    /\ AllExecute
    /\ Answered
    /\ AnsweredFirst
    /\ DeletedWasExecuted

-----------------------------------------------------------------------------
\* Before the first delivery nothing is answered or deleted.
LEMMA SqsInvInit == SqsInit => SqsInv
<1> SUFFICES ASSUME SqsInit PROVE SqsInv
  OBVIOUS
<1>1. IInv
  BY InvInit DEF SqsInit
<1>2. QED
  BY <1>1, SqsAssumption DEF SqsInit, SqsInv, SqsTypeOK, AllExecute, Answered,
     AnsweredFirst, DeletedWasExecuted, IInv

\* Whatever the consumer does, processTx takes one of its own steps or none.
LEMMA ConsumerMovesService == SqsTypeOK /\ [SqsNext]_svars => [Next]_vars
<1> SUFFICES ASSUME SqsTypeOK, [SqsNext]_svars PROVE [Next]_vars
  OBVIOUS
<1>1. ASSUME NEW j \in Job, NEW m \in Message, Receive(m, j) PROVE [Next]_vars
  BY <1>1 DEF Receive
<1>2. ASSUME NEW j \in Job, ConsumerStep(j) PROVE [Next]_vars
  BY <1>2 DEF ConsumerStep, Dispatch, ReadContract, UnsupportedThrows, HandlerThrows,
     Respond, ExecuteThrows, Delete, Next
<1>3. ASSUME NEW j \in Job, RedisCommand(j) PROVE [Next]_vars
  BY <1>3 DEF RedisCommand, Next
<1>4. ASSUME NEW j \in Job, Step(j) \/ Background(j) PROVE [Next]_vars
  BY <1>4 DEF Next
<1>5. CASE SqsCrash
  BY <1>5, MemoryLost DEF SqsCrash, SqsTypeOK
<1>6. CASE Network
  BY <1>6 DEF Next
<1>7. CASE UNCHANGED svars
  BY <1>7 DEF svars
<1>8. QED
  BY <1>1, <1>2, <1>3, <1>4, <1>5, <1>6, <1>7 DEF SqsNext, SqsQuiet

\* A step that leaves the queue and the consumer alone keeps what they rest on.
LEMMA ConsumerIdle ==
    ASSUME SqsInv, IInv', \A j \in Job : Settled(j), UNCHANGED sqsVars
    PROVE  SqsInv'
  BY DEF SqsInv, SqsTypeOK, IInv, AllExecute, Answered, AnsweredFirst,
     DeletedWasExecuted, sqsVars, Settled, Mined

\* Every step of the consumer, of a command over Redis, of SQS or of processTx
\* keeps the invariant.
LEMMA SqsInvStep == SqsInv /\ [SqsNext]_svars => SqsInv'
<1> SUFFICES ASSUME SqsInv, [SqsNext]_svars PROVE SqsInv'
  OBVIOUS
<1>1. [Next]_vars
  BY ConsumerMovesService DEF SqsInv
<1>2. IInv'
  BY <1>1, InvStep DEF SqsInv
<1>3. \A j \in Job : Settled(j)
  BY <1>1, SettledStep DEF SqsInv
<1>4. TypeOK' /\ AllExecute'
  BY <1>2, <1>3 DEF IInv, SqsInv, AllExecute, Settled
<1> USE SqsAssumption DEF SqsTypeOK, Answered, AnsweredFirst, DeletedWasExecuted, Free
<1>5. ASSUME NEW j \in Job, NEW m \in Message, Receive(m, j) PROVE SqsInv'
  <2>1. j \notin answers
    BY <1>5 DEF Receive, Fits, SqsInv
  <2>2. SqsTypeOK'
    BY <1>4, <1>5, <2>1 DEF Receive, SqsInv
  <2>3. Answered' /\ AnsweredFirst'
    BY <1>5, <2>1 DEF Receive, SqsInv, vars
  <2>4. DeletedWasExecuted'
    BY <1>5, <2>1 DEF Receive, SqsInv, vars
  <2>5. QED
    BY <1>2, <1>4, <2>2, <2>3, <2>4 DEF SqsInv
<1>6. ASSUME NEW j \in Job, ConsumerStep(j) PROVE SqsInv'
  <2>1. UNCHANGED attempt /\ answers \subseteq answers'
    BY <1>6 DEF ConsumerStep, Dispatch, ReadContract, UnsupportedThrows,
       HandlerThrows, Respond, ExecuteThrows, Delete
  <2>2. SqsTypeOK'
    BY <1>4, <1>6 DEF ConsumerStep, Dispatch, ReadContract, UnsupportedThrows,
       HandlerThrows, Respond, ExecuteThrows, Delete, SqsInv
  <2>3. Answered'
    <3>1. ASSUME Respond(j) PROVE tx[j] = "succeeded" /\ UNCHANGED tx
      BY <3>1 DEF Respond, vars, SqsInv, AllExecute, IInv, Record, AnswerIsTrue
    <3>2. \A k \in answers : tx[k] = "succeeded" => tx'[k] = "succeeded"
      BY <1>3 DEF Settled, Mined, SqsInv
    <3>3. QED
      BY <1>6, <2>1, <3>1, <3>2 DEF ConsumerStep, Dispatch, ReadContract,
         UnsupportedThrows, HandlerThrows, Respond, ExecuteThrows, Delete, SqsInv
  <2>4. AnsweredFirst'
    BY <1>6 DEF ConsumerStep, Dispatch, ReadContract, UnsupportedThrows,
       HandlerThrows, Respond, ExecuteThrows, Delete, SqsInv
  <2>5. DeletedWasExecuted'
    <3>1. CASE Delete(j)
      BY <3>1 DEF Delete, SqsInv, vars
    <3>2. CASE ~Delete(j)
      <4>1. queue' = queue
        BY <1>6, <3>2 DEF ConsumerStep, Dispatch, ReadContract, UnsupportedThrows,
           HandlerThrows, Respond, ExecuteThrows
      <4>2. QED
        BY <1>3, <2>1, <4>1 DEF Settled, Mined, SqsInv
    <3>3. QED
      BY <3>1, <3>2
  <2>6. QED
    BY <1>2, <1>4, <2>2, <2>3, <2>4, <2>5 DEF SqsInv
<1>7. ASSUME NEW j \in Job, RedisCommand(j) PROVE SqsInv'
  BY <1>2, <1>3, <1>7, ConsumerIdle DEF RedisCommand
<1>8. CASE SqsCrash
  BY <1>2, <1>4, <1>8 DEF SqsCrash, LoseMemory, SqsInv, chainVars
<1>9. CASE UNCHANGED sqsVars
  BY <1>2, <1>3, <1>9, ConsumerIdle
<1>10. QED
  BY <1>5, <1>6, <1>7, <1>8, <1>9 DEF SqsNext, SqsQuiet, svars

-----------------------------------------------------------------------------
(* Why a message that is deleted has nothing left under way.               *)

\* Of all attempts only the current one may be inside processTx, and one that only
\* reads never is.
AttemptsOver ==
    \A j \in Job : attempt[j] # None =>
        /\ InFlight(j) => current = j /\ stage = "execute"
        /\ attempt[j] \in View => ~Called(j)

\* The attempts at one message are from one wallet.
OneSender ==
    \A j, k \in Job : attempt[j] # None /\ attempt[j] = attempt[k] => From(j) = From(k)

\* What is in hand is still in the queue.
InHand == current # None => attempt[current] \in queue

\* Once the current attempt is executed, no other one at its message is pending.
RivalsOver ==
    current # None /\ tx[current] = "succeeded" =>
        \A k \in Job : attempt[k] = attempt[current] => tx[k] # "pending"

\* ... and none is when the message is deleted.
DeletedIsOver == \A j \in Job : attempt[j] \in Message \ queue => tx[j] # "pending"

AttemptInv == AttemptsOver /\ OneSender /\ InHand /\ RivalsOver /\ DeletedIsOver

\* A call begins by handleMessage, for its current attempt, or over Redis.
LEMMA CallBegins ==
    ASSUME SqsInv, [SqsNext]_svars, NEW j \in Job, Called(j)', ~Called(j)
    PROVE  UNCHANGED attempt /\ (Dispatch(j) \/ attempt[j] = None)
<1> USE DEF SqsInv, IInv, TypeOK, Called
<1>1. CASE \E k \in Job : Step(k) /\ UNCHANGED sqsVars
  BY <1>1, InsideStep
<1>2. CASE \E k \in Job : Background(k) /\ UNCHANGED sqsVars
  BY <1>2 DEF Background, LinkRow, HandleEvent
<1>3. CASE Network
  BY <1>3 DEF Network, Mine, MineForeign, serviceVars
<1>4. CASE SqsCrash
  BY <1>4 DEF SqsCrash, LoseMemory, InFlight
<1>5. CASE \E k \in Job : RedisCommand(k)
  BY <1>5 DEF RedisCommand, Call, Goto, sqsVars
<1>6. CASE \E k \in Job : ConsumerStep(k)
  BY <1>6 DEF ConsumerStep, Dispatch, Call, Goto, ReadContract, UnsupportedThrows,
     HandlerThrows, Respond, ExecuteThrows, Delete, vars
<1>7. CASE (\E k \in Job, m \in Message : Receive(m, k)) \/ UNCHANGED svars
  BY <1>7 DEF Receive, vars, svars
<1>8. QED
  BY <1>1, <1>2, <1>3, <1>4, <1>5, <1>6, <1>7 DEF SqsNext, SqsQuiet

\* Every step keeps it: what is in hand, one attempt after another.
LEMMA AttemptInvStep == SqsInv /\ AttemptInv /\ [SqsNext]_svars => AttemptInv'
<1> SUFFICES ASSUME SqsInv, AttemptInv, [SqsNext]_svars PROVE AttemptInv'
  OBVIOUS
<1>1. [Next]_vars /\ SqsInv'
  BY ConsumerMovesService, SqsInvStep DEF SqsInv
<1>2. \A j \in Job : Settled(j)
  BY <1>1, SettledStep DEF SqsInv
<1>3. req' = req
  BY <1>1 DEF Next, Call, Step, ReadNonce, Estimate, Refuse, CreateRow, CreateRowFails,
     Broadcast, BroadcastRefused, ReceiptOk, ReceiptReverted, GiveUp, SaveRow,
     SaveRowFails, Background, LinkRow, HandleEvent, Crash, LoseMemory, Network, Mine,
     MineForeign, serviceVars, Quiet, vars
<1> USE SqsAssumption
<1>4. ASSUME NEW j \in Job, ConsumerStep(j)
      PROVE  /\ UNCHANGED attempt /\ current = j /\ current' \in {j, None}
             /\ queue' = queue \/ (Delete(j) /\ queue' = queue \ {attempt[j]})
  BY <1>4 DEF ConsumerStep, Dispatch, ReadContract, UnsupportedThrows, HandlerThrows,
     Respond, ExecuteThrows, Delete, Free
<1>5. \/ \E j \in Job, m \in Message : Receive(m, j)
     \/ /\ UNCHANGED attempt /\ (current' = current \/ current' = None)
        /\ queue' = queue \/ \E j \in Job : Delete(j) /\ queue' = queue \ {attempt[j]}
  <2>1. CASE \E j \in Job : ConsumerStep(j)
    BY <2>1, <1>4
  <2>2. CASE SqsCrash
    BY <2>2 DEF SqsCrash, Free
  <2>3. CASE UNCHANGED sqsVars
    BY <2>3 DEF sqsVars
  <2>4. QED
    BY <2>1, <2>2, <2>3 DEF SqsNext, SqsQuiet, RedisCommand, svars
<1>6. ASSUME NEW j \in Job, NEW m \in Message, Receive(m, j) PROVE AttemptInv'
  <2>1. /\ UNCHANGED vars /\ queue' = queue /\ current' = j /\ current = None
        /\ m \in queue /\ ~Called(j)
        /\ \A k \in Job : attempt'[k] = IF k = j THEN m ELSE attempt[k]
        /\ \A k \in Job : attempt[k] = m => From(k) = From(j)
    BY <1>6 DEF Receive, Fits, SqsInv, SqsTypeOK, From, vars
  <2>2. tx[j] = "unsent"
    BY <2>1 DEF SqsInv, IInv, Progress, Called
  <2>3. AttemptsOver'
    BY <2>1 DEF AttemptsOver, AttemptInv, InFlight, Called, Ended, vars
  <2>4. OneSender'
    BY <2>1 DEF OneSender, AttemptInv, From, vars
  <2>5. InHand' /\ RivalsOver' /\ DeletedIsOver'
    BY <2>1, <2>2 DEF InHand, RivalsOver, DeletedIsOver, AttemptInv, vars
  <2>6. QED
    BY <2>3, <2>4, <2>5 DEF AttemptInv
<1>7. CASE /\ UNCHANGED attempt /\ (current' = current \/ current' = None)
           /\ queue' = queue \/ \E j \in Job : Delete(j) /\ queue' = queue \ {attempt[j]}
  <2>1. AttemptsOver'
    <3> SUFFICES ASSUME NEW j \in Job, attempt[j] # None
                 PROVE  /\ InFlight(j)' => current' = j /\ stage' = "execute"
                        /\ attempt[j] \in View => ~Called(j)'
      BY <1>7 DEF AttemptsOver
    <3>1. CASE Dispatch(j)
      BY <3>1 DEF Dispatch, AttemptInv, AttemptsOver, Call, Goto, SqsInv, SqsTypeOK
    <3>2. CASE ~Dispatch(j)
      <4>1. Called(j)' => Called(j)
        BY <3>2, CallBegins
      <4>2. InFlight(j)' => InFlight(j)
        BY <4>1, <1>1, RevisionStep DEF SqsInv, NoneRevised, InFlight, Called, Ended, vars
      <4>3. CASE InFlight(j)'
        <5>1. current = j /\ stage = "execute"
          BY <4>2, <4>3 DEF AttemptInv, AttemptsOver
        <5>2. pc[j] # "done" /\ pc'[j] \notin {"done", "lost"} /\ result[j] = "none"
          BY <4>2, <4>3 DEF InFlight, Called, Ended, SqsInv, IInv, Progress
        <5>3. \A k \in Job : ~ConsumerStep(k)
          BY <5>1, <5>2 DEF ConsumerStep, Dispatch, ReadContract, UnsupportedThrows,
             HandlerThrows, Respond, ExecuteThrows, Delete
        <5>4. ~SqsCrash
          BY <4>2, <4>3 DEF SqsCrash, LoseMemory, InFlight, Ended, Called, SqsInv, IInv, TypeOK
        <5>5. ASSUME NEW k \in Job, NEW m \in Message, Receive(m, k) PROVE FALSE
          BY <5>1, <5>5 DEF Receive, SqsInv, SqsTypeOK
        <5>6. UNCHANGED sqsVars
          BY <5>3, <5>4, <5>5 DEF SqsNext, SqsQuiet, RedisCommand, svars
        <5>7. QED
          BY <5>1, <5>6, <4>1 DEF sqsVars, AttemptInv, AttemptsOver
      <4>4. QED
        BY <4>1, <4>3 DEF AttemptInv, AttemptsOver
    <3>3. QED
      BY <3>1, <3>2
  <2>2. OneSender'
    BY <1>3, <1>7 DEF OneSender, AttemptInv, From
  <2>3. InHand'
    BY <1>7 DEF InHand, AttemptInv, Delete, Free
  <2>4. ASSUME NEW j \in Job, attempt[j] # None, tx'[j] = "pending", tx[j] # "pending"
        PROVE  tx[j] = "unsent" /\ current = j
    BY <1>1, <2>4, FateStep DEF AttemptInv, AttemptsOver, SqsInv
  <2>5. RivalsOver'
    <3> SUFFICES ASSUME current' # None, tx'[current] = "succeeded", NEW k \in Job,
                        attempt[k] = attempt[current]
                 PROVE  tx'[k] # "pending"
      BY <1>7 DEF RivalsOver
    <3>1. current \in Job /\ current # None /\ attempt[current] # None
      BY <1>7 DEF SqsInv, SqsTypeOK
    <3>2. CASE tx[current] = "succeeded"
      BY <2>4, <3>1, <3>2 DEF AttemptInv, RivalsOver
    <3>3. CASE tx[current] # "succeeded"
      <4>1. From(k) = From(current)
        BY <3>1 DEF AttemptInv, OneSender
      <4>2. QED
        BY <1>1, <3>1, <3>3, <4>1, FateStep DEF SqsInv
    <3>4. QED
      BY <3>2, <3>3
  <2>6. DeletedIsOver'
    <3> SUFFICES ASSUME NEW j \in Job, attempt[j] \in Message \ queue'
                 PROVE  tx'[j] # "pending"
      BY <1>7 DEF DeletedIsOver
    <3>1. CASE attempt[j] \notin queue
      BY <2>4, <3>1 DEF AttemptInv, DeletedIsOver, InHand
    <3>2. CASE attempt[j] \in queue
      <4>1. PICK i \in Job : Delete(i) /\ attempt[j] = attempt[i]
        BY <1>7, <3>2
      <4>2. current = i /\ i \in answers /\ UNCHANGED vars
        BY <4>1 DEF Delete, SqsInv, AnsweredFirst
      <4>3. CASE attempt[i] \in View
        <5>1. tx[j] = "unsent"
          BY <4>1, <4>3 DEF AttemptInv, AttemptsOver, Called, SqsInv, IInv, Progress
        <5>2. QED
          BY <4>2, <5>1 DEF vars
      <4>4. CASE tx[i] = "succeeded"
        BY <4>1, <4>2, <4>4 DEF AttemptInv, RivalsOver, vars
      <4>5. QED
        BY <4>2, <4>3, <4>4 DEF SqsInv, Answered
    <3>3. QED
      BY <3>1, <3>2
  <2>7. QED
    BY <2>1, <2>2, <2>3, <2>5, <2>6 DEF AttemptInv
<1>8. QED
  BY <1>5, <1>6, <1>7

-----------------------------------------------------------------------------
\* The inductive invariant holds in every reachable state: that of processTx,
\* and that what is answered is read or executed.
THEOREM SqsInvariance == SqsSpec => []SqsInv
  BY SqsInvInit, SqsInvStep, PTL DEF SqsSpec

\* The consumer's variables have their types, and the attempt it runs and
\* those it has answered have their messages.
THEOREM SqsTypesCorrect == SqsSpec => []SqsTypeOK
<1>1. SqsInv => SqsTypeOK
  BY DEF SqsInv
<1>2. QED
  BY SqsInvariance, <1>1, PTL

\* A message is deleted only when one of its attempts was answered and, unless
\* it only reads, executed: however often it was delivered, whatever crashed and
\* whatever competed for the nonce.
THEOREM NoCommandLost == SqsSpec => []DeletedWasExecuted
<1>1. SqsInv => DeletedWasExecuted
  BY DEF SqsInv
<1>2. QED
  BY SqsInvariance, <1>1, PTL

\* What a deleted message has caused is final: although attempts are given up and
\* lost with their transactions still under way, the one that was answered has used
\* up the nonce of them all.
THEOREM NothingAfterDeletion == SqsSpec => DeletedIsFinal
<1>1. SqsInit => AttemptInv
  BY SqsAssumption DEF SqsInit, Init, AttemptInv, AttemptsOver, OneSender, InHand,
     RivalsOver, DeletedIsOver
<1>2. SqsInv /\ AttemptInv /\ [SqsNext]_svars =>
        [\A j \in Job : attempt[j] \in Message \ queue => tx'[j] = tx[j]]_svars
  <2> SUFFICES ASSUME SqsInv, AttemptInv, [SqsNext]_svars,
                      NEW j \in Job, attempt[j] \in Message \ queue, tx'[j] # tx[j]
               PROVE  FALSE
    BY DEF svars, vars
  <2>1. tx[j] = "pending" \/ InFlight(j)
    BY ConsumerMovesService, FateStep DEF SqsInv
  <2>2. tx[j] # "pending"
    BY DEF AttemptInv, DeletedIsOver
  <2>3. current = j /\ current # None
    BY <2>1, <2>2, SqsAssumption DEF AttemptInv, AttemptsOver
  <2>4. QED
    BY <2>3 DEF AttemptInv, InHand
<1>3. QED
  BY <1>1, <1>2, SqsInvariance, AttemptInvStep, PTL DEF SqsSpec, DeletedIsFinal

\* Beside the consumer and Redis, processTx still keeps its own invariant: rows
\* are written first, PROCESSED is true, a nonce has one winner.
THEOREM ServiceSafeBesideQueue == SqsSpec => [](WriteAhead /\ ProcessedIsMined /\ OneWinnerPerNonce)
<1>1. IInv => OneWinnerPerNonce
  BY DEF IInv, Record, ProcessedIsMined, OneMinedPerNonce, OneWinnerPerNonce, Mined
<1>2. SqsInv => WriteAhead /\ ProcessedIsMined /\ OneWinnerPerNonce
  BY <1>1 DEF SqsInv, IInv, Record
<1>3. QED
  BY SqsInvariance, <1>2, PTL

\* The consumer and Redis only call processTx: what they do to it, together,
\* implements its specification.
THEOREM ConsumerRunsService == SqsSpec => Spec
<1>1. SqsInit => Init
  BY DEF SqsInit
<1>2. SqsInv => SqsTypeOK
  BY DEF SqsInv
<1>3. QED
  BY <1>1, <1>2, SqsInvariance, ConsumerMovesService, PTL DEF SqsSpec, Spec

\* So every attempt, over whichever way it came, is answered and recorded as
\* processTx promises, and what is on record is never revised.
THEOREM AttemptsKeepPromise == SqsSpec => KeepsPromise /\ NoSecondThoughts
  BY ConsumerRunsService, PromiseKept, NothingRevised, PTL
=============================================================================
