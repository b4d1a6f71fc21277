----------------------------- MODULE SqsConsumer -----------------------------
(***************************************************************************)
(* The two ways a command comes in: over Redis, to Web3Controller, and out *)
(* of an SQS FIFO queue (external), to SqsConsumerHandler.  A message may  *)
(* be received again and again; a Job is one attempt at one message, or    *)
(* one command over Redis.  sqs-consumer takes one message at a time, runs *)
(* handleMessage and deletes the message when handleMessage has returned;  *)
(* commands over Redis run beside it.                                      *)
(***************************************************************************)
EXTENDS ProcessTx

CONSTANTS
    Message,        \* the messages clients put into the queue
    Unsupported,    \* those whose command handleMessage does not know
    View,           \* those that only read a contract
    None            \* no message, no attempt

ASSUME SqsAssumption ==
    /\ Unsupported \subseteq Message /\ View \subseteq Message
    /\ Unsupported \cap View = {}
    /\ None \notin Message /\ None \notin Job

VARIABLES
    queue,      \* messages not deleted
    attempt,    \* the message of each job that is an attempt
    current,    \* the attempt handleMessage is running
    stage,      \* how far it is
    answers     \* responses sent to the response queue, as attempts

sqsVars == <<queue, attempt, current, stage, answers>>
svars == <<vars, sqsVars>>

SqsTypeOK ==
    /\ TypeOK
    /\ queue \subseteq Message
    /\ attempt \in [Job -> Message \cup {None}]
    /\ current \in Job \cup {None}
    /\ stage \in {"idle", "dispatch", "execute", "delete"}
    /\ answers \subseteq Job
    /\ current = None <=> stage = "idle"
    /\ \A j \in answers \cup ({current} \ {None}) : attempt[j] \in Message

\* Every command that does not only read is to be executed.
SqsInit ==
    /\ Init
    /\ \A j \in Job : req[j].execute
    /\ queue = Message
    /\ attempt = [j \in Job |-> None]
    /\ current = None
    /\ stage = "idle"
    /\ answers = {}

\* Mutant: a failed attempt is not forgotten.
StillBusy == stage' = "idle" /\ UNCHANGED current

\* The consumer is free again; a message that was not deleted becomes visible
\* when its visibility time-out is over.
Free == current' = None /\ stage' = "idle"

\* Job j may be an attempt at m: a message asks for the same each time.
Fits(m, j) ==
    /\ attempt[j] = None /\ ~Called(j)
    /\ \A k \in Job : attempt[k] = m => req[k] = req[j]

Receive(m, j) ==
    /\ current = None
    /\ m \in queue
    /\ Fits(m, j)
    /\ attempt' = [attempt EXCEPT ![j] = m]
    /\ current' = j
    /\ stage' = "dispatch"
    /\ UNCHANGED <<queue, answers, vars>>

\* Web3Controller gives a command over Redis to its handler; the answer is the
\* client's own affair.
RedisCommand(j) ==
    /\ attempt[j] = None
    /\ Call(j)
    /\ UNCHANGED sqsVars

\* handleMessage gives the command to its handler, which calls processTx.
Dispatch(j) ==
    /\ current = j /\ stage = "dispatch"
    /\ attempt[j] \notin Unsupported \cup View
    /\ Call(j)
    /\ stage' = "execute"
    /\ UNCHANGED <<queue, attempt, current, answers>>

\* Mutant: a read, too, is answered before it has been made.
ReadAnsweredFirst(j) ==
    /\ current = j /\ stage = "dispatch"
    /\ attempt[j] \notin Unsupported
    /\ answers' = answers \cup {j}
    /\ stage' = "delete"
    /\ UNCHANGED <<queue, attempt, current, vars>>

\* CommonHandler, READ_CONTRACT: the contract's method is called on the node, and
\* its value is the result; processTx is not called.
ReadContract(j) ==
    /\ current = j /\ stage = "dispatch"
    /\ attempt[j] \in View
    /\ answers' = answers \cup {j}
    /\ stage' = "delete"
    /\ UNCHANGED <<queue, attempt, current, vars>>

\* handleMessage throws by itself.
UnsupportedThrows(j) ==
    /\ current = j /\ stage = "dispatch"
    /\ attempt[j] \in Unsupported
    /\ Free
    /\ UNCHANGED <<queue, attempt, answers, vars>>

\* The handler throws before it reaches processTx or the contract: wallet, contract
\* or method not found, options missing, arguments that do not fit; or networks
\* are not built yet, since the consumer may start before Web3Service is initialised.
HandlerThrows(j) ==
    /\ current = j /\ stage = "dispatch"
    /\ attempt[j] \notin Unsupported
    /\ Free
    /\ UNCHANGED <<queue, attempt, answers, vars>>

\* Mutant: an error is answered as if it were a result.
RespondAlways(j) ==
    /\ current = j /\ stage = "execute"
    /\ pc[j] = "done"
    /\ answers' = answers \cup {j}
    /\ stage' = "delete"
    /\ UNCHANGED <<queue, attempt, current, vars>>

\* The handler has a result: it is sent to the response queue.
Respond(j) ==
    /\ current = j /\ stage = "execute"
    /\ result[j] \in {"payload", "receipt"}
    /\ answers' = answers \cup {j}
    /\ stage' = "delete"
    /\ UNCHANGED <<queue, attempt, current, vars>>

\* processTx threw, or the response could not be sent: handleMessage throws,
\* onProcessingError logs it, nothing is answered or deleted.
ExecuteThrows(j) ==
    /\ current = j /\ stage = "execute"
    /\ pc[j] = "done"
    /\ Free
    /\ UNCHANGED <<queue, attempt, answers, vars>>

\* handleMessage returned: the message is deleted, unless the receipt handle
\* has expired in the meantime (waiting for a receipt takes minutes, and the
\* consumer does not extend the visibility time-out) or the call fails.
Delete(j) ==
    /\ current = j /\ stage = "delete"
    /\ \E Q \in {queue, queue \ {attempt[j]}} : queue' = Q
    /\ Free
    /\ UNCHANGED <<attempt, answers, vars>>

SqsCrash ==
    /\ \/ current # None
       \/ \E j \in Job : InFlight(j) \/ linked[j] = "pending" \/ event[j] = "published"
    /\ LoseMemory
    /\ Free
    /\ UNCHANGED <<queue, attempt, answers>>

ConsumerStep(j) ==
    \/ Dispatch(j) \/ ReadContract(j) \/ UnsupportedThrows(j) \/ HandlerThrows(j)
    \/ Respond(j) \/ ExecuteThrows(j) \/ Delete(j)

\* Nothing left to receive, or no attempt left to receive it with (the bound on
\* deliveries), and nothing running.
SqsQuiet ==
    /\ current = None
    /\ \A m \in queue, j \in Job : ~Fits(m, j)
    /\ UNCHANGED svars

SqsNext ==
    \/ \E j \in Job :
        \/ \E m \in Message : Receive(m, j)
        \/ ConsumerStep(j) \/ RedisCommand(j)
        \/ (Step(j) \/ Background(j)) /\ UNCHANGED sqsVars
    \/ SqsCrash
    \/ Network /\ UNCHANGED sqsVars
    \/ SqsQuiet

\* Every request to the node, the database or SQS is answered or fails; nothing is
\* assumed of the miners.
SqsFairness ==
    \A j \in Job : WF_svars(ConsumerStep(j)) /\ WF_svars(Step(j) /\ UNCHANGED sqsVars)

SqsSpec == SqsInit /\ [][SqsNext]_svars /\ SqsFairness

-----------------------------------------------------------------------------
(* Properties.                                                             *)

\* No command is lost: a message leaves the queue only when one of its attempts
\* has been answered and, unless it only reads, was executed on the chain, also
\* when commands over Redis compete for the nonce.
DeletedWasExecuted ==
    \A m \in Message \ queue :
        \E j \in answers : attempt[j] = m /\ (m \in View \/ tx[j] = "succeeded")

\* A message that has left the queue has done what it will ever do: none of its
\* attempts still has a transaction that could be mined, or be sent, also not one
\* that was given up or lost in a crash before another attempt was answered.  (All
\* of them are from one wallet, and compete for the nonce that was mined.)
DeletedIsFinal ==
    [][\A j \in Job : attempt[j] \in Message \ queue => tx'[j] = tx[j]]_svars

\* The queue is never blocked for ever behind one message: an attempt ends,
\* also one that waits for a transaction that can no longer be mined.
ConsumerMovesOn == \A j \in Job : current = j ~> current # j
=============================================================================
