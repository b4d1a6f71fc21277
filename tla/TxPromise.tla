----------------------------- MODULE TxPromise -----------------------------
(***************************************************************************)
(* What processTx promises its callers, without nonces, node or process:   *)
(* the intent is on record before the chain can execute it, it is executed *)
(* at most once, the record says "processed" only of what has succeeded,   *)
(* and a receipt is given only with such a record.  An error decides       *)
(* nothing once the intent is on record: the operation may still happen.   *)
(***************************************************************************)
CONSTANT Job

VARIABLES
    row,        \* "absent", "created" or "processed"
    effect,     \* "none", "succeeded" or "reverted"
    answer      \* "none", "payload", "receipt" or "error"

vars == <<row, effect, answer>>

Init ==
    /\ row = [j \in Job |-> "absent"]
    /\ effect = [j \in Job |-> "none"]
    /\ answer = [j \in Job |-> "none"]

Open(j) == answer[j] = "none"

\* The intent is put on record; the caller may learn only of a failure.
Log(j) ==
    /\ Open(j)
    /\ row[j] = "absent"
    /\ row' = [row EXCEPT ![j] = "created"]
    /\ \E a \in {"none", "error"} : answer' = [answer EXCEPT ![j] = a]
    /\ UNCHANGED effect

\* The chain executes what is on record, whether or not the call is over.
Execute(j) ==
    /\ row[j] = "created"
    /\ effect[j] = "none"
    /\ \E e \in {"succeeded", "reverted"} : effect' = [effect EXCEPT ![j] = e]
    /\ UNCHANGED <<row, answer>>

Settle(j) ==
    /\ Open(j)
    /\ row[j] = "created"
    /\ effect[j] = "succeeded"
    /\ row' = [row EXCEPT ![j] = "processed"]
    /\ \E a \in {"receipt", "error"} : answer' = [answer EXCEPT ![j] = a]
    /\ UNCHANGED effect

Fail(j) ==
    /\ Open(j)
    /\ answer' = [answer EXCEPT ![j] = "error"]
    /\ UNCHANGED <<row, effect>>

\* A dry run: the payload is all there is, now and later.
Describe(j) ==
    /\ Open(j)
    /\ row[j] = "absent"
    /\ answer' = [answer EXCEPT ![j] = "payload"]
    /\ UNCHANGED <<row, effect>>

Next == \E j \in Job : Log(j) \/ Execute(j) \/ Settle(j) \/ Fail(j) \/ Describe(j)

Spec == Init /\ [][Next]_vars
=============================================================================
