----------------------------- MODULE ListPromise -----------------------------
(***************************************************************************)
(* What commands that change a whitelist promise, however they overlap,    *)
(* fail or are lost: the contract has the list as it once was, as a whole, *)
(* and never a part of it or a mixture.  A command takes at most one       *)
(* snapshot of the list, which the contract takes over at most once, and a *)
(* command that is acknowledged has been taken over.  Nothing is promised  *)
(* of the order in which snapshots of overlapping commands arrive.         *)
(***************************************************************************)
CONSTANTS Job, Address

VARIABLES
    list,           \* the addresses in the table
    snapshot,       \* the lists each job has taken: none, or one
    contract,       \* the list that the contract has
    installed,      \* the jobs whose snapshots it has taken over
    acknowledged    \* the jobs that have got a receipt

vars == <<list, snapshot, contract, installed, acknowledged>>

Init ==
    /\ list \in SUBSET Address
    /\ snapshot = [j \in Job |-> {}]
    /\ contract = list
    /\ installed = {}
    /\ acknowledged = {}

\* A change adds addresses or takes some away, never both.
Change ==
    /\ \E s \in SUBSET Address : list' \in {list \cup s, list \ s}
    /\ UNCHANGED <<snapshot, contract, installed, acknowledged>>

Take(j) ==
    /\ snapshot[j] = {}
    /\ snapshot' = [snapshot EXCEPT ![j] = {list}]
    /\ UNCHANGED <<list, contract, installed, acknowledged>>

Install(j) ==
    /\ j \notin installed
    /\ contract' \in snapshot[j]
    /\ installed' = installed \cup {j}
    /\ UNCHANGED <<list, snapshot, acknowledged>>

Acknowledge(j) ==
    /\ j \in installed
    /\ acknowledged' = acknowledged \cup {j}
    /\ UNCHANGED <<list, snapshot, contract, installed>>

Next == Change \/ \E j \in Job : Take(j) \/ Install(j) \/ Acknowledge(j)

Spec == Init /\ [][Next]_vars
=============================================================================
