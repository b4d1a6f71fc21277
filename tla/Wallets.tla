------------------------------- MODULE Wallets -------------------------------
(***************************************************************************)
(* CreateWalletHandler with Web3Service.newWallet, and sendAdmin, on one   *)
(* network.  A key is named by the call that generated it.  A wallet for   *)
(* production is a key and a row; one for a test is also funded, by the    *)
(* admin account, before its row is written.  Admin transactions go to the *)
(* node (external) beside processTx, with a nonce that web3 reads.         *)
(***************************************************************************)
EXTENDS Naturals

CONSTANTS
    Create,         \* calls of createWallet
    Send,           \* calls of sendAdmin
    PayloadNonce,   \* nonces that payloads of sendAdmin may carry
    None            \* no key

ASSUME WalletsAssumption ==
    Create \cap Send = {} /\ None \notin Create /\ PayloadNonce \subseteq Nat

Call == Create \cup Send

VARIABLES
    networks,   \* Web3Service.networks is filled, since the process started
    test,       \* data.test
    memory,     \* first account in web3's wallet in memory
    pc,         \* where the call is
    key,        \* the key newWallet works with
    nonce,      \* of the call's admin transaction
    tx,         \* that transaction, as the network sees it
    txCount,    \* transactions of the admin account in the chain
    row,        \* wallets table: the key in the row of each createWallet
    answer      \* what the caller has been given

processVars == <<networks, memory>>
callVars == <<pc, key, nonce, answer>>
chainVars == <<tx, txCount>>
vars == <<test, processVars, callVars, chainVars, row>>

Key == Create

WalletsTypeOK ==
    /\ networks \in BOOLEAN
    /\ test \in [Create -> BOOLEAN]
    /\ memory \in Key \cup {None}
    /\ pc \in [Call -> {"idle", "sign", "send", "wait", "row", "done", "lost"}]
    /\ key \in [Create -> Key \cup {None}]
    /\ nonce \in [Call -> Nat]
    /\ tx \in [Call -> {"unsent", "pending", "succeeded", "reverted", "void"}]
    /\ txCount \in Nat
    /\ row \in [Create -> Key \cup {None}]
    /\ answer \in [Call -> {"none", "ok", "error"}]
    /\ \A c \in Create : pc[c] \in {"sign", "send", "wait", "row"} => key[c] # None

Init ==
    /\ networks = FALSE
    /\ test \in [Create -> BOOLEAN]
    /\ memory = None
    /\ pc = [c \in Call |-> "idle"]
    /\ key = [c \in Create |-> None]
    /\ nonce = [c \in Call |-> 0]
    /\ tx = [c \in Call |-> "unsent"]
    /\ txCount = 0
    /\ row = [c \in Create |-> None]
    /\ answer = [c \in Call |-> "none"]

Goto(c, l) == pc' = [pc EXCEPT ![c] = l] /\ UNCHANGED answer
Answer(c, a) ==
    /\ pc' = [pc EXCEPT ![c] = "done"]
    /\ answer' = [answer EXCEPT ![c] = a]

-----------------------------------------------------------------------------
(* The calls, up to the admin transaction.                                 *)

\* Web3Service.onModuleInit.  Redis is listened to before it runs.
BuildNetworks ==
    /\ ~networks
    /\ networks' = TRUE
    /\ UNCHANGED <<test, memory, callVars, chainVars, row>>

\* getWeb3 finds nothing: the command came in before the networks were built.
NoNetwork(c) ==
    /\ pc[c] = "idle" /\ ~networks
    /\ Answer(c, "error")
    /\ UNCHANGED <<test, processVars, key, nonce, chainVars, row>>

\* Mutant: the account for production is made the way those for tests are.
CreateAccountInMemory(c) ==
    /\ pc[c] = "idle" /\ networks /\ ~test[c]
    /\ memory' = IF memory = None THEN c ELSE memory
    /\ key' = [key EXCEPT ![c] = memory']
    /\ Goto(c, "row")
    /\ UNCHANGED <<test, networks, nonce, chainVars, row>>

\* data.test not set: a key, in nobody's memory but the call's.
CreateAccount(c) ==
    /\ pc[c] = "idle" /\ networks /\ ~test[c]
    /\ key' = [key EXCEPT ![c] = c]
    /\ Goto(c, "row")
    /\ UNCHANGED <<test, processVars, nonce, chainVars, row>>

\* Mutant: account[0] is read before the new account is in.
CreateTestAccountLate(c) ==
    /\ pc[c] = "idle" /\ networks /\ test[c]
    /\ memory' = IF memory = None THEN c ELSE memory
    /\ key' = [key EXCEPT ![c] = memory]
    /\ Goto(c, "sign")
    /\ UNCHANGED <<test, networks, nonce, chainVars, row>>

\* wallet.create adds an account to the wallet in memory and returns the whole
\* wallet, of which newWallet takes account[0]: the one that was added first.
CreateTestAccount(c) ==
    /\ pc[c] = "idle" /\ networks /\ test[c]
    /\ memory' = IF memory = None THEN c ELSE memory
    /\ key' = [key EXCEPT ![c] = memory']
    /\ Goto(c, "sign")
    /\ UNCHANGED <<test, networks, nonce, chainVars, row>>

\* sendAdmin, with a payload the client has made.
SendAdmin(c) ==
    /\ pc[c] = "idle" /\ networks
    /\ Goto(c, "sign")
    /\ UNCHANGED <<test, processVars, key, nonce, chainVars, row>>

-----------------------------------------------------------------------------
(* The admin transaction.                                                  *)

\* estimateGas has answered; signTransaction reads the count of mined
\* transactions, unless the client's payload carries a nonce of its own.
Sign(c) ==
    /\ pc[c] = "sign"
    /\ \E n \in {txCount} \cup (IF c \in Send THEN PayloadNonce ELSE {}) :
           nonce' = [nonce EXCEPT ![c] = n]
    /\ Goto(c, "send")
    /\ UNCHANGED <<test, processVars, key, chainVars, row>>

\* The node cannot be asked, or the estimate fails for want of funds.
SignFails(c) ==
    /\ pc[c] = "sign"
    /\ Answer(c, "error")
    /\ UNCHANGED <<test, processVars, key, nonce, chainVars, row>>

\* The answer with the hash may be lost: an error although the node has it.
Broadcast(c) ==
    /\ pc[c] = "send"
    /\ nonce[c] >= txCount
    /\ tx' = [tx EXCEPT ![c] = "pending"]
    /\ Goto(c, "wait") \/ Answer(c, "error")
    /\ UNCHANGED <<test, processVars, key, nonce, txCount, row>>

BroadcastRefused(c) ==
    /\ pc[c] = "send"
    /\ Answer(c, "error")
    /\ UNCHANGED <<test, processVars, key, nonce, chainVars, row>>

\* Mutant: the transfer is not awaited.
FundedAtOnce(c) ==
    /\ pc[c] = "wait"
    /\ IF c \in Send THEN Answer(c, "ok") ELSE Goto(c, "row")
    /\ UNCHANGED <<test, processVars, key, nonce, chainVars, row>>

\* sendSignedTransaction resolves with the receipt: sendAdmin is over, newWallet
\* returns address and keystore.
Funded(c) ==
    /\ pc[c] = "wait" /\ tx[c] = "succeeded"
    /\ IF c \in Send THEN Answer(c, "ok") ELSE Goto(c, "row")
    /\ UNCHANGED <<test, processVars, key, nonce, chainVars, row>>

\* Mutant: a time-out leaves the call waiting.
NeverGiveUp(c) == pc[c] = "wait" /\ tx[c] = "reverted" /\ UNCHANGED vars

\* The transaction is reverted (a client's payload may), web3 stops polling, or a
\* poll fails.  The transaction stays with the network.
GiveUp(c) ==
    /\ pc[c] = "wait"
    /\ Answer(c, "error")
    /\ UNCHANGED <<test, processVars, key, nonce, chainVars, row>>

-----------------------------------------------------------------------------
(* The row.                                                                *)

CreateRow(c) ==
    /\ pc[c] = "row"
    /\ row' = [row EXCEPT ![c] = key[c]]
    /\ Answer(c, "ok")
    /\ UNCHANGED <<test, processVars, key, nonce, chainVars>>

\* The table fails, before or after it kept the row.
CreateRowFails(c) ==
    /\ pc[c] = "row"
    /\ \E k \in {None, key[c]} : row' = [row EXCEPT ![c] = k]
    /\ Answer(c, "error")
    /\ UNCHANGED <<test, processVars, key, nonce, chainVars>>

-----------------------------------------------------------------------------
(* The network, the process.                                               *)

\* A transfer to a key's account succeeds; what a client sends may revert.  The
\* rivals for its nonce are void.
Mine(c) ==
    /\ tx[c] = "pending" /\ nonce[c] = txCount
    /\ \E o \in {"succeeded", "reverted"} :
        /\ c \in Create => o = "succeeded"
        /\ tx' = [d \in Call |->
                    IF d = c THEN o
                    ELSE IF tx[d] = "pending" /\ nonce[d] = txCount THEN "void" ELSE tx[d]]
    /\ txCount' = txCount + 1
    /\ UNCHANGED <<test, processVars, callVars, row>>

InFlight(c) == pc[c] \in {"sign", "send", "wait", "row"}

\* Keys that no row has are gone with the memory.
Crash ==
    /\ networks
    /\ networks' = FALSE
    /\ memory' = None
    /\ pc' = [c \in Call |-> IF InFlight(c) THEN "lost" ELSE pc[c]]
    /\ UNCHANGED <<test, key, nonce, answer, chainVars, row>>

Step(c) ==
    \/ Sign(c) \/ SignFails(c) \/ Broadcast(c) \/ BroadcastRefused(c)
    \/ Funded(c) \/ GiveUp(c)
    \/ c \in Create /\ (CreateRow(c) \/ CreateRowFails(c))

Next ==
    \/ \E c \in Create : CreateAccount(c) \/ CreateTestAccount(c)
    \/ \E c \in Send : SendAdmin(c)
    \/ \E c \in Call : NoNetwork(c) \/ Step(c) \/ Mine(c)
    \/ BuildNetworks
    \/ Crash

\* As for processTx: node and database answer or fail; nothing of the miners.
Fairness == \A c \in Call : WF_vars(Step(c))

Spec == Init /\ [][Next]_vars /\ Fairness

-----------------------------------------------------------------------------
(* Properties.                                                             *)

\* exportAccounts, case WALLET: every row's key store is decrypted.
Exported == {row[c] : c \in Create} \ {None}

\* A wallet that was answered is there: its key can be exported, and a wallet
\* for a test has been funded, by a transfer to that key, in the chain.  (The
\* converse fails: a time-out, a failing row or a crash may leave a funded key
\* that nobody has.)
AnsweredWalletIsUsable ==
    \A c \in Create : answer[c] = "ok" =>
        /\ key[c] \in Exported
        /\ row[c] = key[c]
        /\ test[c] => tx[c] = "succeeded"

\* A key for production is its team's own: no other row, of a production or a
\* test wallet, has it, also after restarts.
ProductionKeysAreOwn ==
    \A c \in Create : ~test[c] /\ row[c] # None =>
        \A d \in Create \ {c} : row[d] # row[c]

\* Funds go out of the admin account once per transfer: of two calls that read
\* the same nonce, at most one is answered with success.
OneTransferPerNonce ==
    \A c, d \in Call :
        (\A e \in {c, d} : tx[e] # "unsent" /\ answer[e] = "ok") /\ nonce[c] = nonce[d] => c = d

\* Every call ends, also one whose nonce was taken by another.
WalletCallEnds == \A c \in Call : pc[c] # "idle" ~> pc[c] \in {"done", "lost"}

\* The comment at web3.service.ts:229, "Creates a new Ethereum account.": two
\* wallets that were created have two accounts.
AccountsAreNew ==
    \A c, d \in Create : answer[c] = "ok" /\ answer[d] = "ok" /\ key[c] = key[d] => c = d
=============================================================================
