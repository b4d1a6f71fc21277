---------------------------- MODULE Wallets_proofs ----------------------------
(* Proofs of the safety properties of Wallets, for any calls of createWallet   *)
(* and sendAdmin.                                                              *)
EXTENDS Wallets, TLAPS

\* Where a call is tells what it has sent and answered.
CallProgress ==
    \A c \in Call :
        /\ pc[c] \in {"idle", "sign", "send"} => tx[c] = "unsent"
        /\ pc[c] # "done" => answer[c] = "none"
        /\ answer[c] = "ok" => tx[c] \in {"unsent", "succeeded"}

\* ... and what key it has and keeps: of its own for production, of a test
\* wallet for a test.
CreateProgress ==
    \A c \in Create :
        /\ pc[c] = "idle" => key[c] = None
        /\ pc[c] \in {"sign", "send", "wait"} \/ tx[c] # "unsent" => test[c]
        /\ pc[c] = "row" /\ test[c] => tx[c] = "succeeded"
        /\ key[c] # None => IF test[c] THEN test[key[c]] ELSE key[c] = c
        /\ row[c] # None => pc[c] = "done" /\ row[c] = key[c]
        /\ answer[c] = "ok" => row[c] # None /\ (test[c] => tx[c] = "succeeded")

\* Only wallets for tests are in memory.
MemoryIsTest == memory # None => test[memory]

Mined(c) == tx[c] \in {"succeeded", "reverted"}

\* The nonces of the admin account.
AdminNonces ==
    /\ \A c \in Call : /\ tx[c] = "pending" => nonce[c] >= txCount
                       /\ Mined(c) => nonce[c] < txCount
    /\ \A c, d \in Call : Mined(c) /\ Mined(d) /\ nonce[c] = nonce[d] => c = d

WalletsInv ==
    WalletsTypeOK /\ CallProgress /\ CreateProgress /\ MemoryIsTest /\ AdminNonces

-----------------------------------------------------------------------------
\* When the process first starts there is no wallet.
LEMMA WalletsInit == Init => WalletsInv
<1> SUFFICES ASSUME Init PROVE WalletsInv
  OBVIOUS
<1>1. networks \in BOOLEAN
  BY Zenon DEF Init
<1>2. QED
  BY <1>1, WalletsAssumption DEF Init, WalletsInv, WalletsTypeOK, CallProgress,
     CreateProgress, MemoryIsTest, AdminNonces, Mined, Call, Key

\* Every step of a call, the node or a crash keeps the invariant.
LEMMA WalletsStep == WalletsInv /\ [Next]_vars => WalletsInv'
<1> SUFFICES ASSUME WalletsInv, [Next]_vars PROVE WalletsInv'
  OBVIOUS
<1> USE WalletsAssumption DEF WalletsInv, WalletsTypeOK, CallProgress, CreateProgress,
    MemoryIsTest, AdminNonces, Mined, Call, Key, Goto, Answer, processVars, callVars, chainVars
<1>1. CASE BuildNetworks
  BY <1>1 DEF BuildNetworks
<1>2. ASSUME NEW c \in Call, NoNetwork(c) PROVE WalletsInv'
  BY <1>2 DEF NoNetwork
<1>3. ASSUME NEW c \in Create, CreateAccount(c) PROVE WalletsInv'
  BY <1>3 DEF CreateAccount
<1>4. ASSUME NEW c \in Create, CreateTestAccount(c) PROVE WalletsInv'
  BY <1>4 DEF CreateTestAccount
<1>5. ASSUME NEW c \in Send, SendAdmin(c) PROVE WalletsInv'
  BY <1>5 DEF SendAdmin
<1>6. ASSUME NEW c \in Call, Sign(c) \/ SignFails(c) PROVE WalletsInv'
  BY <1>6 DEF Sign, SignFails
<1>7. ASSUME NEW c \in Call, Broadcast(c) PROVE WalletsInv'
  BY <1>7 DEF Broadcast
<1>8. ASSUME NEW c \in Call, BroadcastRefused(c) \/ GiveUp(c) PROVE WalletsInv'
  BY <1>8 DEF BroadcastRefused, GiveUp
<1>9. ASSUME NEW c \in Call, Funded(c) PROVE WalletsInv'
  BY <1>9 DEF Funded
<1>10. ASSUME NEW c \in Create, CreateRow(c) PROVE WalletsInv'
  BY <1>10 DEF CreateRow
<1>11. ASSUME NEW c \in Create, CreateRowFails(c) PROVE WalletsInv'
  BY <1>11 DEF CreateRowFails
<1>12. ASSUME NEW c \in Call, Mine(c) PROVE WalletsInv'
  BY <1>12 DEF Mine
<1>13. CASE Crash
  <2>1. networks' \in BOOLEAN
    BY <1>13, Zenon DEF Crash
  <2>2. QED
    BY <1>13, <2>1 DEF Crash, InFlight
<1>14. CASE UNCHANGED vars
  BY <1>14 DEF vars
<1>15. QED
  BY <1>1, <1>2, <1>3, <1>4, <1>5, <1>6, <1>7, <1>8, <1>9, <1>10, <1>11, <1>12, <1>13,
     <1>14 DEF Next, Step

-----------------------------------------------------------------------------
\* The inductive invariant holds in every reachable state: a call's place tells
\* what it has sent and whose key it has.
THEOREM WalletsInvariance == Spec => []WalletsInv
  BY WalletsInit, WalletsStep, PTL DEF Spec

\* The variables have their types, and a wallet under way has its key.
THEOREM WalletsTypesCorrect == Spec => []WalletsTypeOK
<1>1. WalletsInv => WalletsTypeOK
  BY DEF WalletsInv
<1>2. QED
  BY WalletsInvariance, <1>1, PTL

\* A wallet that was answered has its row and, for a test, its funds.
THEOREM AnsweredWalletsUsable == Spec => []AnsweredWalletIsUsable
<1>1. WalletsInv => AnsweredWalletIsUsable
  BY DEF WalletsInv, CreateProgress, AnsweredWalletIsUsable, Exported
<1>2. QED
  BY WalletsInvariance, <1>1, PTL

\* A production wallet shares its key with no other row.
THEOREM ProductionKeysOwn == Spec => []ProductionKeysAreOwn
<1>1. WalletsInv => ProductionKeysAreOwn
  BY DEF WalletsInv, WalletsTypeOK, CreateProgress, ProductionKeysAreOwn, Key
<1>2. QED
  BY WalletsInvariance, <1>1, PTL

\* Of the admin transactions with one nonce one at most is answered with success.
THEOREM TransferredOnce == Spec => []OneTransferPerNonce
<1>1. WalletsInv => OneTransferPerNonce
  BY DEF WalletsInv, CallProgress, AdminNonces, Mined, OneTransferPerNonce
<1>2. QED
  BY WalletsInvariance, <1>1, PTL
=============================================================================
