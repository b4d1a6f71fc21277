--------------------------- MODULE Accounts_proofs ---------------------------
(* Proofs of the safety properties of Accounts, for any accounts, any calls of *)
(* updatePassword and any number of outages.                                   *)
EXTENDS Accounts, TLAPS

\* A reset has answered exactly when it is over.
AnswersAtEnd == \A r \in Reset : pc[r] # "done" => reply[r] = "none"

\* The account that waits for its first mail has a password.
CreatedHasPassword == created # None => password[created] # None

\* A reset's password is that of its account.
OwnPasswords == \A a \in Account : password[a] \in Reset => of[password[a]] = a

\* From the moment a reset has stored its password on, a first password is gone
\* for good, ...
StoredStays ==
    \A r \in Reset : pc[r] = "mail" \/ reply[r] = "sent" => password[of[r]] \in Reset

\* ... and what a reset says it has mailed, it has.
SentIsMailed == \A r \in Reset : reply[r] = "sent" => r \in inbox[of[r]]

AccountsInv ==
    /\ AccountsTypeOK
    /\ AnswersAtEnd
    /\ CreatedHasPassword
    /\ OwnPasswords
    /\ StoredStays
    /\ SentIsMailed
    /\ LockedOutWasReported

-----------------------------------------------------------------------------
\* Before the first start nobody has an account, and nothing has been mailed.
LEMMA AccountsInit == Init => AccountsInv
<1> SUFFICES ASSUME Init PROVE AccountsInv
  OBVIOUS
<1>1. AccountsTypeOK
  <2>1. networks \in BOOLEAN /\ died \in BOOLEAN
    BY Zenon DEF Init
  <2>2. QED
    BY <2>1, AccountsAssumption DEF Init, AccountsTypeOK, Password
<1>2. AnswersAtEnd /\ CreatedHasPassword /\ OwnPasswords
  BY AccountsAssumption DEF Init, AnswersAtEnd, CreatedHasPassword, OwnPasswords
<1>3. StoredStays /\ SentIsMailed /\ LockedOutWasReported
  BY DEF Init, StoredStays, SentIsMailed, LockedOutWasReported
<1>4. QED
  BY <1>1, <1>2, <1>3 DEF AccountsInv

\* Every step of a start, a reset or a crash keeps the invariant.
LEMMA AccountsStep == AccountsInv /\ [Next]_vars => AccountsInv'
<1> SUFFICES ASSUME AccountsInv, [Next]_vars PROVE AccountsInv'
  OBVIOUS
<1> USE AccountsAssumption DEF AccountsInv, AccountsTypeOK, Password, AnswersAtEnd,
    CreatedHasPassword, OwnPasswords, StoredStays, SentIsMailed, LockedOutWasReported,
    Known, LogsIn, startVars, resetVars, Reply, Die, Outage
<1>1. CASE Start
  BY <1>1 DEF Start
<1>2. CASE BuildNetworks \/ Listen
  <2>1. AccountsTypeOK'
    <3>1. networks' \in BOOLEAN /\ died' \in BOOLEAN
      BY <1>2, Zenon DEF BuildNetworks, Listen
    <3>2. QED
      BY <1>2, <3>1 DEF BuildNetworks, Listen
  <2>2. AnswersAtEnd' /\ CreatedHasPassword'
    BY <1>2 DEF BuildNetworks, Listen
  <2>3. OwnPasswords' /\ StoredStays'
    BY <1>2 DEF BuildNetworks, Listen
  <2>4. SentIsMailed'
    BY <1>2 DEF BuildNetworks, Listen
  <2>5. LockedOutWasReported'
    BY <1>2 DEF BuildNetworks, Listen
  <2>6. QED
    BY <2>1, <2>2, <2>3, <2>4, <2>5
<1>3. ASSUME NEW a \in Account, FindOrCreate(a) PROVE AccountsInv'
  BY <1>3 DEF FindOrCreate
<1>4. ASSUME NEW a \in Account, MailAccount(a) PROVE AccountsInv'
  BY <1>4 DEF MailAccount
<1>5. ASSUME NEW a \in Account, MailFails(a) PROVE AccountsInv'
  <2>1. AccountsTypeOK'
    <3>1. networks' \in BOOLEAN /\ died' \in BOOLEAN
      BY <1>5, Zenon DEF MailFails
    <3>2. QED
      BY <1>5, <3>1 DEF MailFails
  <2>2. AnswersAtEnd' /\ CreatedHasPassword'
    BY <1>5 DEF MailFails
  <2>3. OwnPasswords' /\ StoredStays'
    BY <1>5 DEF MailFails
  <2>4. SentIsMailed'
    BY <1>5 DEF MailFails
  <2>5. LockedOutWasReported'
    BY <1>5 DEF MailFails
  <2>6. QED
    BY <2>1, <2>2, <2>3, <2>4, <2>5
<1>6. ASSUME NEW a \in Account, CreateFails(a) PROVE AccountsInv'
  <2>1. AccountsTypeOK'
    <3>1. networks' \in BOOLEAN /\ died' \in BOOLEAN
      BY <1>6, Zenon DEF CreateFails
    <3>2. QED
      BY <1>6, <3>1 DEF CreateFails
  <2>2. AnswersAtEnd' /\ CreatedHasPassword'
    BY <1>6 DEF CreateFails
  <2>3. OwnPasswords' /\ StoredStays'
    BY <1>6 DEF CreateFails
  <2>4. SentIsMailed'
    BY <1>6 DEF CreateFails
  <2>5. LockedOutWasReported'
    BY <1>6 DEF CreateFails
  <2>6. QED
    BY <2>1, <2>2, <2>3, <2>4, <2>5
<1>7. CASE Crash
  <2>1. AccountsTypeOK'
    <3>1. networks' \in BOOLEAN /\ died' \in BOOLEAN
      BY <1>7, Zenon DEF Crash
    <3>2. QED
      BY <1>7, <3>1 DEF Crash
  <2>2. AnswersAtEnd' /\ CreatedHasPassword'
    BY <1>7 DEF Crash
  <2>3. OwnPasswords' /\ StoredStays'
    BY <1>7 DEF Crash
  <2>4. SentIsMailed'
    BY <1>7 DEF Crash
  <2>5. LockedOutWasReported'
    BY <1>7 DEF Crash
  <2>6. QED
    BY <2>1, <2>2, <2>3, <2>4, <2>5
<1>8. ASSUME NEW r \in Reset, AskReset(r) PROVE AccountsInv'
  BY <1>8 DEF AskReset
<1>9. ASSUME NEW r \in Reset, StorePassword(r) PROVE AccountsInv'
  BY <1>9 DEF StorePassword
<1>10. ASSUME NEW r \in Reset, StoreFails(r) PROVE AccountsInv'
  BY <1>10 DEF StoreFails
<1>11. ASSUME NEW r \in Reset, MailPassword(r) PROVE AccountsInv'
  BY <1>11 DEF MailPassword
<1>12. ASSUME NEW r \in Reset, MailPasswordFails(r) PROVE AccountsInv'
  BY <1>12 DEF MailPasswordFails
<1>13. CASE UNCHANGED vars
  BY <1>13 DEF vars
<1>14. QED
  BY <1>1, <1>2, <1>3, <1>4, <1>5, <1>6, <1>7, <1>8, <1>9, <1>10, <1>11, <1>12, <1>13
     DEF Next, StartStep, ResetStep, Quiet

-----------------------------------------------------------------------------
\* The inductive invariant holds in every reachable state: an account keeps a
\* password of its own, and what a reset says of itself is so.
THEOREM AccountsInvariance == Spec => []AccountsInv
  BY AccountsInit, AccountsStep, PTL DEF Spec

\* The variables have their types, and an account that waits for its mail is one
\* that the start under way has still to do.
THEOREM AccountsTypesCorrect == Spec => []AccountsTypeOK
<1>1. AccountsInv => AccountsTypeOK
  BY DEF AccountsInv
<1>2. QED
  BY AccountsInvariance, <1>1, PTL

\* However starts, resets, failing mails and crashes interleave, nobody is locked
\* out unnoticed.
THEOREM NobodyLockedOutUnnoticed == Spec => []LockedOutWasReported
<1>1. AccountsInv => LockedOutWasReported
  BY DEF AccountsInv
<1>2. QED
  BY AccountsInvariance, <1>1, PTL

\* A reset that was answered with success has mailed its password, and it or a
\* later reset's is the one that logs in.
THEOREM ResetsTakeEffect == Spec => []ResetTakesEffect
<1>1. AccountsInv => ResetTakesEffect
  BY DEF AccountsInv, AccountsTypeOK, OwnPasswords, StoredStays, SentIsMailed,
     ResetTakesEffect, LogsIn
<1>2. QED
  BY AccountsInvariance, <1>1, PTL

\* What a step of the start, or a crash, leaves alone.
LEMMA PasswordStep ==
    AccountsInv /\ [Next]_vars =>
        [\A a \in Account : password[a] # None /\ password'[a] # password[a] =>
            \E r \in Reset : of[r] = a /\ pc[r] = "store" /\ password'[a] = r]_vars
<1> SUFFICES ASSUME AccountsInv, Next, NEW a \in Account,
                    password[a] # None, password'[a] # password[a]
             PROVE  \E r \in Reset : of[r] = a /\ pc[r] = "store" /\ password'[a] = r
  OBVIOUS
<1> USE DEF AccountsInv, AccountsTypeOK
<1>1. ASSUME NEW r \in Reset, StorePassword(r) \/ StoreFails(r)
      PROVE  of[r] = a /\ pc[r] = "store" /\ password'[a] = r
  BY <1>1 DEF StorePassword, StoreFails
<1>2. ASSUME NEW b \in Account, FindOrCreate(b) \/ CreateFails(b) PROVE FALSE
  BY <1>2 DEF FindOrCreate, CreateFails
<1>3. ASSUME password' = password PROVE FALSE
  BY <1>3
<1>4. QED
  BY <1>1, <1>2, <1>3 DEF Next, Start, StartStep, BuildNetworks, Listen, MailAccount,
     MailFails, Crash, AskReset, ResetStep, MailPassword, MailPasswordFails, Quiet, vars

\* A restart replaces no password and loses no account.
THEOREM StartsKeepPasswords == Spec => PasswordsSurviveStarts
  BY AccountsInvariance, PasswordStep, PTL DEF Spec, PasswordsSurviveStarts
=============================================================================
