------------------------------ MODULE Accounts ------------------------------
(***************************************************************************)
(* The start of the service and the accounts of its admin pages.  At every *)
(* start AuthService.onModuleInit walks through EMAILS_LIST, makes the     *)
(* accounts that are missing and mails each its first password; when a     *)
(* mail fails the start fails and the process ends.  Once the service is   *)
(* up, anybody may have the password of an account replaced and mailed.    *)
(* A password is named by what made it: a call of updatePassword, or the   *)
(* start that made the account.                                            *)
(***************************************************************************)
EXTENDS Naturals

CONSTANTS
    Account,        \* the addresses of EMAILS_LIST
    Reset,          \* calls of updatePassword
    None,           \* no account, no password
    OutageBound     \* crashes and starts the database fails, at most

ASSUME AccountsAssumption ==
    /\ OutageBound \in Nat
    /\ None \notin Account /\ None \notin Reset \cup {"initial"}
    /\ "initial" \notin Reset

VARIABLES
    phase,      \* of the process
    networks,   \* Web3Service.networks is filled
    todo,       \* accounts this start has not looked at yet
    created,    \* the account this start has made and not mailed to
    password,   \* users table: the password whose hash is stored
    inbox,      \* passwords mailed to the owner
    of,         \* the account each reset is for
    pc,         \* where the reset is
    reply,      \* what it has answered
    outages,    \* crashes, and starts the database has failed
    died        \* history: a start or the service has died

startVars == <<phase, networks, todo, created>>
resetVars == <<of, pc, reply>>
vars == <<startVars, password, inbox, resetVars, outages, died>>

Password == Reset \cup {"initial"}

AccountsTypeOK ==
    /\ phase \in {"down", "starting", "up"}
    /\ networks \in BOOLEAN
    /\ todo \subseteq Account
    /\ created \in Account \cup {None}
    /\ password \in [Account -> Password \cup {None}]
    /\ inbox \in [Account -> SUBSET Password]
    /\ of \in [Reset -> Account]
    /\ pc \in [Reset -> {"idle", "store", "mail", "done", "lost"}]
    /\ reply \in [Reset -> {"none", "sent", "error"}]
    /\ outages \in 0..OutageBound
    /\ died \in BOOLEAN
    /\ created # None => phase = "starting" /\ created \in todo

Init ==
    /\ phase = "down" /\ networks = FALSE
    /\ todo = {} /\ created = None
    /\ password = [a \in Account |-> None]
    /\ inbox = [a \in Account |-> {}]
    /\ of \in [Reset -> Account]
    /\ pc = [r \in Reset |-> "idle"]
    /\ reply = [r \in Reset |-> "none"]
    /\ outages = 0 /\ died = FALSE

-----------------------------------------------------------------------------
(* The start.                                                              *)

\* The container starts the process: bootstrap, up to onModuleInit.
Start ==
    /\ phase = "down"
    /\ phase' = "starting"
    /\ todo' = Account
    /\ UNCHANGED <<networks, created, password, inbox, resetVars, outages, died>>

\* Web3Service.onModuleInit, before or after that of AuthService.
BuildNetworks ==
    /\ phase = "starting" /\ ~networks
    /\ networks' = TRUE
    /\ UNCHANGED <<phase, todo, created, password, inbox, resetVars, outages, died>>

\* Mutant: the account is given the new password also when it is there already.
CreateOrUpdate(a) ==
    /\ phase = "starting" /\ created = None /\ a \in todo
    /\ password' = [password EXCEPT ![a] = "initial"]
    /\ IF password[a] = None THEN created' = a /\ UNCHANGED todo
       ELSE todo' = todo \ {a} /\ UNCHANGED created
    /\ UNCHANGED <<phase, networks, inbox, resetVars, outages, died>>

\* newPassword and findOrCreate: an account that is there is left as it is.
FindOrCreate(a) ==
    /\ phase = "starting" /\ created = None /\ a \in todo
    /\ IF password[a] = None
       THEN /\ password' = [password EXCEPT ![a] = "initial"]
            /\ created' = a
            /\ UNCHANGED todo
       ELSE /\ todo' = todo \ {a}
            /\ UNCHANGED <<password, created>>
    /\ UNCHANGED <<phase, networks, inbox, resetVars, outages, died>>

\* The first password is mailed.
MailAccount(a) ==
    /\ created = a
    /\ inbox' = [inbox EXCEPT ![a] = @ \cup {password[a]}]
    /\ created' = None
    /\ todo' = todo \ {a}
    /\ UNCHANGED <<phase, networks, password, resetVars, outages, died>>

\* The process is gone: what it held in memory, and every call under way.
Die ==
    /\ phase' = "down" /\ networks' = FALSE
    /\ todo' = {} /\ created' = None
    /\ pc' = [r \in Reset |-> IF pc[r] \in {"store", "mail"} THEN "lost" ELSE pc[r]]
    /\ died' = TRUE
    /\ UNCHANGED <<of, reply>>

Outage == outages < OutageBound /\ outages' = outages + 1

\* Mutant: a mail that fails is passed over.
MailFailsSilently(a) ==
    /\ created = a
    /\ created' = None
    /\ todo' = todo \ {a}
    /\ UNCHANGED <<phase, networks, password, inbox, resetVars, outages, died>>

\* Mutant: an account whose mail fails is taken back, to be made again.
MailFailsRolledBack(a) ==
    /\ created = a
    /\ password' = [password EXCEPT ![a] = None]
    /\ Die
    /\ UNCHANGED <<inbox, outages>>

\* sendMail rejects, whether or not the mail goes out: onModuleInit and with it
\* bootstrap reject, which ends the process.  The account stays.
MailFails(a) ==
    /\ created = a
    /\ \E I \in {inbox[a], inbox[a] \cup {password[a]}} : inbox' = [inbox EXCEPT ![a] = I]
    /\ Die
    /\ UNCHANGED <<password, outages>>

\* The users table cannot be read, or fails before or after it took the account:
\* the start fails likewise.
CreateFails(a) ==
    /\ phase = "starting" /\ created = None /\ a \in todo
    /\ \/ UNCHANGED password
       \/ password[a] = None /\ password' = [password EXCEPT ![a] = "initial"]
    /\ Outage
    /\ Die
    /\ UNCHANGED inbox

\* Mutant: the service listens without waiting for AuthService.
ListenTooEarly ==
    /\ phase = "starting" /\ networks
    /\ phase' = "up"
    /\ UNCHANGED <<networks, todo, created, password, inbox, resetVars, outages, died>>

\* Every onModuleInit is over: app.listen serves HTTP.
Listen ==
    /\ phase = "starting" /\ networks /\ todo = {}
    /\ phase' = "up"
    /\ UNCHANGED <<networks, todo, created, password, inbox, resetVars, outages, died>>

Crash ==
    /\ phase # "down"
    /\ Outage
    /\ Die
    /\ UNCHANGED <<password, inbox>>

-----------------------------------------------------------------------------
(* updatePassword.                                                         *)

Reply(r, a) ==
    /\ pc' = [pc EXCEPT ![r] = "done"]
    /\ reply' = [reply EXCEPT ![r] = a]
    /\ UNCHANGED of

\* POST auth/update, from anybody.
AskReset(r) ==
    /\ phase = "up" /\ pc[r] = "idle"
    /\ pc' = [pc EXCEPT ![r] = "store"]
    /\ UNCHANGED <<startVars, password, inbox, of, reply, outages, died>>

\* Mutant: an update that fails is noticed as little as one of no row is.
StoreUnnoticed(r) ==
    /\ pc[r] = "store"
    /\ \E p \in {password[of[r]], r} : password' = [password EXCEPT ![of[r]] = p]
    /\ pc' = [pc EXCEPT ![r] = "mail"]
    /\ UNCHANGED <<startVars, inbox, of, reply, outages, died>>

\* The user is found, a new password made up and hashed, its hash stored.
StorePassword(r) ==
    /\ pc[r] = "store"
    /\ password' = [password EXCEPT ![of[r]] = r]
    /\ pc' = [pc EXCEPT ![r] = "mail"]
    /\ UNCHANGED <<startVars, inbox, of, reply, outages, died>>

\* The table fails, before or after it took the hash.
StoreFails(r) ==
    /\ pc[r] = "store"
    /\ \E p \in {password[of[r]], r} : password' = [password EXCEPT ![of[r]] = p]
    /\ Reply(r, "error")
    /\ UNCHANGED <<startVars, inbox, outages, died>>

MailPassword(r) ==
    /\ pc[r] = "mail"
    /\ inbox' = [inbox EXCEPT ![of[r]] = @ \cup {r}]
    /\ Reply(r, "sent")
    /\ UNCHANGED <<startVars, password, outages, died>>

\* The caller is told of an error; the old password is gone all the same.
MailPasswordFails(r) ==
    /\ pc[r] = "mail"
    /\ \E I \in {inbox[of[r]], inbox[of[r]] \cup {r}} : inbox' = [inbox EXCEPT ![of[r]] = I]
    /\ Reply(r, "error")
    /\ UNCHANGED <<startVars, password, outages, died>>

-----------------------------------------------------------------------------
StartStep ==
    \/ BuildNetworks \/ Listen
    \/ \E a \in Account : FindOrCreate(a) \/ MailAccount(a) \/ MailFails(a)

ResetStep(r) ==
    \/ StorePassword(r) \/ StoreFails(r)
    \/ MailPassword(r) \/ MailPasswordFails(r)

\* Up, with no reset left to ask for.
Quiet ==
    /\ phase = "up" /\ \A r \in Reset : pc[r] \in {"done", "lost"}
    /\ UNCHANGED vars

Next ==
    \/ Start \/ StartStep \/ Crash
    \/ \E a \in Account : CreateFails(a)
    \/ \E r \in Reset : AskReset(r) \/ ResetStep(r)
    \/ Quiet

\* ECS starts the container again (.github/workflows/production.yml), and the
\* database answers, when there is no outage.  Nothing is assumed of mail, which
\* may be down for good, nor of those who ask for resets.
Fairness == WF_vars(Start) /\ WF_vars(StartStep)

Spec == Init /\ [][Next]_vars /\ Fairness

-----------------------------------------------------------------------------
(* Properties.                                                             *)

\* getAuthenticatedUser: the password is that of the stored hash.
LogsIn(a, p) == password[a] = p

\* One of the mails the owner has received opens the account.
Known(a) == \E p \in inbox[a] : LogsIn(a, p)

\* Nobody is locked out unnoticed: when no mail holds the stored password, the
\* reset that stored it has not answered that the mail was sent, or a start has
\* died.  (Two overlapping resets of an account are no exception: the mail of
\* the one stored last is among those delivered, though perhaps not the last.)
LockedOutWasReported ==
    \A a \in Account :
        password[a] # None /\ ~Known(a) =>
            \/ password[a] = "initial" /\ (created = a \/ died)
            \/ \E r \in Reset : password[a] = r /\ reply[r] # "sent"

\* A reset is asked for in vain only if it says so or another one has replaced
\* its password since.
ResetTakesEffect ==
    \A r \in Reset : reply[r] = "sent" =>
        /\ r \in inbox[of[r]]
        /\ \/ LogsIn(of[r], r)
           \/ \E q \in Reset \ {r} : of[q] = of[r] /\ LogsIn(of[r], q)

\* A restart is harmless: no start replaces a password, only a reset of the
\* account does, and no account disappears.
PasswordsSurviveStarts ==
    [][\A a \in Account : password[a] # None /\ password'[a] # password[a] =>
           \E r \in Reset : of[r] = a /\ pc[r] = "store" /\ password'[a] = r]_vars

\* The service comes up in the end, with its networks and an account for every
\* address, also when no mail can be sent: each start that dies of a mail leaves
\* one more account that the next does not mail to.
ComesUp ==
    phase # "up" ~> phase = "up" /\ networks /\ \A a \in Account : password[a] # None
=============================================================================
