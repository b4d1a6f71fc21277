-------------------------------- MODULE Mint --------------------------------
(***************************************************************************)
(* MintHandler, TokensMintedHandler and the metadata lookup, on one        *)
(* contract that numbers its tokens 0, 1, 2... in the order in which they  *)
(* are mined.  A command guesses the ids of its tokens from totalSupply,   *)
(* records them, and lets processTx send the transaction; metadata is      *)
(* stored under the guessed ids.  Each command is the Job of its call of   *)
(* processTx.                                                              *)
(***************************************************************************)
EXTENDS ProcessTx

CONSTANTS
    MaxQty,         \* tokens of one command, at most
    SupplyBound     \* tokens other clients mint, up to this supply

ASSUME MintAssumption == MaxQty \in Nat \ {0} /\ SupplyBound \in Nat

VARIABLES
    qty,        \* mintOptions.qty
    hpc,        \* where the handler is; "call": in or after processTx
    ids,        \* ids_range, as read from totalSupply
    token,      \* the token row of the command
    meta,       \* TokensMintedHandler and the metadata row it makes
    supply,     \* totalSupply of the contract
    minted,     \* the ids the command's transaction has really minted
    disturbed   \* history: a mint may have come between another's read and its end

handlerVars == <<qty, hpc, ids>>
tokenVars == <<token, meta>>
contractVars == <<supply, minted>>
mvars == <<vars, handlerVars, tokenVars, contractVars, disturbed>>

MintTypeOK ==
    /\ TypeOK
    /\ qty \in [Job -> 1..MaxQty]
    /\ hpc \in [Job -> {"start", "create", "call", "over"}]
    /\ ids \in [Job -> SUBSET Nat]
    /\ token \in [Job -> {"absent", "created", "processed"}]
    /\ meta \in [Job -> {"none", "published", "created", "attached", "loose", "dropped"}]
    /\ supply \in Nat
    /\ minted \in [Job -> SUBSET Nat]
    /\ disturbed \in BOOLEAN

MintInit ==
    /\ Init
    /\ qty \in [Job -> 1..MaxQty]
    /\ hpc = [j \in Job |-> "start"]
    /\ ids = [j \in Job |-> {}]
    /\ token = [j \in Job |-> "absent"]
    /\ meta = [j \in Job |-> "none"]
    /\ supply = 0
    /\ minted = [j \in Job |-> {}]
    /\ disturbed = FALSE

HandlerBusy(j) == hpc[j] \in {"create", "call"} /\ ~Ended(j)

\* A command that is under way, or whose transaction still is.
Loose(j) == HandlerBusy(j) \/ tx[j] = "pending"

\* The ids of n tokens minted at a supply of s.
Ids(s, n) == s .. (s + n - 1)

-----------------------------------------------------------------------------
(* MintHandler.execute                                                     *)

\* Mutant: the second bound of the range is taken for inclusive.
ReadSupplyInclusive(j) ==
    /\ hpc[j] = "start"
    /\ ids' = [ids EXCEPT ![j] = Ids(supply, qty[j] + 1)]
    /\ hpc' = [hpc EXCEPT ![j] = "create"]
    /\ disturbed' = (disturbed \/ \E k \in Job : Loose(k))
    /\ UNCHANGED <<qty, tokenVars, contractVars, vars>>

\* Mutant: the ids start with the last token there is.
ReadSupplyFromLast(j) ==
    /\ hpc[j] = "start"
    /\ ids' = [ids EXCEPT ![j] = Ids(supply - 1, qty[j])]
    /\ hpc' = [hpc EXCEPT ![j] = "create"]
    /\ disturbed' = (disturbed \/ \E k \in Job : Loose(k))
    /\ UNCHANGED <<qty, tokenVars, contractVars, vars>>

\* getTokenId: the ids the tokens will have if nobody mints in between.
ReadSupply(j) ==
    /\ hpc[j] = "start"
    /\ ids' = [ids EXCEPT ![j] = Ids(supply, qty[j])]
    /\ hpc' = [hpc EXCEPT ![j] = "create"]
    /\ disturbed' = (disturbed \/ \E k \in Job : Loose(k))
    /\ UNCHANGED <<qty, tokenVars, contractVars, vars>>

\* The token row is created; arguments are encoded and processTx is called in
\* the same turn, unless encoding throws and leaves the row behind.  (create
\* also starts an un-awaited link of the row to its contract, which the row's
\* contract_id already is; its failure is a crash.)
CreateToken(j) ==
    /\ hpc[j] = "create"
    /\ token' = [token EXCEPT ![j] = "created"]
    /\ \/ hpc' = [hpc EXCEPT ![j] = "call"] /\ Call(j)
       \/ hpc' = [hpc EXCEPT ![j] = "over"] /\ UNCHANGED vars
    /\ UNCHANGED <<qty, ids, meta, contractVars, disturbed>>

\* No wallet, contract, options or metadata, totalSupply or the table fails.
MintFails(j) ==
    /\ hpc[j] \in {"start", "create"}
    /\ hpc' = [hpc EXCEPT ![j] = "over"]
    /\ UNCHANGED <<qty, ids, tokenVars, contractVars, disturbed, vars>>

\* Mutant: the event is published however processTx ended.
AnnounceAlways(j) ==
    /\ hpc[j] = "call"
    /\ pc[j] = "done"
    /\ hpc' = [hpc EXCEPT ![j] = "over"]
    /\ meta' = [meta EXCEPT ![j] = "published"]
    /\ UNCHANGED <<qty, ids, token, contractVars, disturbed, vars>>

\* processTx returned, with a receipt or with a dry run's payload: the event is
\* published and the command answered.
Announce(j) ==
    /\ hpc[j] = "call"
    /\ result[j] \in {"payload", "receipt"}
    /\ hpc' = [hpc EXCEPT ![j] = "over"]
    /\ meta' = [meta EXCEPT ![j] = "published"]
    /\ UNCHANGED <<qty, ids, token, contractVars, disturbed, vars>>

-----------------------------------------------------------------------------
(* TokensMintedHandler: build the metadata (upload, pin), create its row   *)
(* under the ids of the command, attach it to the token.  Each of these    *)
(* may fail, is logged, and ends it.                                       *)

CreateMetadata(j) ==
    /\ meta[j] = "published"
    /\ meta' = [meta EXCEPT ![j] = "created"]
    /\ UNCHANGED <<handlerVars, token, contractVars, disturbed, vars>>

SetMetadata(j) ==
    /\ meta[j] = "created"
    /\ meta' = [meta EXCEPT ![j] = "attached"]
    /\ UNCHANGED <<handlerVars, token, contractVars, disturbed, vars>>

\* What is left of the handler's work when it stops half way: nothing, or a
\* row that no token has.
HalfWay(s) == CASE s = "published" -> "dropped" [] s = "created" -> "loose" [] OTHER -> s

MetadataFails(j) ==
    /\ meta[j] \in {"published", "created"}
    /\ meta' = [meta EXCEPT ![j] = HalfWay(@)]
    /\ UNCHANGED <<handlerVars, token, contractVars, disturbed, vars>>

-----------------------------------------------------------------------------
(* processTx and what surrounds it                                         *)

ProcessTxStep(j) ==
    /\ Step(j)
    /\ UNCHANGED <<handlerVars, tokenVars, contractVars, disturbed>>

\* TxExecutedHandler, case MINT.
SettleToken(j) ==
    /\ HandleEvent(j)
    /\ token' = IF event'[j] = "handled" THEN [token EXCEPT ![j] = "processed"] ELSE token
    /\ UNCHANGED <<handlerVars, meta, contractVars, disturbed>>

MineMint(j) ==
    /\ Mine(j)
    /\ IF tx'[j] = "succeeded"
       THEN /\ minted' = [minted EXCEPT ![j] = Ids(supply, qty[j])]
            /\ supply' = supply + qty[j]
       ELSE UNCHANGED contractVars
    /\ UNCHANGED <<handlerVars, tokenVars, disturbed>>

\* Somebody else mints a token of the contract, from a wallet of their own.
ForeignMint ==
    /\ supply < SupplyBound
    /\ supply' = supply + 1
    /\ disturbed' = (disturbed \/ \E k \in Job : Loose(k))
    /\ UNCHANGED <<handlerVars, tokenVars, minted, vars>>

MintCrash ==
    /\ \E j \in Job : \/ HandlerBusy(j) \/ event[j] = "published"
                      \/ meta[j] \in {"published", "created"}
    /\ LoseMemory
    /\ hpc' = [j \in Job |-> IF HandlerBusy(j) THEN "over" ELSE hpc[j]]
    /\ meta' = [j \in Job |-> HalfWay(meta[j])]
    /\ UNCHANGED <<qty, ids, token, contractVars, disturbed>>

MintQuiet == (\A j \in Job : ~HandlerBusy(j) /\ hpc[j] # "start") /\ UNCHANGED mvars

MintNext ==
    \/ \E j \in Job :
        \/ ReadSupply(j) \/ CreateToken(j) \/ MintFails(j) \/ Announce(j)
        \/ CreateMetadata(j) \/ SetMetadata(j) \/ MetadataFails(j)
        \/ ProcessTxStep(j) \/ SettleToken(j) \/ MineMint(j)
    \/ ForeignMint
    \/ MintCrash
    \/ MintQuiet

MintSpec == MintInit /\ [][MintNext]_mvars

-----------------------------------------------------------------------------
(* Properties.                                                             *)

\* getMetadata: the rows whose range contains the id, of which findOne takes
\* any.
Lookup(id) == {j \in Job : meta[j] \in {"created", "attached", "loose"} /\ id \in ids[j]}

\* Metadata of a command that was to be executed exists only when its tokens
\* do: processTx has not returned otherwise.
MetadataFollowsMint ==
    \A j \in Job : meta[j] # "none" /\ req[j].execute => tx[j] = "succeeded"

\* As long as nobody mints between a command's reading of the supply and the
\* end of its transaction (which may outlive the command by far: a time-out
\* leaves it pending), the recorded ids are the minted ones.
IdsAreMinted ==
    ~disturbed => \A j \in Job : token[j] = "processed" => ids[j] = minted[j]

\* Then the metadata found for a token that was minted by an executed command
\* is that command's, unless a dry run has left its own under the same ids.
LookupIsRight ==
    ~disturbed /\ (\A j \in Job : req[j].execute) =>
        \A j \in Job : \A id \in minted[j] : Lookup(id) \subseteq {j}

\* INTEGRATION.md:720 of GET /metadata/:slug/:id: "The response will contain the
\* metadata payload for the specified token".  A token that a command has minted is
\* never answered with the metadata of another command, also of a dry run.
TokenServedItsOwn ==
    \A j \in Job : \A id \in minted[j] : Lookup(id) \subseteq {j}
=============================================================================
