# A verification project for web3-service

web3-service is a NestJS microservice that deploys contracts, mints tokens, keeps whitelists and
makes other contract calls on behalf of its clients. A command comes in over Redis or an SQS
queue, is dispatched to a command handler, and ends in one routine, `Web3Service.processTx`, which
builds, records, signs and sends an Ethereum transaction and waits for its receipt. Events, whose
handlers nobody awaits, bring the database up to date afterwards.

The service is one Node.js process. Commands run concurrently: each stretch of code between two
`await`s runs alone, and at every `await` another command may go on. What makes it hard is that
three things that cannot be changed together have to agree: the database, the chain, and what the
caller has been told; and that nothing is retried, rolled back or reconciled at start-up.

All paths below are relative to `src/src/` of the repository unless they say otherwise.

## 1. Inventory

| Component | State | Operations | Interacts with |
|---|---|---|---|
| **Transaction processing**: `web3/web3.service.ts` `processTx`, `events/handlers/tx-executed.handler.ts` | `transactions` table (CREATED, PROCESSED, FAILED); status of contract, token and whitelist rows; per call: payload, nonce, row, receipt | one call = gas price, nonce, estimate, balance, row, sign, send, receipt, event, save | called by all command handlers; node over JSON-RPC; publishes `TxExecutedEvent` |
| **Whitelist**: `commands/handlers/whitelist.handler.ts`, `repository.service.ts` `addWhitelist`, `removeWhitelist`, `getWhitelist`; `getMerkleRoot`, `getMerkleProof`; `queries/handlers/get-merkle-proof.handler.ts` | `whitelist` table; Merkle root in the contract | add, remove, proof query | processTx; TxExecutedEvent sets its rows PROCESSED |
| **Minting and metadata**: `commands/handlers/mint.handler.ts`, `events/handlers/tokens-minted.handler.ts`, `repository.service.ts` `setMetadata`, `getMetadata`, `updateMetadata` | `tokens` and `metadata` tables; `totalSupply` of the contract | mint, attach metadata, look up, update | processTx; `TokensMintedEvent`; S3 and Pinata |
| **SQS**: `sqs/consumer.handler.ts`, `sqs/producer.handler.ts` | request and response queue | receive, dispatch, respond, delete | command bus; AWS |
| **Deployment**: `commands/handlers/deploy.handler.ts`, `events/handlers/contract-deployed.handler.ts` | `contracts`, `metadata` tables | deploy | processTx; `ContractDeployedEvent` |
| **Common calls**: `commands/handlers/common.handler.ts` | none of its own | send, view call | processTx |
| **Status and metadata updates**: `repository/commands/handlers/*` | any row's status; metadata JSON | updateStatus, updateMetadata | clients and event handlers write the same rows |
| **Wallets**: `commands/handlers/create-wallet.handler.ts`, `newWallet`, `getAdmin`, `sendAdmin` | `wallets` table, key stores | create and fund, send from the admin account | node |
| **Queries**: `getAllObjects`, `getOneObject`, `repository/queries/handlers/*` | none | pages, filters, joins | everything |
| **Accounts and start-up**: `auth/`, `main.ts`, `Web3Service.onModuleInit` | `user` table, cookie; one client per network | accounts made at start-up, login, new password | mail |
| **Export, mail, assets** | none | read tables into a file; send a mail; copy an asset from S3 to Pinata | |
| **Transports, validation** | none | pass a request on, and its answer or error back | |

Which behaviours are hard, and what correctness means for each component:

* *Transaction processing.* Concurrent calls of a wallet read the same nonce; the process may die
  or web3 may give up between broadcast and save; the node's answer may be lost; the row's link and
  the event run beside the call. Correct means: no transaction without a row, PROCESSED only of
  what succeeded, truthful answers, at most one winner per nonce, no record taken back, every call
  ends.
* *Whitelist.* The table is changed before the transaction and read back after it; commands
  interleave; failed commands leave their rows. Correct means: what is PROCESSED was published,
  the contract ends with the root of the table, proofs verify against the root they come with, no
  duplicates.
* *Minting.* Ids are guessed from `totalSupply` before the transaction; metadata is made by a
  handler nobody awaits. Correct means: metadata only of tokens that exist, under the right ids,
  and the lookup by id finds it.
* *SQS.* At-least-once delivery, expired receipt handles, commands that fail. Correct means: no
  command is lost, none blocks the queue for ever.
* *Deployment.* Two event handlers write one contract row; metadata is built after the deployment
  is mined. Correct means: a deployed contract has its address, a dry run leaves nothing a client
  takes for a contract, an error means there is something to repeat.
* *Updates.* A document is read, changed in memory and saved as a whole; clients write statuses
  beside event handlers. Correct means: an update is lost at most to one that ran beside it and was saved
  later, it may be served for its token, and a status agrees with the chain until a client writes over it.
* *Wallets.* The account is funded before its row is written, by an account whose nonces several calls
  share; web3 keeps accounts in memory. Correct means: what was answered is stored and funded, and a
  key belongs to one wallet.
* *Accounts and start-up.* An account is made before its password is mailed; a failing mail ends
  the start; commands may come before the start is over. Correct means: nobody is locked out
  unnoticed, a restart replaces no password, the service comes up in the end.

`PROJECT.json` lists each of these hazards at its line, with the properties that cover it or the
reason why none does yet.

## 2. Plan

In order of importance. All are done; what could follow is below the table.

| # | Module | Composition | State |
|---|---|---|---|
| 1 | `ProcessTx` | the core; modules 3 to 6 extend it | checked, safety proved |
| 2 | `TxPromise` | abstract specification, implemented by `ProcessTx` | refinement checked and proved |
| 3 | `Merkle`, `Whitelist` | `ProcessTx` inside the handler, operators of `Merkle` | checked, safety proved |
| 4 | `SqsConsumer` | `ProcessTx` behind an at-least-once queue, commands over Redis beside it | checked, safety proved |
| 5 | `Mint` | `ProcessTx` inside the handler, token contract outside | checked, safety proved |
| 6 | `Deploy` | `ProcessTx` inside the handler, event handlers and clients beside it | checked, safety proved |
| 7 | `Metadata` | updates and mints on one table | checked, safety proved |
| 8 | `Accounts` | start-up, accounts, resets, mail | checked, safety proved |
| 9 | `Wallets` | wallets and the admin account on one network | checked, safety proved |
| 10 | `ListPromise` | abstract specification, implemented by `Whitelist` | refinement checked and proved |
| 11 | `X_proofs` for each `X` of 1 and 3 to 9 | those of 3 to 6 extend `ProcessTx_proofs` | proved |

Proofs in order of importance: the safety of `ProcessTx` and its refinement of `TxPromise`; what the
queue, the whitelist, deployment and minting add to it, each with `IInv` of `ProcessTx_proofs` inside its
own invariant; that each of them implements `ProcessTx`, and so keeps its promise; the Merkle tree and the
refinement of `ListPromise`; then the three modules that stand alone.

What could follow: several replicas of the service on one database.

## 3. What is modelled

### ProcessTx

A *Job* is one call of `processTx`. `pc` is where it is; a label names what the job awaits:

| `pc` | the code awaits | leaves it by |
|---|---|---|
| `idle` | not called yet | `Call` |
| `nonce` | `calculateGas`, `getGasPrice`, `getTransactionCount` | `ReadNonce`, `Refuse` |
| `estimate` | `estimateGas`, `getBalance` | `Estimate` (dry runs return here), `Refuse` |
| `record` | `repository.create` | `CreateRow`, `CreateRowFails` |
| `send` | the answer to `eth_sendRawTransaction` | `Broadcast`, `BroadcastRefused` |
| `wait` | the receipt, polled by web3 | `ReceiptOk`, `ReceiptReverted`, `GiveUp` |
| `save` | `txModel.save()` | `SaveRow`, `SaveRowFails` |
| `done`, `lost` | returned or thrown; gone with the process | |

`txModel` is the row, which survives a crash; `linked` the un-awaited `$add` at line 139; `event`
the `TxExecutedEvent` and its handler (line 146), which runs beside the save at line 149; `result`
what the caller has been given. `FAILED` is not a value of `txModel`: the branch that would store
it (150-153) is never reached, because web3 1.x rejects the promise of a reverted transaction, and
would throw if it were, since `txModel` is not an array there. A call of the database that fails may
have failed before or after the row was kept, and both are modelled.

The chain is external: `tx` is the fate of each job's transaction, `txCount` the transaction count
of each wallet. The node accepts any nonce that is not used up, replacement is allowed (several
pending transactions of a nonce), and mining one makes its rivals `void`. `MineForeign` is a
transaction of the wallet that the service did not send through `processTx`. Mining is final:
web3's default of one confirmation is what the service waits for, so a reorganisation of the
chain is out of scope.

`Crash` ends the process at any point. It loses every call, link and event under way; row and
chain stay. `LoseMemory` is its effect, used by the crashes of the other modules.

`TxPromise` says what a caller may rely on without nonces, node or process. Its `Execute` may come
after the caller has been told of an error: that is what the service really promises.

### Whitelist and Merkle

One contract, one list. `hpc` is where a command's handler is; from `"call"` on, `pc` of the same
Job says where `processTx` is. The table is `rows`; a row is named by the command that created it
and its address (its id is never compared otherwise); `settled` are the PROCESSED ones. `batches`
orders the commands by `createdAt`, which all rows of one `bulkCreate` share: `Reads` is every
order the database may answer `ORDER BY createdAt DESC` with. `leaves` are the leaves of the root
a command sends, `contract` those of the root the contract has. `AddWhitelistCheck` and
`AddWhitelistCreate` are two actions because there is an `await` between them; `Publish` is one
because root, proofs and call of `processTx` have none that lets another command in.

`Merkle` is merkletreejs with `sortPairs`: a hash is its preimage (`Leaf` of an address, `Parent`, the
unordered pair, of two nodes), so that different preimages have different hashes; a node without partner
moves up unhashed. `WayUp` is how getProof climbs from a leaf. `Verify` is the contract's side. A leaf and
an inner node are never equal, as the hash of 20 bytes and that of 64 are not.

`ListPromise` says what the list in the contract may be, without rows, handlers, trees or nonces: a command
takes at most one snapshot of the list, the contract has one snapshot as a whole and takes each over at
most once, and a command is acknowledged only after that. It does not promise that the last snapshot wins:
that is `SerialRootIsCurrent`, and needs its premise. `Listing` is the mapping: the table is reduced to the
set of its addresses, the root to the set of its leaves.

### SqsConsumer

A Job is one *attempt* at a message, or one command over Redis (`RedisCommand`), which runs beside the
consumer and competes for the same nonces. SQS may deliver a message again and handleMessage does not
know. sqs-consumer handles one message at a time and deletes it when handleMessage returns;
`Delete` may fail, since the visibility time-out is not extended while `processTx` waits. The four
command handlers are one here: they call `processTx` (`Dispatch`), only read a contract
(`ReadContract`, for the messages in `View`), or throw before either (`HandlerThrows`;
`UnsupportedThrows` for a command that handleMessage does not know). Attempts at one message have one request
(`Fits`).

### Mint

`ReadSupply` is `getTokenId` and keeps the ids it computes; `CreateToken` the token row and the
call of `processTx`; `Announce` the `TokensMintedEvent`, which also a dry run publishes;
`CreateMetadata`, `SetMetadata` and `MetadataFails` are its handler. The token contract is external
and numbers tokens from `totalSupply` on when they are mined (`MineMint`, `ForeignMint`).
`disturbed` is a history variable: somebody minted, or began to, between a command's reading of the
supply and the end of its transaction. `Lookup` is the set of rows `getMetadata` may find.

### Deploy

`hpc` names what `DeployHandler` awaits: `wallet`, `create` (the contract row), `call` (`processTx`),
`build` (`buildMetadata`: S3 and Pinata), `store`, `attach`, and `over`, with `reply` the answer.
`contractRow`, the row's status, and `address` are written by the handler, by TxExecutedHandler
(`SettleContract`) and, the status only, by clients (`UpdateStatus`): any status, at any time once there is
a row, true or not, as the code has it. `reported` is history: the rows whose status a client wrote last.
`links` is ContractDeployedHandler, which links contract and transaction to the wallet, each link a step,
and is started for a dry run too. `BuildMetadata` has the `TypeError` a dry run with metadata ends in
(`deploy.handler.ts:49`). A client may execute the payload of a dry run (`ClientExecutes`), with the nonce
it came with.

### Metadata

The rows of one slug. An update (`updateMetadata`) takes any row that has the id in its range
(`FindRow`), changes the document in memory (`copy`) and saves all of it (`Save`). A field's value is
named by the update that wrote it, so that one can tell whose survived. `saved`, `seen` and `overtaken` are
history: which updates have reached the table, which of them an update had read, and over which of them
another one was saved that had not. `NewRow` is what a mint leaves (see Mint for which ids). The branch of
`updateMetadata` for common rows is not modelled because it is never reached: rows are found by `token_id`,
which common rows do not have.

### Accounts

`phase` is the process: down, starting, up. A start builds the networks and walks through
`EMAILS_LIST` in any order, each in its `onModuleInit`; `created` is the account whose mail is awaited. A
mail that fails (`MailFails`), or a table that does (`CreateFails`), rejects `bootstrap`, which nobody
catches: the process dies, and the container service starts it again (`Start`). `StorePassword`,
`MailPassword` and their failures are `updatePassword`. A password is named by what made it; passwords
made at start-up are one value per account, since there is only ever one. `inbox` is every mail that
went out, also those whose sending was reported as failed.

### Wallets

One network. `memory` is the first account in the wallet web3 keeps in memory, which
`wallet.create(1)` adds to and returns as a whole; `newWallet` uses its `account[0]`. The admin
account's transactions, the transfers and `sendAdmin`, follow the same rules of the node as in
`ProcessTx`; the payload of `sendAdmin` may carry a nonce of its own (`PayloadNonce`). `row` is the key each
call has stored. `networks` is empty until `BuildNetworks`, which a command may precede, because
`startAllMicroservices` comes before `listen` in `main.ts`.

### Abstractions that hold throughout

Gas prices, balances, ABI encoding, keys and signatures are not modelled: that they make the call
fail is (`Refuse`, `BroadcastRefused`). Not modelled either: several replicas of the service; two
commands so alike that their signed transactions are the same bytes and share one hash; one
address twice in one request; a local chain inside the process (`USE_GANACHE`), which a crash would
lose. In `Whitelist`, `Mint` and `Deploy` the link of the transaction row stays under way: nothing there
reads it.

Operators whose comment starts with "Mutant" are faulty variants of the operator after them. No
next-state relation uses them; each property is run against one of them to see that it can fail.

## 4. Runs

| Run | Instance | What it shows |
|---|---|---|
| `processtx_safety` | 3 jobs, 1 wallet, 1 foreign transaction, symmetry | the safety of `ProcessTx` and that it implements `TxPromise` |
| `whitelist` | 2 commands out of 3, 3 addresses, list of 2 | table, root, proofs and statuses agree |
| `whitelist_root` | the same | *violated*: a later proof query may have another root than the contract |
| `sqs` | 3 messages, one unsupported, one a read; 2 deliveries or Redis commands, 1 foreign transaction, fairness | no command lost, no message blocks the queue, every call of `processTx` ends |
| `mint` | 2 commands of 1 or 2 tokens, 2 wallets, 1 foreign token | metadata follows the mint, under the right ids |
| `mint_lookup` | 2 commands of 1 token | *violated*: a token may be served another command's metadata |
| `deploy` | 2 commands, 1 wallet, with or without metadata; clients | contract row, metadata, chain and answer agree |
| `deploy_status` | 1 command | *violated*: a client's report stands against the receipt |
| `metadata` | 3 updates, 2 fields, 2 mints, 2 ids, symmetry | which updates survive and may be served |
| `accounts` | 2 accounts, 2 resets, 2 outages, fairness | nobody locked out unnoticed; the service comes up |
| `wallets` | 2 wallets, 1 admin transaction, fairness | answered wallets are stored and funded |
| `wallets_new` | the same | *violated*: the second test wallet has the first one's account |

Properties, by what could go wrong:

* `WriteAhead`, `ProcessedIsMined`, `AnswerIsTrue`: at each of the points where a crash, a lost
  answer, a time-out or a failed save may separate table, chain and caller.
* `OneWinnerPerNonce`: concurrent calls that read the same nonce. The service does not prevent the
  race; what saves it is that it waits for the receipt of its own hash. (Replacing that by "the
  nonce is used up", the mutant `ReceiptByNonce`, breaks it.)
* `NoSecondThoughts`: a transaction mined after its caller was given up changes no row and no answer.
  This is also a limitation: such a row stays CREATED for good. The link that nobody awaits, and the save
  it runs beside, do not undo each other; that a crash may take a link for good is accepted.
* `SettledWasPublished`, `KeepsListPromise`: hold under any interleaving.
* `ProofsMatchRoots`: the proof of each leaf verifies, in odd layers and for an address listed twice too, and
  no proof that anybody is handed out verifies an address that is not a leaf.
* `SerialNoDuplicates`, `SerialRootIsCurrent`: hold when commands do not overlap, and the premise
  is needed: with overlapping commands TLC finds a duplicate row and a contract with an old root.
  Failed, timed-out and crashed commands in between are allowed.
* `MetadataFollowsMint`: any interleaving. `IdsAreMinted`, `LookupIsRight`: as long as nobody mints
  in between (`disturbed`), and for the lookup no dry run; they do not catch a shift of the ids, which
  the code allows. Without these premises TLC finds token rows with wrong ids, and tokens that may be
  served the metadata of a rival or of a dry run (`mint_lookup`).
* `DeletedWasExecuted`: at-least-once. It is not exactly-once: a message whose deletion fails is
  executed a second time, as is one whose response could not be sent, and nothing in the code prevents it.
* `DeletedIsFinal`: but what a message causes, it causes before it is deleted. An attempt that was given up,
  or lost in a crash, may have left a transaction pending; the attempt that is answered in the end has read
  the same count of mined transactions, competes for the same nonce, and wins it. An answer without the
  receipt of its own transaction (`RespondAlways`) breaks it.
* `UnreportedStatusIsTrue`, `AddressIsOfReceipt`, `MetadataIsOfDeployed`, `SuccessIsComplete`: three tables,
  the chain and the answer, written by a handler, two event handlers and clients. The first says what the
  service itself keeps true of the status: status and address go together, and an event handler that saves
  the row as it has read it (`LinkContractSavesRow`) breaks it. Of a row that a client wrote last it says
  nothing, since nothing can be said (`deploy_status`); the address and the metadata are true all the
  same. `SuccessIsComplete` has no converse: an error may be the answer to a deployment that is
  done. A deployment answered with success may be without its address for a while, or for good when
  the event handler's save fails (`AddressIsOfReceipt`).
* `LastUpdatesKept`: an update keeps its fields until a later update that has read them, unless one that has
  not is saved over it. So of rivals the one saved last stays whole, and takes the others' fields away,
  also those it did not set: `overtaken` names just these. `UpdatesAreServed`: what stays is in a row
  with the id; when rows overlap, `getMetadata` may answer with another one.
* `LockedOutWasReported`, `ResetTakesEffect`: an account whose password nobody has been mailed is one
  whose reset did not answer "sent", or whose first mail ended a start. Two overlapping resets leave
  their mails in either order, but the stored password is in one of them.
* `PasswordsSurviveStarts`, `ComesUp`: starts that die half way are repeated until one gets through,
  even if no mail ever goes out, and change nothing that was there. The price is that such accounts
  have a password nobody knows, until somebody asks for a reset (`ResetTakesEffect`):
  `LockedOutWasReported` takes a start that died for report enough.
* `AnsweredWalletIsUsable`, `ProductionKeysAreOwn`: hold also beside the shared `account[0]` of test
  wallets. The converse of the first fails: funds may go to a key that no row has.
* `OneTransferPerNonce`, `WalletCallEnds`: the nonce race of `ProcessTx`, for the admin account.
* `CallEnds`, `ConsumerMovesOn`: see fairness.

**Bounds.** `Job`: calls, commands or attempts in all; two are enough for a race and for one
command after another, three (`processtx_safety`) for two rivals and a bystander or a successor.
`Wallet`: one shared, or (`mint`) one each. `NonceBound`: foreign transactions are mined up to this count;
0 switches them off, and 1 lets one take the nonce of any job. The nonces of the
jobs themselves are bounded by their number. `MaxQty` 2 makes ranges that can overlap in part;
`SupplyBound` 1 is one foreign mint before, between or after the commands. Three addresses give
trees of zero to four leaves (an address may be there twice), among them odd layers of three;
commands overlap with the list and with each other. An attempt is a delivery: two let one message be
delivered twice, two messages once, or one beside a command over Redis. Three updates are two rivals and
one after, or one before and two rivals; two rows over two ids may be apart, overlap or be the same.
`PayloadNonce` 0 to 2 is behind, at and ahead of what the chain expects.
`OutageBound` 2 lets a crash or a failing table hit two starts, or a start and the service; mails
may fail without bound. Two `Create` share the memory, one `Send` competes with both for a nonce.

**Symmetry** is used in safety runs only: over jobs, wallets, and the updates, rows, ids and fields of
`Metadata`; no `CHOOSE` in the modules takes from a symmetric set. Deadlock is checked everywhere
(`Wallets` can always crash and restart). `Quiet` and its kin are
the states in which all calls are over, which is where the service really may rest.

**Fairness.** `SqsSpec` assumes weak fairness of each job's own steps and of the consumer: every
request to node, database or SQS is answered or fails, and the event loop runs what is ready.
*Nothing* is assumed of miners, who may leave a transaction pending for ever, nor of crashes. A call
that waits for a receipt then ends because web3 gives up after 750 seconds or 50 blocks
(`GiveUp`); without it (`NeverGiveUp`) `CallEnds` and `ConsumerMovesOn` fail. The HTTP provider has no
time-out of its own: a node that keeps a connection open and never answers is outside the assumption.
`Wallets` assumes the same of its calls. `Accounts` assumes that a process that is down is started again
(it runs as an ECS service, `.github/workflows/production.yml`), and that a start goes on; outages are
bounded, failing mails are not, and nothing is assumed of mail.

## 5. Disagreements between documents and code

* `whitelist_root`: `test/app.e2e-spec.ts:314` expects a proof query to have the root that the
  command returned. Rows of one insertion share `createdAt`, by which the leaves are ordered, so the
  database may answer two reads in two orders, and the root depends on the order.
* `deploy_status`: `INTEGRATION.md:539` says that `updateStatus` retrieves the receipt and sets the status
  by it. It writes what the client sends.
* `mint_lookup`: `INTEGRATION.md:720` says that the endpoint answers with the metadata of the specified
  token. A dry run leaves metadata under ids that the next mint gets, and two mints that read the same
  supply record the same ids (and one of them ids it has not minted).
* `wallets_new`: `web3.service.ts:229` says that `newWallet` "Creates a new Ethereum account." A test wallet
  gets `account[0]` of a wallet in memory that all calls share, the first account ever made there.

Seen while modelling, with no run of their own:

* `INTEGRATION.md:324` says that with `execute: false` the service "will only generate transaction
  payload data". The whitelist table is changed all the same.
* `INTEGRATION.md:133` says that with `execute: false` the answer contains the transaction payload. With
  metadata in the request it is a `TypeError` (`BuildMetadata`).
* The comment at `repository.service.ts:330` says that addresses that "already exist" are removed from the
  request. Two commands at the same time both create the row (`SerialNoDuplicates` fails without its premise).
* `INTEGRATION.md:3` promises processing "in queue order"; calls run concurrently and may overtake
  each other.
* `INTEGRATION.md:803` says that the response is sent to the response queue; only results are, errors
  are logged.
* `test/app.e2e-spec.ts:202` expects a call of a contract to succeed right after its deployment was
  answered; the address the call needs is saved by an event handler nobody awaits.

## 6. What is proved

Every safety property of every passing run, the refinements among them, is a theorem of the module's
specification for every value of its constants: any jobs, wallets, messages, addresses,
accounts, fields and bounds. No fairness is used. Each `X_proofs` proves an inductive invariant
(`...Invariance`), one step per action, and draws the properties from it.

Assumptions, all stated in the modules and evaluated by TLC: bounds are natural numbers, a null is none of
the values it stands beside (`NonceBoundAssumption`, `MintAssumption`, `SqsAssumption`,
`AccountsAssumption`, `WalletsAssumption`, `MetadataAssumption`); unsupported and read-only messages are
different ones (`SqsAssumption`); and in `CommandAssumption` there are finitely many addresses, as
Ethereum's of 20 bytes are: only a finite table can be read in some order.

### processTx

| Theorem | States |
|---|---|
| `TypeCorrect` | `TypeOK` |
| `LoggedFirst` | `WriteAhead` |
| `ProcessedOnlyIfMined` | `ProcessedIsMined` |
| `AnswersAreTrue` | `AnswerIsTrue` |
| `NonceUsedOnce` | `OneWinnerPerNonce` |
| `NothingRevised` | `NoSecondThoughts` |
| `PromiseKept` | `Spec` implements `TxPromise` |

The inductive invariant is `IInv`:

* `Record`: `WriteAhead`, `ProcessedIsMined` and `AnswerIsTrue`, the properties themselves.
* `Progress`: what a job's `pc` says of its row, transaction, event and answer. `WriteAhead` alone is
  not inductive, since `Broadcast` keeps it only because a job at `send` has a row; nor is
  `ProcessedIsMined`, since `SaveRow` keeps it only because a job at `save` has succeeded.
* `Nonces`: no nonce is from the future, that of a pending transaction is not used up, that of a mined one
  is. It is what makes mining one transaction void its rivals.
* `OneMinedPerNonce`: the chain mines one transaction per wallet and nonce. It follows from `Nonces` at
  each `Mine`, and together with `ProcessedIsMined` gives `OneWinnerPerNonce`.

Each conjunct has a lemma with one step per action (`TypeStep`, `ProgressStep`, `RecordStep`,
`NoncesStep`, `MinedOnceStep`). `PromiseKept` maps `CreateRow` to `Log`, `Mine` to `Execute`, `SaveRow`
to `Settle`, errors to `Fail` (with the row: `Log` or `Settle` with an error), `Estimate` of a dry run
to `Describe`, and the rest, a crash included, to a stutter. It needs `IInv` to know that a row is
there when `Execute` wants one.

### What runs around processTx

`Whitelist_proofs`, `SqsConsumer_proofs`, `Mint_proofs` and `Deploy_proofs` take `IInv` into their own
invariant. That it stays is not proved again: a lemma of each (`...MovesService`) shows that every step of
the larger system is, for the variables of `ProcessTx`, one of its steps or none. Lemmas of
`ProcessTx_proofs` cover the rest: `MemoryLost` a crash, `NonceUsedUp` a client that executes a payload
itself, and `Settled`, which says what no step takes back of a call (its nonce once mined, its success,
its receipt), from which the larger systems conclude, and `FateStep` how a transaction changes: it is sent by
its own call only, and when it is mined, its wallet has none left that could be.

Hence the larger systems implement `ProcessTx`, with its variables as they are: `ConsumerRunsService`,
`WhitelistRunsService` and `MintRunsService` are `XSpec => Spec`, and what is proved of `Spec`, its refinement
of `TxPromise` and `NoSecondThoughts` too, holds of them (`AttemptsKeepPromise`, `WhitelistKeepsPromise`,
`MintKeepsPromise`). `Deploy` does not implement `Spec`, as its clients use up nonces beyond `NonceBound`;
`DeployKeepsPromise` shows that it keeps `TxPromise` all the same. What each adds:

* `SqsInv`: only commands to be executed reach `processTx`, what is in `answers` was read or has succeeded
  (`Answered`), and a message is deleted only after its answer (`AnsweredFirst`). `NoCommandLost` follows
  whatever the queue delivers again. `ServiceSafeBesideQueue` states that the safety of `processTx` stays.
  `NothingAfterDeletion` (`DeletedIsFinal`) has an invariant of its own, `AttemptInv`: of all attempts only the
  current one is inside `processTx` (`AttemptsOver`), it is at a message still in the queue (`InHand`), the
  attempts at one message have one sender (`OneSender`), and once the current one is executed no other one is
  pending (`RivalsOver`), since mining it has made them void (`FateStep`).
* `WhitelistInv`: `SettledRowsPublished` needs that a row of a command that has called is among its leaves
  (`RowsAreSent`), under any interleaving. For serial commands, `OneAtATime` (only the last is under
  way, and what it found missing still is) gives `NoDuplicates`. `RootIsCurrent` is the subtlest: of
  earlier commands that were given up, transactions may be pending; but the last one's nonce is that of
  every pending one, so mining it voids them, and nothing can set the contract back (`LastIsCurrent`).
  `ListPromiseKept` maps `AddWhitelistCreate` and `RemoveWhitelist` to `Change`, `Publish` to `Take`, a mined
  success to `Install`, `SaveRow` to `Acknowledge`, and the rest, a crash included, to a stutter.
* `MintInv`: the contract gives no id twice (`IdsMintedOnce`), and while nobody comes in between at most
  one command is `Loose` (has read the supply, and may still mint) and what it read is the supply
  (`GuessesHold`). From these, `RecordedIdsAreMinted` and `OwnMetadataFound`; `MetadataOnlyOfMinted` needs
  neither.
* `DeployInv`: where the handler is tells what it has called, stored and answered (`HandlerProgress`); a
  call has its contract row, and an address its handled event (`ContractRecord`). The properties
  follow from it and `IInv` (`DeploymentStatusTrue` is inductive with them, whatever clients report), and
  one theorem besides: `DeploymentLogged`, that a contract the chain may have has its rows.

### The Merkle tree

For lists of any length, with repetitions and odd layers: `LeavesVerify` (the proof of a leaf verifies),
`OnlyLeavesVerify` (no proof verifies anything else, whatever nodes it is made of) and `RootCommits` (lists
with one root have the same addresses, so that the contract's root tells who is listed). `ProofsAreSound`
draws `ProofsMatchRoots` from the first two. They are inductions over the layers, which the library's
theorems cannot be used for because they take the induction hypothesis as an operator; `NatSetInduction`
takes it as a set of numbers, and follows from the well-foundedness of `<` on the naturals (`WFMin`,
`NatLessThanWellFounded`). `LayersDef` and `WayUpDef` unfold the two recursive functions one layer at a time, by
the same induction. Then:

* `LayerSteps`, `LayerLengths`: each layer is half of the one below, rounded up, so the last one is a single
  node; `SiblingPlaces`, `NodeAbove`: where the way from a leaf passes.
* `WayUpFolds`: after `n` layers, folding the siblings so far over the leaf gives the node the way is at. At
  the top that is the root (`LeavesVerify`).
* `Preimages`: since hashes are preimages, equal nodes have equal children, as unordered pairs.
  `OnlyLeavesVerify` follows the proof backwards from the root down to a leaf; `NodesOfTree` is that all it
  meets are nodes of the tree. `RootCommits` uses the proof of each leaf of one list in the other.

The injectivity of the hash is what the model assumes here, as everybody who uses such a tree does.

### What stands alone

* `MetadataInv`: the argument about `LastUpdatesKept` is about documents in memory. A copy about to
  be saved has the update's own fields, in the others what updates of the row's tokens have left
  (`CopyIsMerged`), and nothing that it has seen and that is not overtaken is missing (`CopyKeepsSeen`). `UpdatesInRange`: no
  document is ever written by an update of another row's token.
* `AccountsInv`: once a reset has stored its password, the account's is a reset's for good
  (`StoredStays`), and what a reset says it has mailed it has (`SentIsMailed`).
* `WalletsInv`: a call's place tells what it has sent (`CallProgress`) and whose key it has
  (`CreateProgress`); in memory are keys of test wallets only (`MemoryIsTest`); the admin account's nonces
  (`AdminNonces`) are the argument of `ProcessTx` for one account.

### Only model-checked

Liveness (`CallEnds`, `ConsumerMovesOn`, `ComesUp`, `WalletCallEnds`), which is out of the prover's reach, as
is that the systems do not deadlock; and the violated properties of section 5, which are counterexamples.

## 7. What is not modelled

Sessions, cookies and redirects of the admin pages, formatting of exports, file transfer, validation
and the wiring of transports keep no state of their own or belong to libraries. Pages, filters and joins
of queries are Sequelize's; that rows with one `createdAt` have no order is in `Whitelist`. Replicas of the
service (two run side by side while ECS replaces one) are not modelled, nor the chain inside the
process (`USE_GANACHE`), nor reports of clients about tokens. `PROJECT.json` says so component
by component.

## 8. Running it

    tlc -config MCProcessTx.cfg MCProcessTx          # likewise the other runs, see PROJECT.json
    tlapm ProcessTx_proofs.tla                       # likewise the other *_proofs modules
