------------------------------ MODULE Whitelist ------------------------------
(***************************************************************************)
(* WhitelistHandler and the whitelist methods of RepositoryService, on one *)
(* contract, with processTx as ProcessTx models it.  A command changes the *)
(* whitelist table first, reads it back, and sends the Merkle root of what *)
(* it read to the contract; its rows become PROCESSED by the event of its  *)
(* transaction.  Each command is the Job of its call of processTx.         *)
(***************************************************************************)
EXTENDS ProcessTx, Merkle

CONSTANTS
    Address,    \* addresses on the whitelist
    Command,    \* the commands clients send
    Seed,       \* the command that made the table what it is at the start
    SeedList    \* the addresses it added

ASSUME CommandAssumption ==
    /\ Command \subseteq [op: {"whitelistadd", "whitelistremove"},
                          addresses: (SUBSET Address) \ {{}}]
    /\ IsFiniteSet(Address)
    /\ Seed \notin Job
    /\ SeedList \subseteq Address

VARIABLES
    cmd,        \* the command of each job
    hpc,        \* where its handler is; "call": in or after processTx
    fresh,      \* the addresses it found missing
    leaves,     \* the leaves of the root it sends
    rows,       \* the whitelist table
    settled,    \* the rows with status PROCESSED
    batches,    \* the commands that inserted rows, in order of createdAt
    contract,   \* the leaves of the root the contract has
    last,       \* history: the command started last
    overlap     \* history: a command has started before another was over

handlerVars == <<cmd, hpc, fresh, leaves>>
tableVars == <<rows, settled, batches>>
historyVars == <<last, overlap>>
wvars == <<vars, handlerVars, tableVars, contract, historyVars>>

Row == [by: Job \cup {Seed}, address: Address]

WhitelistTypeOK ==
    /\ TypeOK
    /\ cmd \in [Job -> Command]
    /\ hpc \in [Job -> {"start", "insert", "read", "call", "over"}]
    /\ fresh \in [Job -> SUBSET Address]
    /\ leaves \in [Job -> Seq(Address)]
    /\ rows \subseteq Row
    /\ settled \subseteq rows
    /\ batches \in Seq(Job \cup {Seed})
    /\ contract \in Seq(Address)
    /\ last \in Job \cup {Seed}
    /\ overlap \in BOOLEAN

WhitelistInit ==
    /\ Init
    /\ cmd \in [Job -> Command]
    /\ hpc = [j \in Job |-> "start"]
    /\ fresh = [j \in Job |-> {}]
    /\ leaves = [j \in Job |-> <<>>]
    /\ rows = [by: {Seed}, address: SeedList]
    /\ settled = rows
    /\ batches = <<Seed>>
    /\ contract \in SetToSeqs(SeedList)
    /\ last = Seed
    /\ overlap = FALSE

IsAdd(j) == cmd[j].op = "whitelistadd"
Listed(R) == {r.address : r \in R}
HandlerBusy(j) == hpc[j] \in {"insert", "read"} \/ (hpc[j] = "call" /\ InFlight(j))
Busy == \E j \in Job : HandlerBusy(j)

\* getAllObjects: ORDER BY createdAt DESC, and the rows of one bulkCreate have
\* one createdAt, so that their order is the database's choice.
Newer(r, s) ==
    \E i, k \in DOMAIN batches : batches[i] = r.by /\ batches[k] = s.by /\ i > k

Reads == {s \in SetToSeqs(rows) :
            \A i, k \in DOMAIN s : Newer(s[i], s[k]) => i < k}

AddressesOf(s) == [i \in DOMAIN s |-> s[i].address]

\* GetMerkleProofHandler, for the rows it has read; none at all is an error.
MerkleProofQuery(s, x) ==
    [root |-> GetMerkleRoot(AddressesOf(s)), proof |-> GetMerkleProof(AddressesOf(s), x)]

-----------------------------------------------------------------------------
(* WhitelistHandler.execute                                                *)

Started(j) == last' = j /\ overlap' = (overlap \/ Busy)

\* Mutant: what is listed already is not left out.
AddWhitelistCheckNothing(j) ==
    /\ hpc[j] = "start" /\ IsAdd(j)
    /\ Started(j)
    /\ fresh' = [fresh EXCEPT ![j] = cmd[j].addresses]
    /\ hpc' = [hpc EXCEPT ![j] = "insert"]
    /\ UNCHANGED <<cmd, leaves, tableVars, contract, vars>>

\* addWhitelist looks up which of the addresses the table has; when it has all
\* of them the command fails.
AddWhitelistCheck(j) ==
    /\ hpc[j] = "start" /\ IsAdd(j)
    /\ Started(j)
    /\ LET missing == cmd[j].addresses \ Listed(rows)
       IN  /\ fresh' = [fresh EXCEPT ![j] = missing]
           /\ hpc' = [hpc EXCEPT ![j] = IF missing = {} THEN "over" ELSE "insert"]
    /\ UNCHANGED <<cmd, leaves, tableVars, contract, vars>>

\* ... and creates the missing ones, by then perhaps no longer missing.
AddWhitelistCreate(j) ==
    /\ hpc[j] = "insert"
    /\ rows' = rows \cup [by: {j}, address: fresh[j]]
    /\ batches' = Append(batches, j)
    /\ hpc' = [hpc EXCEPT ![j] = "read"]
    /\ UNCHANGED <<cmd, fresh, leaves, settled, contract, historyVars, vars>>

\* removeWhitelist; the command fails when nothing was deleted.
RemoveWhitelist(j) ==
    /\ hpc[j] = "start" /\ ~IsAdd(j)
    /\ Started(j)
    /\ LET gone == {r \in rows : r.address \in cmd[j].addresses}
       IN  /\ rows' = rows \ gone
           /\ settled' = settled \ gone
           /\ hpc' = [hpc EXCEPT ![j] = IF gone = {} THEN "over" ELSE "read"]
    /\ UNCHANGED <<cmd, fresh, leaves, batches, contract, vars>>

\* Mutant: the root of the rows the command itself has added.
PublishOwnRows(j) ==
    /\ hpc[j] = "read"
    /\ \E s \in SetToSeqs(fresh[j]) : leaves' = [leaves EXCEPT ![j] = s]
    /\ hpc' = [hpc EXCEPT ![j] = "call"]
    /\ Call(j)
    /\ UNCHANGED <<cmd, fresh, tableVars, contract, historyVars>>

\* getWhitelist answers; root and proofs are computed and processTx is called
\* in the same turn of the event loop.
Publish(j) ==
    /\ hpc[j] = "read"
    /\ \E s \in Reads : leaves' = [leaves EXCEPT ![j] = AddressesOf(s)]
    /\ hpc' = [hpc EXCEPT ![j] = "call"]
    /\ Call(j)
    /\ UNCHANGED <<cmd, fresh, tableVars, contract, historyVars>>

\* The wallet or the contract is not found, or the database refuses a query.
HandlerFails(j) ==
    /\ hpc[j] \in {"start", "insert", "read"}
    /\ hpc' = [hpc EXCEPT ![j] = "over"]
    /\ UNCHANGED <<cmd, fresh, leaves, tableVars, contract, historyVars, vars>>

-----------------------------------------------------------------------------
(* processTx and what surrounds it                                         *)

\* The link of the transaction row stays under way here: no property of this
\* module reads it.
ProcessTxStep(j) ==
    /\ Step(j)
    /\ UNCHANGED <<handlerVars, tableVars, contract, historyVars>>

\* Mutant: the rows are looked up by address, not by the ids of the command.
SettleByAddress(j) ==
    /\ HandleEvent(j)
    /\ settled' = IF event'[j] = "handled" /\ IsAdd(j)
                  THEN settled \cup {r \in rows : r.address \in cmd[j].addresses}
                  ELSE settled
    /\ UNCHANGED <<handlerVars, rows, batches, contract, historyVars>>

\* Mutant: the update creates the rows it does not find.
SettleRowsUpsert(j) ==
    /\ HandleEvent(j)
    /\ settled' = IF event'[j] = "handled" /\ IsAdd(j)
                  THEN settled \cup [by: {j}, address: fresh[j]] ELSE settled
    /\ UNCHANGED <<handlerVars, rows, batches, contract, historyVars>>

\* TxExecutedHandler: updateStatus of the rows the command created, as far as
\* they are still there; nothing for a removal.
SettleRows(j) ==
    /\ HandleEvent(j)
    /\ settled' = IF event'[j] = "handled" /\ IsAdd(j)
                  THEN settled \cup {r \in rows : r.by = j} ELSE settled
    /\ UNCHANGED <<handlerVars, rows, batches, contract, historyVars>>

\* The transaction sets the root of the contract.
MineRoot(j) ==
    /\ Mine(j)
    /\ contract' = IF tx'[j] = "succeeded" THEN leaves[j] ELSE contract
    /\ UNCHANGED <<handlerVars, tableVars, historyVars>>

WhitelistCrash ==
    /\ Busy \/ \E j \in Job : linked[j] = "pending" \/ event[j] = "published"
    /\ LoseMemory
    /\ hpc' = [j \in Job |-> IF HandlerBusy(j) THEN "over" ELSE hpc[j]]
    /\ UNCHANGED <<cmd, fresh, leaves, tableVars, contract, historyVars>>

WhitelistQuiet ==
    /\ \A j \in Job : hpc[j] = "over" \/ Ended(j)
    /\ UNCHANGED wvars

WhitelistNext ==
    \/ \E j \in Job :
        \/ AddWhitelistCheck(j) \/ AddWhitelistCreate(j) \/ RemoveWhitelist(j)
        \/ Publish(j) \/ HandlerFails(j)
        \/ ProcessTxStep(j) \/ SettleRows(j) \/ MineRoot(j)
    \/ WhitelistCrash
    \/ WhitelistQuiet

WhitelistSpec == WhitelistInit /\ [][WhitelistNext]_wvars

-----------------------------------------------------------------------------
(* Properties.                                                             *)

\* A row is PROCESSED only if its address was a leaf of a root that its own
\* command sent and the contract accepted.  (Commands interleave: the row may
\* have been removed, or the address added a second time, in between.)
SettledWasPublished ==
    \A r \in settled : r.by # Seed => /\ tx[r.by] = "succeeded"
                                      /\ r.address \in ToSet(leaves[r.by])

\* A proof handed out with a root verifies against it, for every address that
\* is a leaf of the root; an address that is not one is verified by no proof
\* that anybody is handed out.
\* (Looked at as the command calls processTx: neither changes afterwards.)
ProofsMatchRoots ==
    \A j \in Job : \A x \in Address :
        hpc[j] = "call" /\ pc[j] = "nonce" =>
            LET root == GetMerkleRoot(leaves[j])
                proof == [y \in Address |-> GetMerkleProof(leaves[j], y)]
            IN  /\ x \in ToSet(leaves[j]) => Verify(proof[x], root, x)
                /\ x \notin ToSet(leaves[j]) =>
                      \A y \in Address : ~Verify(proof[y], root, x)

\* The commands come one after another, from one wallet.
Serial == ~overlap /\ \A j, k \in Job : From(j) = From(k)

\* Check-then-insert keeps the table free of duplicates as long as commands do
\* not overlap, whatever failed or crashed before.
SerialNoDuplicates ==
    ~overlap => \A r, s \in rows : r.address = s.address => r = s

\* After a command that got its receipt the contract has the root of the whole
\* table, also when commands before it failed, timed out or were lost in a
\* crash half way and their transactions were still under way: the nonce of
\* the wallet keeps a late root from overwriting a newer one.
SerialRootIsCurrent ==
    Serial /\ last # Seed /\ ~Busy =>
        (result[last] = "receipt" => ToSet(contract) = Listed(rows))

\* The commands keep ListPromise: the table is reduced to the set of its
\* addresses, the contract to the set of the leaves of its root.
Listing == INSTANCE ListPromise WITH
    list <- Listed(rows),
    snapshot <- [j \in Job |-> IF Called(j) THEN {ToSet(leaves[j])} ELSE {}],
    contract <- ToSet(contract),
    installed <- {j \in Job : tx[j] = "succeeded"},
    acknowledged <- {j \in Job : result[j] = "receipt"}

\* The contract never has a part or a mixture of lists: what it has is the whole
\* table as some command has read it, with each command's list taken over at most
\* once, and before its caller is given a receipt.
KeepsListPromise == Listing!Spec

\* test/app.e2e-spec.ts:314 expects of a merkle proof query after a whitelist
\* command that its root is the one the command returned (and the contract
\* has), `expect(response.data.root).toEqual(merkle_root)`.
QueryRootIsCommandRoot ==
    Serial /\ last # Seed /\ ~Busy =>
        (result[last] = "receipt" =>
            \A s \in Reads, x \in Listed(rows) :
                MerkleProofQuery(s, x).root = GetMerkleRoot(leaves[last]))
=============================================================================
