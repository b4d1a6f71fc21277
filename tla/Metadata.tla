------------------------------ MODULE Metadata ------------------------------
(***************************************************************************)
(* RepositoryService.updateMetadata beside getMetadata and the mints that  *)
(* add rows (Mint), for one slug.  A row holds a JSON document for a range *)
(* of token ids; an update looks for a row by one id, merges its fields    *)
(* into the document in memory and saves the whole document.  Only rows of *)
(* mints are found: the common row of a contract (Deploy) has no range, so *)
(* that the branch of updateMetadata for common rows is never reached.     *)
(* The value of a field is named by the update that wrote it.              *)
(***************************************************************************)
EXTENDS Naturals

CONSTANTS
    Row,        \* rows of the metadata table, of mints
    TokenId,
    Field,      \* fields of a document
    Update,     \* calls of updateMetadata
    None        \* no row; the value a field was minted with

ASSUME MetadataAssumption == None \notin Row /\ None \notin Update

VARIABLES
    range,      \* token_id of each row
    there,      \* rows that have been created
    doc,        \* meta_data of each row
    want,       \* token_id and fields of each update
    pc,         \* where the update is
    found,      \* the row it works on
    copy,       \* its document in memory
    answer,     \* what the caller has been given
    saved,      \* history: updates whose save has reached the table
    seen,       \* history: those saved before this one read its row
    overtaken   \* history: those over which one was saved that had not seen them

updateVars == <<pc, found, copy, answer>>
tableVars == <<range, there, doc>>
saveVars == <<saved, overtaken>>
vars == <<tableVars, want, updateVars, saveVars, seen>>

Document == [Field -> Update \cup {None}]
\* An update sets at least one field, for a token.
Request == [id: TokenId, fields: SUBSET Field \ {{}}]

Minted == [f \in Field |-> None]

MetadataTypeOK ==
    /\ range \in [Row -> SUBSET TokenId]
    /\ there \subseteq Row
    /\ doc \in [Row -> Document]
    /\ want \in [Update -> Request]
    /\ pc \in [Update -> {"idle", "find", "save", "done", "lost"}]
    /\ found \in [Update -> Row \cup {None}]
    /\ copy \in [Update -> Document]
    /\ answer \in [Update -> {"none", "ok", "error"}]
    /\ saved \subseteq Update
    /\ seen \in [Update -> SUBSET Update]
    /\ overtaken \subseteq saved
    /\ \A r \in Row \ there : doc[r] = Minted
    /\ \A u \in Update : pc[u] = "save" => found[u] \in there

Init ==
    /\ range \in [Row -> SUBSET TokenId \ {{}}]
    /\ there = {}
    /\ doc = [r \in Row |-> Minted]
    /\ want \in [Update -> Request]
    /\ pc = [u \in Update |-> "idle"]
    /\ found = [u \in Update |-> None]
    /\ copy = [u \in Update |-> Minted]
    /\ answer = [u \in Update |-> "none"]
    /\ saved = {}
    /\ seen = [u \in Update |-> {}]
    /\ overtaken = {}

\* contains: the rows, of this slug, whose range has the id.
Lookup(id) == {r \in there : id \in range[r]}

\* Mutant: a document of the new fields only.
Replaced(d, u) == [f \in Field |-> IF f \in want[u].fields THEN u ELSE None]

\* The fields of the update in a document d, the other fields as they are.
Merge(d, u) == [f \in Field |-> IF f \in want[u].fields THEN u ELSE d[f]]

End(u, a) ==
    /\ pc' = [pc EXCEPT ![u] = "done"]
    /\ answer' = [answer EXCEPT ![u] = a]

-----------------------------------------------------------------------------
\* TokensMintedHandler creates a row, under ids that another one may have (Mint).
NewRow(r) ==
    /\ r \notin there
    /\ there' = there \cup {r}
    /\ UNCHANGED <<range, doc, want, updateVars, saveVars, seen>>

\* A client's command has reached its handler.
Ask(u) ==
    /\ pc[u] = "idle"
    /\ pc' = [pc EXCEPT ![u] = "find"]
    /\ UNCHANGED <<tableVars, want, found, copy, answer, saveVars, seen>>

\* Mutant: the row is looked for among those still to be created, too.
FindUncreated(u) ==
    /\ pc[u] = "find"
    /\ \E r \in Row :
        /\ want[u].id \in range[r]
        /\ found' = [found EXCEPT ![u] = r]
        /\ copy' = [copy EXCEPT ![u] = Merge(doc[r], u)]
    /\ pc' = [pc EXCEPT ![u] = "save"]
    /\ seen' = [seen EXCEPT ![u] = saved]
    /\ UNCHANGED <<tableVars, want, answer, saveVars>>

\* getOneObject reads any of the rows that contain the id; in memory the fields
\* are set and the save is started.
FindRow(u) ==
    /\ pc[u] = "find"
    /\ \E r \in Lookup(want[u].id) :
        /\ found' = [found EXCEPT ![u] = r]
        /\ copy' = [copy EXCEPT ![u] = Merge(doc[r], u)]
    /\ pc' = [pc EXCEPT ![u] = "save"]
    /\ seen' = [seen EXCEPT ![u] = saved]
    /\ UNCHANGED <<tableVars, want, answer, saveVars>>

\* No row has the id, or the table cannot be read.
FindFails(u) ==
    /\ pc[u] = "find"
    /\ End(u, "error")
    /\ UNCHANGED <<tableVars, want, found, copy, saveVars, seen>>

\* What a save that reaches the table does to it.  Updates of the row that were saved
\* after u had read it are written over.
Write(u) ==
    /\ doc' = [doc EXCEPT ![found[u]] = copy[u]]
    /\ saved' = saved \cup {u}
    /\ overtaken' = overtaken \cup {v \in saved : found[v] = found[u] /\ v \notin seen[u]}

\* metadata.save() writes the document as it is in memory.
Save(u) ==
    /\ pc[u] = "save"
    /\ Write(u)
    /\ End(u, "ok")
    /\ UNCHANGED <<range, there, want, found, copy, seen>>

\* Mutant: a failing save is logged and not reported.
SaveFailsSilently(u) ==
    /\ pc[u] = "save"
    /\ End(u, "ok")
    /\ UNCHANGED <<doc, saveVars, range, there, want, found, copy, seen>>

\* The save fails, before or after the table took it.
SaveFails(u) ==
    /\ pc[u] = "save"
    /\ Write(u) \/ UNCHANGED <<doc, saveVars>>
    /\ End(u, "error")
    /\ UNCHANGED <<range, there, want, found, copy, seen>>

\* The process ends: updates under way are lost with their documents, one that
\* is being saved perhaps after the table took it.
Crash ==
    /\ \E u \in Update : pc[u] \in {"find", "save"}
    /\ \/ UNCHANGED <<doc, saveVars>>
       \/ \E u \in Update : pc[u] = "save" /\ Write(u)
    /\ pc' = [u \in Update |-> IF pc[u] \in {"find", "save"} THEN "lost" ELSE pc[u]]
    /\ UNCHANGED <<range, there, want, found, copy, answer, seen>>

Quiet == (\A u \in Update : pc[u] \in {"done", "lost"}) /\ UNCHANGED vars

Next ==
    \/ \E r \in Row : NewRow(r)
    \/ \E u \in Update : Ask(u) \/ FindRow(u) \/ FindFails(u) \/ Save(u) \/ SaveFails(u)
    \/ Crash
    \/ Quiet

Spec == Init /\ [][Next]_vars

-----------------------------------------------------------------------------
(* Properties.                                                             *)

\* The value is u's, or that of an update that has read what u wrote.
Survives(u, value) == value = u \/ (value \in saved /\ u \in seen[value])

\* Whole documents are saved, so that of two updates that have both read the row
\* before either is saved, the one that is saved last takes the other's fields
\* away, also different ones.  But that one stays, and so does every update that is
\* not overtaken in this way: field by field, until a later update of that field,
\* beside crashes, failing saves and updates of other rows and fields.
LastUpdatesKept ==
    \A u \in saved \ overtaken :
        \A f \in want[u].fields : Survives(u, doc[found[u]][f])

\* An update answered with success, and not overtaken, is in one of the rows that
\* getMetadata may answer the token with, also when a row of another mint has the
\* token, too; so it is served for sure when there is no other row.
UpdatesAreServed ==
    \A u \in Update : answer[u] = "ok" /\ u \notin overtaken =>
        \E r \in Lookup(want[u].id) : \A f \in want[u].fields : Survives(u, doc[r][f])
=============================================================================
