--------------------------- MODULE Metadata_proofs ---------------------------
(* Proofs of the properties of Metadata, for any rows, tokens, fields and      *)
(* updates.                                                                    *)
EXTENDS Metadata, TLAPS

\* Who has not saved yet, and whom an update may have seen.
SavesAtEnd ==
    \A u \in Update :
        /\ pc[u] \in {"idle", "find", "save"} => u \notin saved /\ answer[u] = "none"
        /\ answer[u] = "ok" => u \in saved
        /\ seen[u] \subseteq saved

\* The row of an update is there and has its token.
FoundHasToken ==
    \A u \in Update : pc[u] = "save" \/ u \in saved =>
        found[u] \in there /\ want[u].id \in range[found[u]]

\* A value that some saved update of a token of the row has written to the field.
FromRange(r, f, value) ==
    value # None => \E u \in saved : /\ value = u /\ want[u].id \in range[r]
                                     /\ f \in want[u].fields

\* A document about to be saved has the update's own fields, and in the others
\* what updates of the row's tokens have left, ...
CopyIsMerged ==
    \A u \in Update : pc[u] = "save" => \A f \in Field :
        IF f \in want[u].fields THEN copy[u][f] = u
        ELSE FromRange(found[u], f, copy[u][f])

\* ... in which nothing that it has seen is missing.
CopyKeepsSeen ==
    \A v \in Update : pc[v] = "save" =>
        \A u \in seen[v] \ overtaken : found[u] = found[v] =>
            \A f \in want[u].fields \ want[v].fields : Survives(u, copy[v][f])

\* A token's metadata changes only through an update of a token of its row: one
\* mint's documents are never written by updates of another mint's tokens.
UpdatesStayInRange ==
    \A r \in Row : \A f \in Field : doc[r][f] # None =>
        \E u \in saved : doc[r][f] = u /\ want[u].id \in range[r] /\ f \in want[u].fields

CopyInv == CopyIsMerged /\ CopyKeepsSeen
TableInv == UpdatesStayInRange /\ LastUpdatesKept
PlaceInv == MetadataTypeOK /\ SavesAtEnd /\ FoundHasToken
MetadataInv == PlaceInv /\ CopyInv /\ TableInv

-----------------------------------------------------------------------------
\* Before the first mint there is no row, and no update has begun.
LEMMA MetadataInit == Init => MetadataInv
<1> SUFFICES ASSUME Init PROVE MetadataInv
  OBVIOUS
<1>1. PlaceInv
  BY DEF Init, PlaceInv, MetadataTypeOK, SavesAtEnd, FoundHasToken, Document, Minted
<1>2. CopyInv
  BY DEF Init, CopyInv, CopyIsMerged, CopyKeepsSeen
<1>3. TableInv
  BY DEF Init, TableInv, UpdatesStayInRange, LastUpdatesKept, Minted
<1>4. QED
  BY <1>1, <1>2, <1>3 DEF MetadataInv

\* What survives goes on surviving, when updates that are saved keep what they have
\* seen.
LEMMA SurvivalLasts ==
    ASSUME saved \subseteq saved', \A u \in saved : seen'[u] = seen[u],
           NEW u, NEW value, Survives(u, value)
    PROVE  Survives(u, value)'
  BY DEF Survives

\* A save of u, whatever becomes of its caller: the table keeps every update that
\* u has seen, and u.
LEMMA WriteKeeps ==
    ASSUME MetadataInv, NEW u \in Update, pc[u] = "save", Write(u),
           UNCHANGED <<range, there, want, found, copy, seen>>,
           \A v \in Update : pc'[v] = "save" => pc[v] = "save"
    PROVE  CopyInv' /\ TableInv'
<1> USE DEF MetadataInv, PlaceInv, CopyInv, TableInv, Write
<1>1. u \notin saved /\ saved' = saved \cup {u} /\ found[u] \in Row
  BY DEF SavesAtEnd, MetadataTypeOK
<1>2. /\ overtaken \subseteq overtaken'
      /\ \A v \in Update : \A value : Survives(v, value) => Survives(v, value)'
  BY <1>1, SurvivalLasts
<1>3. \A r \in Row : doc'[r] = IF r = found[u] THEN copy[u] ELSE doc[r]
  BY <1>1 DEF MetadataTypeOK
<1>4. \A r \in Row, f \in Field : \A value : FromRange(r, f, value) => FromRange(r, f, value)'
  BY <1>1 DEF FromRange
<1>5. CopyIsMerged'
  BY <1>4 DEF CopyIsMerged, MetadataTypeOK
<1>6. CopyKeepsSeen'
  <2> SUFFICES ASSUME NEW v \in Update, pc[v] = "save", NEW w \in seen[v] \ overtaken',
                      found[w] = found[v],
                      NEW f \in want[w].fields \ want[v].fields
               PROVE  Survives(w, copy[v][f])'
    BY DEF CopyKeepsSeen
  <2>1. w \in Update
    BY DEF MetadataTypeOK
  <2>2. QED
    BY <2>1, <1>2 DEF CopyKeepsSeen
<1>7. UpdatesStayInRange'
  <2> SUFFICES ASSUME NEW r \in Row, NEW f \in Field PROVE FromRange(r, f, doc[r][f])'
    BY DEF UpdatesStayInRange, FromRange
  <2>1. CASE r # found[u]
    BY <2>1, <1>3, <1>4 DEF UpdatesStayInRange, FromRange
  <2>2. CASE r = found[u] /\ f \in want[u].fields
    BY <2>2, <1>1, <1>3 DEF CopyIsMerged, FoundHasToken, FromRange
  <2>3. CASE r = found[u] /\ f \notin want[u].fields
    BY <2>3, <1>3, <1>4 DEF CopyIsMerged
  <2>4. QED
    BY <2>1, <2>2, <2>3
<1>8. LastUpdatesKept'
  <2> SUFFICES ASSUME NEW w \in saved' \ overtaken', NEW f \in want[w].fields
               PROVE  Survives(w, doc[found[w]][f])'
    BY DEF LastUpdatesKept
  <2>1. w \in Update /\ found[w] \in Row /\ f \in Field /\ w \notin overtaken
    BY <1>1, <1>2 DEF MetadataTypeOK, FoundHasToken, Request
  <2>2. CASE w = u
    BY <2>1, <2>2, <1>3 DEF CopyIsMerged, Survives
  <2>3. CASE w # u /\ found[w] # found[u]
    BY <2>1, <2>3, <1>1, <1>2, <1>3 DEF LastUpdatesKept
  <2>4. CASE w # u /\ found[w] = found[u]
    <3>1. w \in seen[u]
      BY <2>4, <1>1
    <3>2. CASE f \in want[u].fields
      BY <2>1, <2>4, <3>1, <3>2, <1>1, <1>3 DEF CopyIsMerged, Survives
    <3>3. CASE f \notin want[u].fields
      BY <2>1, <2>4, <3>1, <3>3, <1>2, <1>3 DEF CopyKeepsSeen
    <3>4. QED
      BY <3>2, <3>3
  <2>5. QED
    BY <2>2, <2>3, <2>4
<1>9. QED
  BY <1>5, <1>6, <1>7, <1>8

\* A step that writes nothing to the documents and finds nothing.
LEMMA NoWriteKeeps ==
    ASSUME MetadataInv, UNCHANGED <<range, doc, want, found, copy, saveVars, seen>>,
           \A v \in Update : pc'[v] = "save" => pc[v] = "save"
    PROVE  CopyInv' /\ TableInv'
  BY DEF MetadataInv, CopyInv, CopyIsMerged, CopyKeepsSeen, FromRange, TableInv,
     UpdatesStayInRange, LastUpdatesKept, Survives, saveVars

\* Finding a row: the merged document keeps what the row had.
LEMMA FindKeeps == ASSUME MetadataInv, NEW u \in Update, FindRow(u) PROVE MetadataInv'
<1> USE DEF MetadataInv, PlaceInv, CopyInv, TableInv
<1>1. PICK r \in Lookup(want[u].id) : /\ found' = [found EXCEPT ![u] = r]
                                      /\ copy' = [copy EXCEPT ![u] = Merge(doc[r], u)]
  BY DEF FindRow
<1>2. /\ r \in there /\ r \in Row /\ want[u].id \in range[r]
      /\ pc[u] = "find" /\ u \notin saved
      /\ pc' = [pc EXCEPT ![u] = "save"] /\ seen' = [seen EXCEPT ![u] = saved]
      /\ UNCHANGED <<range, there, doc, want, answer, saved, overtaken>>
  BY <1>1 DEF FindRow, Lookup, SavesAtEnd, MetadataTypeOK, tableVars, saveVars
<1>3. Merge(doc[r], u) \in Document
  BY <1>2 DEF Merge, Document, MetadataTypeOK
<1>4. PlaceInv'
  <2>1. MetadataTypeOK'
    BY <1>1, <1>2, <1>3 DEF MetadataTypeOK
  <2>2. SavesAtEnd' /\ FoundHasToken'
    BY <1>1, <1>2 DEF SavesAtEnd, FoundHasToken, MetadataTypeOK
  <2>3. QED
    BY <2>1, <2>2
<1>5. \A v \in Update : \A value : Survives(v, value) => Survives(v, value)'
  <2>1. \A v \in saved : seen'[v] = seen[v]
    BY <1>2 DEF MetadataTypeOK
  <2>2. QED
    BY <2>1, <1>2, SurvivalLasts
<1>6. CopyIsMerged'
  <2> SUFFICES ASSUME NEW v \in Update, pc'[v] = "save", NEW f \in Field
               PROVE  IF f \in want[v].fields THEN copy'[v][f] = v
                      ELSE FromRange(found[v], f, copy[v][f])'
    BY <1>2 DEF CopyIsMerged
  <2>1. CASE v = u
    <3>1. copy'[u][f] = IF f \in want[u].fields THEN u ELSE doc[r][f]
      BY <1>1 DEF Merge, MetadataTypeOK
    <3>2. found'[u] = r
      BY <1>1 DEF MetadataTypeOK
    <3>3. QED
      BY <2>1, <3>1, <3>2, <1>2 DEF UpdatesStayInRange, FromRange
  <2>2. CASE v # u
    BY <2>2, <1>1, <1>2 DEF CopyIsMerged, FromRange, MetadataTypeOK
  <2>3. QED
    BY <2>1, <2>2
<1>7. CopyKeepsSeen'
  <2> SUFFICES ASSUME NEW v \in Update, pc'[v] = "save", NEW w \in seen'[v] \ overtaken,
                      found'[w] = found'[v],
                      NEW f \in want[w].fields \ want[v].fields
               PROVE  Survives(w, copy[v][f])'
    BY <1>2 DEF CopyKeepsSeen
  <2>1. w \in saved /\ w \in Update /\ w # u /\ f \in Field
    BY <1>2 DEF SavesAtEnd, MetadataTypeOK, Request
  <2>2. found'[w] = found[w]
    BY <2>1, <1>1 DEF MetadataTypeOK
  <2>3. CASE v # u
    <3>1. /\ pc[v] = "save" /\ w \in seen[v] /\ found'[v] = found[v]
          /\ copy'[v] = copy[v]
      BY <2>3, <1>1, <1>2 DEF MetadataTypeOK
    <3>2. Survives(w, copy[v][f])
      BY <2>2, <3>1 DEF CopyKeepsSeen
    <3>3. QED
      BY <2>1, <3>1, <3>2, <1>5
  <2>4. CASE v = u
    <3>1. copy'[u][f] = IF f \in want[u].fields THEN u ELSE doc[r][f]
      BY <2>1, <1>1 DEF Merge, MetadataTypeOK
    <3>2. found[w] = r
      BY <2>2, <2>4, <1>1 DEF MetadataTypeOK
    <3>3. QED
      BY <2>1, <2>2, <2>4, <3>1, <3>2, <1>5 DEF LastUpdatesKept
  <2>5. QED
    BY <2>3, <2>4
<1>8. UpdatesStayInRange'
  BY <1>2 DEF UpdatesStayInRange
<1>9. LastUpdatesKept'
  <2> SUFFICES ASSUME NEW w \in saved \ overtaken, NEW f \in want[w].fields
               PROVE  Survives(w, doc[found[w]][f])'
    BY <1>2 DEF LastUpdatesKept
  <2>1. w \in Update /\ found'[w] = found[w]
    BY <1>1, <1>2 DEF MetadataTypeOK
  <2>2. QED
    BY <2>1, <1>2, <1>5 DEF LastUpdatesKept
<1>10. QED
  BY <1>4, <1>6, <1>7, <1>8, <1>9

\* Every step of an update or a mint keeps the invariant.
LEMMA MetadataStep == MetadataInv /\ [Next]_vars => MetadataInv'
<1> SUFFICES ASSUME MetadataInv, [Next]_vars PROVE MetadataInv'
  OBVIOUS
<1> USE DEF MetadataInv, PlaceInv, MetadataTypeOK, SavesAtEnd, FoundHasToken, saveVars
<1>1. ASSUME NEW r \in Row, NewRow(r) PROVE MetadataInv'
  <2>1. PlaceInv'
    BY <1>1 DEF NewRow, updateVars
  <2>2. QED
    BY <1>1, <2>1, NoWriteKeeps DEF NewRow, updateVars
<1>2. ASSUME NEW u \in Update, Ask(u) PROVE MetadataInv'
  <2>1. PlaceInv'
    BY <1>2 DEF Ask, tableVars
  <2>2. QED
    BY <1>2, <2>1, NoWriteKeeps DEF Ask, tableVars
<1>3. ASSUME NEW u \in Update, FindRow(u) PROVE MetadataInv'
  BY <1>3, FindKeeps
<1>4. ASSUME NEW u \in Update, FindFails(u) PROVE MetadataInv'
  <2>1. PlaceInv'
    BY <1>4 DEF FindFails, End, tableVars
  <2>2. QED
    BY <1>4, <2>1, NoWriteKeeps DEF FindFails, End, tableVars
<1>5. ASSUME NEW u \in Update, Save(u) PROVE MetadataInv'
  <2>1. PlaceInv'
    BY <1>5 DEF Save, Write, End
  <2>2. CopyInv' /\ TableInv'
    BY <1>5, WriteKeeps DEF Save, End
  <2>3. QED
    BY <2>1, <2>2
<1>6. ASSUME NEW u \in Update, SaveFails(u) PROVE MetadataInv'
  <2>1. PlaceInv'
    BY <1>6 DEF SaveFails, Write, End
  <2>2. CASE Write(u)
    BY <1>6, <2>1, <2>2, WriteKeeps DEF SaveFails, End
  <2>3. CASE UNCHANGED <<doc, saveVars>>
    BY <1>6, <2>1, <2>3, NoWriteKeeps DEF SaveFails, End
  <2>4. QED
    BY <1>6, <2>2, <2>3 DEF SaveFails
<1>7. CASE Crash
  <2>1. PlaceInv'
    BY <1>7 DEF Crash, Write
  <2>2. \A v \in Update : pc'[v] = "save" => pc[v] = "save"
    BY <1>7 DEF Crash
  <2>3. CASE UNCHANGED <<doc, saveVars>>
    BY <1>7, <2>1, <2>2, <2>3, NoWriteKeeps DEF Crash
  <2>4. ASSUME NEW u \in Update, pc[u] = "save", Write(u) PROVE MetadataInv'
    BY <1>7, <2>1, <2>2, <2>4, WriteKeeps DEF Crash
  <2>5. QED
    BY <1>7, <2>3, <2>4 DEF Crash
<1>8. CASE UNCHANGED vars
  <2>1. PlaceInv'
    BY <1>8 DEF vars, tableVars, updateVars
  <2>2. QED
    BY <1>8, <2>1, NoWriteKeeps DEF vars, tableVars, updateVars
<1>9. QED
  BY <1>1, <1>2, <1>3, <1>4, <1>5, <1>6, <1>7, <1>8 DEF Next, Quiet

-----------------------------------------------------------------------------
\* The inductive invariant holds in every reachable state: the documents, and
\* the copies of them that updates have in memory, keep what nobody contends.
THEOREM MetadataInvariance == Spec => []MetadataInv
  BY MetadataInit, MetadataStep, PTL DEF Spec

\* The variables have their types, and an update that saves has found a row.
THEOREM MetadataTypesCorrect == Spec => []MetadataTypeOK
<1>1. MetadataInv => MetadataTypeOK
  BY DEF MetadataInv, PlaceInv
<1>2. QED
  BY MetadataInvariance, <1>1, PTL

\* What a saved update has written stays until one is saved that has read it, or
\* that has overtaken it, whatever else runs: of rivals, the last one stays.
THEOREM LastUpdateNotLost == Spec => []LastUpdatesKept
<1>1. MetadataInv => LastUpdatesKept
  BY DEF MetadataInv, TableInv
<1>2. QED
  BY MetadataInvariance, <1>1, PTL

\* ... and is in a row that getMetadata may answer the token with.
THEOREM UpdatesServed == Spec => []UpdatesAreServed
<1>1. MetadataInv => UpdatesAreServed
  BY DEF MetadataInv, PlaceInv, TableInv, MetadataTypeOK, SavesAtEnd, FoundHasToken,
     LastUpdatesKept, UpdatesAreServed, Lookup
<1>2. QED
  BY MetadataInvariance, <1>1, PTL

\* No document is written by an update of another row's token.
THEOREM UpdatesInRange == Spec => []UpdatesStayInRange
<1>1. MetadataInv => UpdatesStayInRange
  BY DEF MetadataInv, TableInv
<1>2. QED
  BY MetadataInvariance, <1>1, PTL
=============================================================================
