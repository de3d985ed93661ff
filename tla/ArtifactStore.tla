----------------------------- MODULE ArtifactStore -----------------------------
(***************************************************************************)
(* The requests against createSqliteArtifactStore (store.ts:251-427): a    *)
(* table with PRIMARY KEY (id, version), each call one SQL statement.  It  *)
(* is at the same time what the in-memory store is held to                 *)
(* (sqlite-store-conformance.test.ts:17-21).                               *)
(***************************************************************************)
EXTENDS ArtifactRequests

VARIABLE table

storeVars == <<requestVars, table>>

RowsOf(id) == {row \in table : row.id = id}

(* MAX(version)                                                            *)
IsLatest(row) ==
    /\ row \in table
    /\ \A other \in RowsOf(row.id) : other.version <= row.version

(* Type invariant: the table holds rows.                                   *)
TypeOK == RequestsTypeOK /\ table \subseteq Row

Init == RequestsInit /\ table = {}

----------------------------------------------------------------------------
Receive(r) ==
    /\ \/ \E id \in Ids, v \in Versions : Post(r, [id |-> id, version |-> v, by |-> r])
       \/ Admit(r)
       \/ Reject(r)
    /\ UNCHANGED table

(* existing = await store.get(id); existing.version >= toInsert.version.   *)
(* The latest version reaches the caller's if any version does.            *)
Get(r) ==
    /\ At(r, "getting")
    /\ Found(r, RowsOf(draft[r].id),
             \E row \in RowsOf(draft[r].id) : row.version >= draft[r].version)
    /\ UNCHANGED table

(* await store.nextVersion(id)                                             *)
Number(r) ==
    /\ At(r, "numbering")
    /\ \/ RowsOf(draft[r].id) = {} /\ Numbered(r, 1)
       \/ \E row \in RowsOf(draft[r].id) : IsLatest(row) /\ Numbered(r, row.version + 1)
    /\ UNCHANGED table

Taken(row) == \E other \in table : SameKey(other, row)

(* await store.insert(toInsert): the primary key refuses a second row.     *)
Insert(r) ==
    /\ At(r, "inserting")
    /\ Inserted(r, Taken(draft[r]))
    /\ table' = IF Taken(draft[r]) THEN table ELSE table \cup {draft[r]}

(* DELETE ... WHERE id = ?, and DELETE ... WHERE id = ? AND version = ?.   *)
(* Without a row to delete the answer is 404 and nothing changes.          *)
Delete(rows) ==
    /\ rows # {}
    /\ Gone(rows)
    /\ table' = table \ rows

Remove(id) == Delete(RowsOf(id))

RemoveVersion(id, v) == Delete({row \in RowsOf(id) : row.version = v})

----------------------------------------------------------------------------
(* SELECT ... WHERE ...: a filter is the set of requests whose artifacts   *)
(* match.                                                                  *)
ListAll(filter) == {row \in table : row.by \in filter}

(* Joined with MAX(version) of the rows of the id that match.              *)
ListLatest(filter) ==
    {row \in ListAll(filter) :
        \A other \in ListAll(filter) : other.id = row.id => other.version <= row.version}

----------------------------------------------------------------------------
Next ==
    \/ \E r \in Requests : Receive(r) \/ Get(r) \/ Number(r) \/ Insert(r)
    \/ \E id \in Ids : Remove(id)
    \/ \E row \in table : RemoveVersion(row.id, row.version)

Spec == Init /\ [][Next]_storeVars
=============================================================================
