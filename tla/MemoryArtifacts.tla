---------------------------- MODULE MemoryArtifacts ----------------------------
(***************************************************************************)
(* The requests against createInMemoryArtifactStore (store.ts:61-171): a   *)
(* map from id to the versions of the artifact, ascending.  An id without  *)
(* versions is not in the map; here its sequence is empty.                 *)
(***************************************************************************)
EXTENDS ArtifactRequests, Sequences, SequencesExt

VARIABLE byId

memVars == <<requestVars, byId>>

AllRows == UNION {ToSet(byId[id]) : id \in Ids}

Ascending(rows) ==
    \A i, j \in 1..Len(rows) : i < j => rows[i].version < rows[j].version

(* Type invariant; the versions of an id are its own and ascend, which is  *)
(* what makes the last one the latest (store.ts:66-67, 108).               *)
MemTypeOK ==
    /\ RequestsTypeOK
    /\ DOMAIN byId = Ids
    /\ \A id \in Ids :
          /\ byId[id] \in Seq(Row)
          /\ Ascending(byId[id])
          /\ \A row \in ToSet(byId[id]) : row.id = id

MemInit == RequestsInit /\ byId = [id \in Ids |-> <<>>]

----------------------------------------------------------------------------
Older(a, b) == a.version < b.version

(* memGet without a version: the last one.                                 *)
MemGet(r) ==
    /\ At(r, "getting")
    /\ LET versions == byId[draft[r].id]
       IN Found(r, ToSet(versions),
                versions # <<>> /\ Last(versions).version >= draft[r].version)
    /\ UNCHANGED byId

(* As a count of the versions, which is wrong once one has been deleted.   *)
MutNextVersion(id) == Len(byId[id]) + 1

MemNextVersion(id) == IF byId[id] = <<>> THEN 1 ELSE Last(byId[id]).version + 1

MemNumber(r) ==
    /\ At(r, "numbering")
    /\ Numbered(r, MemNextVersion(draft[r].id))
    /\ UNCHANGED byId

(* Without the check for the version.                                      *)
MutTaken(row) == FALSE

MemTaken(row) == \E other \in ToSet(byId[row.id]) : SameKey(other, row)

(* [...existing, artifact].sort((a, b) => a.version - b.version): what is  *)
(* there ascends, so the sort brings the new row before the newer ones.    *)
Place(versions, row) ==
    CHOOSE n \in 1 .. Len(versions) + 1 :
        \A i \in 1 .. Len(versions) : Older(row, versions[i]) <=> i >= n

With(versions, row) == InsertAt(versions, Place(versions, row), row)

MemInsert(r) ==
    /\ At(r, "inserting")
    /\ Inserted(r, MemTaken(draft[r]))
    /\ byId' = IF MemTaken(draft[r]) THEN byId
               ELSE [byId EXCEPT ![draft[r].id] = With(@, draft[r])]

(* memDelete of all versions: a missing id is left alone.                  *)
MemRemove(id) ==
    /\ byId[id] # <<>>
    /\ Gone(ToSet(byId[id]))
    /\ byId' = [byId EXCEPT ![id] = <<>>]

(* Drops every version up to the one named.                                *)
MutWithout(versions, v) == SelectSeq(versions, LAMBDA row : row.version > v)

(* versions.filter((a) => a.version !== version): an ascending sequence    *)
(* loses one row at most.                                                  *)
PlaceOf(versions, v) == CHOOSE i \in 1 .. Len(versions) : versions[i].version = v
Without(versions, v) == RemoveAt(versions, PlaceOf(versions, v))

(* memDelete of one version; one that is not there is left alone.          *)
MemRemoveVersion(id, v) ==
    /\ \E row \in ToSet(byId[id]) : row.version = v
    /\ Gone({row \in ToSet(byId[id]) : row.version = v})
    /\ byId' = [byId EXCEPT ![id] = Without(@, v)]

MemServe(r) ==
    \/ (Admit(r) \/ Reject(r)) /\ UNCHANGED byId
    \/ MemGet(r)
    \/ MemNumber(r)
    \/ MemInsert(r)

MemDelete ==
    \/ \E id \in Ids : MemRemove(id)
    \/ \E row \in AllRows : MemRemoveVersion(row.id, row.version)

----------------------------------------------------------------------------
(* memList.  A filter (session, kind) looks at the contents of a row: it   *)
(* is the set of requests whose artifacts match.                           *)
Matching(rows, filter) == {row \in rows : row.by \in filter}

MemLatest(filter) ==
    UNION {Matching({Last(byId[id])}, filter) : id \in {i \in Ids : byId[i] # <<>>}}

MemAll(filter) == UNION {Matching(ToSet(byId[id]), filter) : id \in Ids}

(* The in-memory store is indistinguishable from the table: every answer a *)
(* request gets from it, and every change, is one the SQL gives            *)
(* (sqlite-store-conformance.test.ts:17-21).                               *)
Table == INSTANCE ArtifactStore WITH table <- AllRows

ImplementsTable == Table!Spec

(* Both stores list the same artifacts: all versions under any filter, and *)
(* the latest of each id when nothing is filtered (store.ts:130-147 against *)
(* 371-401).  Latest with a filter is where they part: the memory store    *)
(* filters the latest versions, SQL takes the latest of the filtered ones. *)
ListsAgree ==
    /\ \A filter \in SUBSET Requests : MemAll(filter) = Table!ListAll(filter)
    /\ MemLatest(Requests) = Table!ListLatest(Requests)
=============================================================================
