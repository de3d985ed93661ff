-------------------------- MODULE ArtifactStoreProofs --------------------------
(* Safety of the artifact requests against the table, for any number of    *)
(* requests and artifacts.                                                 *)
EXTENDS ArtifactStore, TLAPS

(* PRIMARY KEY (id, version).                                              *)
PrimaryKey == \A a, b \in table : SameKey(a, b) => a = b

(* Every artifact carries the request that wrote it.                       *)
Authored == \A r \in Requests : pc[r] # "unsent" => draft[r].by = r

(* What was answered 201 is in the table until it is deleted.              *)
Kept == \A r \in Requests : pc[r] = "created" => draft[r] \in table \cup deleted

(* What a request remembers of its id is there and of that id.             *)
Remembered ==
    \A r \in Requests :
        /\ pc[r] \in {"unsent", "received", "getting"} => outlived[r] = {}
        /\ outlived[r] # {} => outlived[r] \subseteq RowsOf(draft[r].id)

(* From the moment its version is chosen an artifact is the newest of what *)
(* it knows.                                                               *)
Newest ==
    \A r \in Requests : pc[r] \in {"inserting", "created"} =>
        \A seen \in outlived[r] : draft[r].version > seen.version

IInv ==
    /\ TypeOK
    /\ PrimaryKey
    /\ Authored
    /\ Kept
    /\ Remembered
    /\ Newest

LEMMA InitInv == Init => IInv
BY ArtifactAssumption
DEF Init, RequestsInit, IInv, TypeOK, RequestsTypeOK, Progress, PrimaryKey, Authored,
    Kept, Remembered, Newest

(* What the requests know, apart from the table: a row of theirs is a Row.  *)
LEMMA DraftIsRow ==
    ASSUME TypeOK, NEW r \in Requests, pc[r] # "unsent"
    PROVE  /\ draft[r] \in Row
           /\ draft[r].id \in Ids
           /\ draft[r].version \in Nat \ {0}
BY DEF TypeOK, RequestsTypeOK, Row

(* Post, Admit and Reject do not touch what the invariant relates.         *)
LEMMA ReceiveInv ==
    ASSUME IInv, NEW r \in Requests, Receive(r)
    PROVE  IInv'
<1> USE DEF IInv, TypeOK, RequestsTypeOK, At, GoTo
<1>1. CASE \E id \in Ids, v \in Versions : Post(r, [id |-> id, version |-> v, by |-> r])
  <2> PICK id \in Ids, v \in Versions : Post(r, [id |-> id, version |-> v, by |-> r])
    BY <1>1
  <2>1. [id |-> id, version |-> v, by |-> r] \in Row /\ v \in Nat \ {0}
    BY ArtifactAssumption DEF Row
  <2>2. TypeOK'
    BY <2>1, ArtifactAssumption DEF Receive, Post, Progress
  <2>3. PrimaryKey' /\ Authored' /\ Kept'
    BY <2>1 DEF Receive, Post, PrimaryKey, Authored, Kept, Progress
  <2>4. Remembered' /\ Newest'
    BY <2>1 DEF Receive, Post, Remembered, Newest, RowsOf, Progress
  <2> QED BY <2>2, <2>3, <2>4
<1>2. CASE Admit(r) \/ Reject(r)
  <2>1. TypeOK'
    BY <1>2 DEF Receive, Admit, Reject, Progress
  <2>2. PrimaryKey' /\ Authored' /\ Kept'
    BY <1>2 DEF Receive, Admit, Reject, PrimaryKey, Authored, Kept
  <2>3. Remembered' /\ Newest'
    BY <1>2 DEF Receive, Admit, Reject, Remembered, Newest, RowsOf
  <2> QED BY <2>1, <2>2, <2>3
<1> QED BY <1>1, <1>2 DEF Receive

(* get: when no stored version reaches the caller's, the caller's is newest. *)
LEMMA GetInv ==
    ASSUME IInv, NEW r \in Requests, Get(r)
    PROVE  IInv'
<1> USE DEF IInv, At, GoTo, Get, Found
<1>1. TypeOK'
  BY DEF TypeOK, RequestsTypeOK, Progress, RowsOf
<1>2. PrimaryKey' /\ Authored' /\ Kept'
  BY DEF PrimaryKey, Authored, Kept, TypeOK, RequestsTypeOK
<1>3. Remembered'
  BY DEF Remembered, RowsOf, TypeOK, RequestsTypeOK
<1>4. Newest'
  <2>1. draft[r].version \in Nat /\ \A row \in table : row.version \in Nat
    BY DraftIsRow DEF TypeOK, Row
  <2>2. ASSUME pc'[r] = "inserting"
        PROVE  \A seen \in RowsOf(draft[r].id) : draft[r].version > seen.version
    BY <2>1, <2>2 DEF TypeOK, RequestsTypeOK, RowsOf
  <2> QED BY <2>2 DEF Newest, TypeOK, RequestsTypeOK
<1> QED BY <1>1, <1>2, <1>3, <1>4

(* nextVersion: one more than the largest exceeds all that is remembered.  *)
LEMMA NumberInv ==
    ASSUME IInv, NEW r \in Requests, Number(r)
    PROVE  IInv'
<1> USE DEF IInv, At, GoTo, Numbered
<1>1. PICK version \in Nat \ {0} :
        /\ Numbered(r, version)
        /\ \A row \in RowsOf(draft[r].id) : version > row.version
  <2>1. \A row \in table : row \in Row /\ row.version \in Nat
    BY DEF TypeOK, Row
  <2>2. CASE RowsOf(draft[r].id) = {} /\ Numbered(r, 1)
    <3>1. 1 \in Nat \ {0} /\ \A row \in RowsOf(draft[r].id) : 1 > row.version
      BY <2>2
    <3> HIDE DEF Numbered
    <3> QED BY <2>2, <3>1
  <2>3. CASE \E row \in RowsOf(draft[r].id) : IsLatest(row) /\ Numbered(r, row.version + 1)
    <3> PICK row \in RowsOf(draft[r].id) : IsLatest(row) /\ Numbered(r, row.version + 1)
      BY <2>3
    <3>1. row.version + 1 \in Nat \ {0}
      BY <2>1 DEF RowsOf
    <3>2. \A other \in RowsOf(draft[r].id) : row.version + 1 > other.version
      BY <2>1 DEF IsLatest, RowsOf
    <3> HIDE DEF Numbered
    <3> QED BY <3>1, <3>2
  <2> QED BY <2>2, <2>3 DEF Number
<1>2. draft[r] \in Row /\ draft'[r] = [draft[r] EXCEPT !.version = version]
  BY <1>1, DraftIsRow DEF Number, TypeOK, RequestsTypeOK
<1>3. /\ draft'[r] \in Row
      /\ draft'[r].id = draft[r].id
      /\ draft'[r].by = draft[r].by
      /\ draft'[r].version = version
  BY <1>2 DEF Row
<1>4. \A s \in Requests : s # r => draft'[s] = draft[s] /\ pc'[s] = pc[s]
  BY <1>1 DEF TypeOK, RequestsTypeOK
<1>5. pc[r] = "numbering" /\ pc'[r] = "inserting" /\ UNCHANGED <<table, outlived, deleted>>
  BY <1>1 DEF Number, TypeOK, RequestsTypeOK
<1>6. TypeOK'
  BY <1>1, <1>3, <1>4, <1>5, ArtifactAssumption DEF TypeOK, RequestsTypeOK, Progress
<1>7. PrimaryKey' /\ Authored' /\ Kept'
  BY <1>3, <1>4, <1>5 DEF PrimaryKey, Authored, Kept
<1>8. Remembered'
  BY <1>3, <1>4, <1>5 DEF Remembered, RowsOf
<1>9. Newest'
  BY <1>1, <1>3, <1>4, <1>5 DEF Newest, Remembered
<1> QED BY <1>6, <1>7, <1>8, <1>9

(* insert: a row enters the table only under a key that is free.           *)
LEMMA InsertInv ==
    ASSUME IInv, NEW r \in Requests, Insert(r)
    PROVE  IInv'
<1> USE DEF IInv, At, GoTo, Insert, Inserted
<1>1. draft[r] \in Row
  BY DraftIsRow
<1>2. TypeOK'
  BY <1>1 DEF TypeOK, RequestsTypeOK, Progress
<1>3. PrimaryKey'
  BY DEF PrimaryKey, Taken, SameKey
<1>4. Authored' /\ Kept'
  BY DEF Authored, Kept, TypeOK, RequestsTypeOK
<1>5. Remembered' /\ Newest'
  BY DEF Remembered, Newest, RowsOf, TypeOK, RequestsTypeOK
<1> QED BY <1>2, <1>3, <1>4, <1>5

(* DELETE: what goes from the table goes from everybody's memory.          *)
LEMMA DeleteInv ==
    ASSUME IInv, NEW rows \in SUBSET table, Delete(rows)
    PROVE  IInv'
<1> USE DEF IInv, Delete, Gone
<1>1. TypeOK'
  BY DEF TypeOK, RequestsTypeOK
<1>2. PrimaryKey' /\ Authored' /\ Kept'
  BY DEF PrimaryKey, Authored, Kept
<1>3. Remembered' /\ Newest'
  BY DEF Remembered, Newest, RowsOf
<1> QED BY <1>1, <1>2, <1>3

LEMMA NextInv == IInv /\ [Next]_storeVars => IInv'
<1> SUFFICES ASSUME IInv, [Next]_storeVars PROVE IInv'
  OBVIOUS
<1>1. CASE \E r \in Requests : Receive(r) \/ Get(r) \/ Number(r) \/ Insert(r)
  BY <1>1, ReceiveInv, GetInv, NumberInv, InsertInv
<1>2. CASE \E id \in Ids : Remove(id)
  BY <1>2, DeleteInv DEF Remove, RowsOf
<1>3. CASE \E row \in table : RemoveVersion(row.id, row.version)
  <2> PICK row \in table : RemoveVersion(row.id, row.version)
    BY <1>3
  <2>1. {a \in RowsOf(row.id) : a.version = row.version} \in SUBSET table
    BY DEF RowsOf
  <2> QED BY <2>1, DeleteInv DEF RemoveVersion
<1>4. CASE UNCHANGED storeVars
  BY <1>4 DEF storeVars, requestVars, IInv, TypeOK, RequestsTypeOK, PrimaryKey, Authored,
              Kept, Remembered, Newest, RowsOf
<1> QED BY <1>1, <1>2, <1>3, <1>4 DEF Next

LEMMA Inductive == Spec => []IInv
BY InitInv, NextInv, PTL DEF Spec

(* One row per key, each with its author.                                  *)
LEMMA Unshared == IInv => NoSharedVersion
<1> SUFFICES ASSUME IInv,
                    NEW r \in Requests, NEW s \in Requests,
                    r # s, pc[r] = "created", pc[s] = "created",
                    SameKey(draft[r], draft[s]),
                    draft[r] \notin deleted, draft[s] \notin deleted
             PROVE  FALSE
  BY DEF NoSharedVersion
<1>1. draft[r] = draft[s]
  BY DEF IInv, Kept, PrimaryKey
<1> QED
  BY <1>1 DEF IInv, Authored

LEMMA Newer == IInv => NewerThanSeen
BY DEF IInv, Newest, NewerThanSeen

----------------------------------------------------------------------------
(* Every variable keeps its type (store.ts:281-296, route-handlers.ts:128-174). *)
THEOREM TypeCorrect == Spec => []TypeOK
<1>1. IInv => TypeOK
  BY DEF IInv
<1> QED BY <1>1, Inductive, PTL

(* Two publishes are never both told 201 for the same version of the same  *)
(* artifact (use-canvas.ts:96-97), because the primary key admits one row  *)
(* and what was acknowledged leaves the table only by a DELETE.            *)
THEOREM VersionsAreNotShared == Spec => []NoSharedVersion
BY Unshared, Inductive, PTL

(* A publish that succeeds is newer than every version its handler was     *)
(* shown and that is still stored, across concurrent publishes and deletes *)
(* (route-handlers.ts:150-157).                                            *)
THEOREM PublishesAreNewer == Spec => []NewerThanSeen
BY Newer, Inductive, PTL
=============================================================================
