--------------------------- MODULE ArtifactRequests ---------------------------
(***************************************************************************)
(* The POST /artifacts requests of plugin-canvas, without the store they   *)
(* run against (route-handlers.ts:128-174).  A row stands for an artifact: *)
(* its id, its version and, as its contents, the request that wrote it.    *)
(* Every await of the handler is a place where other requests run, so a    *)
(* request is a program counter and the artifact it is about to insert.    *)
(***************************************************************************)
EXTENDS Integers

CONSTANTS
    Ids,          \* artifact ids
    Requests,     \* POST requests, each sent at most once
    Versions,     \* the versions callers put into their artifacts
    NoRow

Row == [id : Ids, version : Nat \ {0}, by : Requests]

ASSUME ArtifactAssumption ==
    /\ Versions \subseteq Nat \ {0}
    /\ NoRow \notin Row

VARIABLES
    pc,           \* per request: how far its handler is
    draft,        \* per request: the artifact to insert (`toInsert`)
    outlived,     \* per request: rows of its id it found and nobody deleted since
    deleted       \* every row deleted so far

requestVars == <<pc, draft, outlived, deleted>>

Progress == {"unsent", "received", "getting", "numbering", "inserting",
             "created", "refused", "rejected"}

(* Type invariant of the requests: one that has arrived has an artifact.   *)
RequestsTypeOK ==
    /\ pc \in [Requests -> Progress]
    /\ draft \in [Requests -> Row \cup {NoRow}]
    /\ outlived \in [Requests -> SUBSET Row]
    /\ deleted \subseteq Row
    /\ \A r \in Requests : pc[r] = "unsent" <=> draft[r] = NoRow

RequestsInit ==
    /\ pc = [r \in Requests |-> "unsent"]
    /\ draft = [r \in Requests |-> NoRow]
    /\ outlived = [r \in Requests |-> {}]
    /\ deleted = {}

SameKey(a, b) == a.id = b.id /\ a.version = b.version

At(r, place) == pc[r] = place
GoTo(r, place) == pc' = [pc EXCEPT ![r] = place]

----------------------------------------------------------------------------
(* A caller sends an artifact; the handler awaits the body.  A version the *)
(* caller leaves out is 1.                                                 *)
Post(r, row) ==
    /\ At(r, "unsent")
    /\ GoTo(r, "received")
    /\ draft' = [draft EXCEPT ![r] = row]
    /\ UNCHANGED <<outlived, deleted>>

(* The body parses, and passes the schema and the security gate.           *)
Admit(r) ==
    /\ At(r, "received")
    /\ GoTo(r, "getting")
    /\ UNCHANGED <<draft, outlived, deleted>>

(* It does not: 400, and the store is not asked.                           *)
Reject(r) ==
    /\ At(r, "received")
    /\ GoTo(r, "rejected")
    /\ UNCHANGED <<draft, outlived, deleted>>

(* What a request does with the answers of the store.  First that of       *)
(* store.get(id): `newest` says that the stored version is   *)
(* at least the caller's.  `found` is what the store holds of the id.      *)
Found(r, found, newest) ==
    /\ GoTo(r, IF newest THEN "numbering" ELSE "inserting")
    /\ outlived' = [outlived EXCEPT ![r] = found]
    /\ UNCHANGED <<draft, deleted>>

(* The answer to store.nextVersion(id).                                    *)
Numbered(r, version) ==
    /\ GoTo(r, "inserting")
    /\ draft' = [draft EXCEPT ![r].version = version]
    /\ UNCHANGED <<outlived, deleted>>

(* The answer to store.insert: 201, or 500 when the version is taken.      *)
Inserted(r, taken) ==
    /\ GoTo(r, IF taken THEN "refused" ELSE "created")
    /\ UNCHANGED <<draft, outlived, deleted>>

(* DELETE took these rows away.                                            *)
Gone(rows) ==
    /\ deleted' = deleted \cup rows
    /\ outlived' = [r \in Requests |-> outlived[r] \ rows]
    /\ UNCHANGED <<pc, draft>>

----------------------------------------------------------------------------
(* use-canvas.ts:96-97: "two clients publishing at once cannot both        *)
(* believe they wrote version 3".  Two requests answered 201 for the same  *)
(* id and version are possible only if one of the rows was deleted.        *)
NoSharedVersion ==
    \A r, s \in Requests :
        /\ r # s
        /\ pc[r] = "created"
        /\ pc[s] = "created"
        /\ SameKey(draft[r], draft[s])
        => draft[r] \in deleted \/ draft[s] \in deleted

(* A published artifact is newer than every version its request found in   *)
(* the store and that is still there: whatever happens between the three   *)
(* awaits, also deletes that take the numbers back, no publish slides in   *)
(* under the version its author had seen (route-handlers.ts:150-157).      *)
NewerThanSeen ==
    \A r \in Requests : pc[r] = "created" =>
        \A seen \in outlived[r] : draft[r].version > seen.version
=============================================================================
