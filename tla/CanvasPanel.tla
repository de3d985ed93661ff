------------------------------ MODULE CanvasPanel ------------------------------
(***************************************************************************)
(* One useCanvas hook (ui/use-canvas.ts with canvas-reducer-handlers.ts)   *)
(* that publishes to the artifact routes, among other callers of theirs.   *)
(* publish() shows the artifact before the server has it, and when the     *)
(* answer comes shows what the server stored, or takes the artifact back.  *)
(* The user goes on selecting, removing and publishing in between.         *)
(***************************************************************************)
EXTENDS MemoryArtifacts

CONSTANTS
    Published,    \* the requests made by this panel's publish()
    NoPointer

ASSUME PanelAssumption ==
    /\ Published \subseteq Requests
    /\ NoPointer \notin [id : Ids, version : Nat \ {0}]

VARIABLES
    history,      \* state.history: the rows of the map's versions
    pointer,      \* state.pointer: the id and version on screen
    open,         \* state.open
    fetching      \* the artifacts, as sent, of publish() calls still awaiting fetch

panelVars == <<history, pointer, open, fetching>>
allVars == <<memVars, panelVars>>

(* Type invariant; the panel has one artifact per id and version           *)
(* (canvas-reducer-handlers.ts:37-41), and awaits only what it has sent.   *)
TypeOK ==
    /\ MemTypeOK
    /\ history \subseteq Row
    /\ \A a, b \in history : SameKey(a, b) => a = b
    /\ pointer \in [id : Ids, version : Nat \ {0}] \cup {NoPointer}
    /\ open \in BOOLEAN
    /\ fetching \subseteq Row
    /\ \A row \in fetching : row.by \in Published /\ pc[row.by] # "unsent"

Init ==
    /\ MemInit
    /\ history = {}
    /\ pointer = NoPointer
    /\ open = FALSE
    /\ fetching = {}

KeyOf(row) == [id |-> row.id, version |-> row.version]

----------------------------------------------------------------------------
(* handleShow: a row of the same version is replaced.                      *)
Show(row, autoOpen) ==
    /\ history' = {a \in history : ~SameKey(a, row)} \cup {row}
    /\ pointer' = KeyOf(row)
    /\ open' = (autoOpen \/ open)

(* The pointer stays although its version is gone.                         *)
MutPointerAfter(id, remaining) ==
    IF remaining = {} /\ pointer # NoPointer /\ pointer.id = id
    THEN NoPointer ELSE pointer

(* resolvePointerAfterRemove: whatever version of the id was on screen, the *)
(* latest remaining one is now.                                            *)
PointerAfter(id, remaining) ==
    IF pointer = NoPointer THEN pointer
    ELSE IF pointer.id # id THEN pointer
    ELSE IF remaining = {} THEN NoPointer
    ELSE KeyOf(CHOOSE a \in remaining : \A b \in remaining : b.version <= a.version)

(* handleRemove: the rows of one id are replaced by those that remain.     *)
Keep(id, remaining) ==
    /\ \E row \in history : row.id = id
    /\ history' = {a \in history : a.id # id} \cup remaining
    /\ pointer' = PointerAfter(id, remaining)
    /\ UNCHANGED open

Forget(id, v) == Keep(id, {a \in history : a.id = id /\ a.version # v})

NothingOf(id) == \A a \in history : a.id # id

----------------------------------------------------------------------------
(* publish: optimistic show, then the POST; fork is a publish under another *)
(* id, or under the same one.  Invalid artifacts do not get this far.      *)
Publish(r, row) ==
    /\ r \in Published
    /\ Post(r, row)
    /\ Show(row, TRUE)
    /\ fetching' = fetching \cup {row}
    /\ UNCHANGED byId

(* Somebody else posts: another tab, an agent's tool.                      *)
PostElsewhere(r, row) ==
    /\ r \notin Published
    /\ Post(r, row)
    /\ UNCHANGED <<byId, panelVars>>

(* 201: the stored artifact is shown as well, the panel is not reopened.   *)
Persisted(row) ==
    /\ At(row.by, "created")
    /\ Show(draft[row.by], FALSE)
    /\ fetching' = fetching \ {row}
    /\ UNCHANGED memVars

(* Any other answer: dispatch({ type: 'remove' }) of the version sent.     *)
RolledBack(row) ==
    /\ pc[row.by] \in {"refused", "rejected"}
    /\ \/ Forget(row.id, row.version)
       \/ NothingOf(row.id) /\ UNCHANGED <<history, pointer, open>>
    /\ fetching' = fetching \ {row}
    /\ UNCHANGED memVars

(* fetch rejects; the request may have been served, may yet be, or never.  *)
(* The artifact stays on screen.                                           *)
NetworkFailure(row) ==
    /\ fetching' = fetching \ {row}
    /\ UNCHANGED <<memVars, history, pointer, open>>

Settle(row) == Persisted(row) \/ RolledBack(row) \/ NetworkFailure(row)

----------------------------------------------------------------------------
(* The user clicks a version of the rail, or an entry of the history.      *)
Select(row) ==
    /\ pointer' = KeyOf(row)
    /\ UNCHANGED <<memVars, history, open, fetching>>

(* hide and setOpen.                                                       *)
SetOpen(value) ==
    /\ open' = value
    /\ UNCHANGED <<memVars, history, pointer, fetching>>

(* remove(id) and remove(id, version): local only.                         *)
RemoveShown(row) ==
    /\ Keep(row.id, {}) \/ Forget(row.id, row.version)
    /\ UNCHANGED <<memVars, fetching>>

(* show() of a stored artifact, as an application does with what the server *)
(* streams to it.                                                          *)
ShowStored(row) ==
    /\ Show(row, TRUE)
    /\ UNCHANGED <<memVars, fetching>>

(* The page is loaded again, hydrated with the artifacts of the store or   *)
(* not.  What the old page was waiting for is no longer heard.             *)
Reload ==
    /\ history' \in {{}, AllRows}
    /\ pointer' = NoPointer
    /\ open' = FALSE
    /\ fetching' = {}
    /\ UNCHANGED memVars

UserStep ==
    \/ \E row \in history : Select(row) \/ RemoveShown(row)
    \/ \E value \in BOOLEAN : SetOpen(value)
    \/ \E row \in AllRows : ShowStored(row)
    \/ Reload

Next ==
    \/ \E r \in Requests, id \in Ids, v \in Versions :
           LET row == [id |-> id, version |-> v, by |-> r]
           IN Publish(r, row) \/ PostElsewhere(r, row)
    \/ (\E r \in Requests : MemServe(r)) /\ UNCHANGED panelVars
    \/ MemDelete /\ UNCHANGED panelVars
    \/ \E row \in fetching : Settle(row)
    \/ UserStep

Spec == Init /\ [][Next]_allVars

----------------------------------------------------------------------------
(* What is on screen exists: the version selected is in the history, also  *)
(* when a rollback or a removal of another version comes in between        *)
(* (canvas-reducer-handlers.ts:83-115).                                    *)
PointerIsShown == pointer # NoPointer => \E row \in history : KeyOf(row) = pointer

(* The lists the panel shows are those of the table, and so is what is     *)
(* open.                                                                   *)
PanelKept == TypeOK /\ ListsAgree /\ PointerIsShown

(* use-canvas.ts:10 "optimistic local insert + rollback on failure",       *)
(* :188-189 "Replace the optimistic entry with the server's canonical      *)
(* shape (server may have re-numbered the version ...)": once the answer   *)
(* has been handled, the panel shows the artifact under no version but the *)
(* stored one.                                                             *)
OptimisticIsReplaced ==
    \A row \in history :
        /\ row.by \in Published
        /\ pc[row.by] = "created"
        /\ draft[row.by] \in history
        => row = draft[row.by] \/ \E sent \in fetching : sent.by = row.by
=============================================================================
