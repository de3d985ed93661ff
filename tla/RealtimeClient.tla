---------------------------- MODULE RealtimeClient ----------------------------
(***************************************************************************)
(* The browser side of plugin-realtime (react/index.ts): one RoomProvider, *)
(* its frame loop over the subscription, the optimistic presence update    *)
(* and the binding of a Yjs document, against the presence handling of the *)
(* server (internal/runtime.ts dispatchFrame, memory-provider.ts).  The    *)
(* loop writes a ref; what is rendered follows later, and the callbacks    *)
(* of the hooks close over what was rendered.  Patches travel as requests  *)
(* of their own and may overtake one another.  The transport, the sender   *)
(* and the other members are external.                                     *)
(***************************************************************************)
EXTENDS Naturals, Sequences, FiniteSets

CONSTANTS
    Selves,        \* connection ids this browser is given, one per subscription
    Peers,         \* connection ids of the other members
    PresenceKeys,  \* the keys of a presence
    Unset,
    Absent,
    Patches,       \* patches a user makes: [key, value]; "bad" fits no schema
    MaxPatches,    \* bound on the changes each side makes
    MaxRooms,      \* bound on the values of the roomId prop
    PromptServer   \* React renders before the user acts again

ASSUME ClientAssumption ==
    /\ Selves \cap Peers = {} /\ Absent \notin Selves \cup Peers
    /\ MaxPatches \in Nat /\ MaxRooms \in Nat \ {0}
    /\ PromptServer \in BOOLEAN

VARIABLES
    roomNo,     \* the room the roomId prop names
    self,       \* the connection id the server knows this browser by
    loop,       \* the subscription's loop: "gone" when it was cancelled, "closed"
                \* when it returned after that
    members,    \* the server's presences
    announced,  \* peers the server has announced to this subscription
    down,       \* frames on their way to the loop
    up,         \* presence patches and document updates on their way
    ref,        \* stateRef.current: [others, mine, id]
    view,       \* the rendered state, which the callbacks close over
    patched,    \* updates made so far: [me, peer]
    refused,    \* a patch was rejected or lost
    ydoc        \* edits here, at the server, sent by this client and on their
                \* way; one dropped; the storage the room declares

clientVars == <<roomNo, self, loop, members, announced, down, up, ref, view,
                patched, refused, ydoc>>

Anyone == Selves \cup Peers
EmptyPresence == [k \in PresenceKeys |-> Unset]
Nowhere == [others |-> [p \in Anyone |-> Absent], mine |-> EmptyPresence, id |-> Absent]
Frame(type, conn, presence) == [type |-> type, conn |-> conn, presence |-> presence]
Online(c) == members[c] # Absent

ClientTypeOK ==
    /\ self \in Selves \cup {Absent}
    /\ loop \in {"idle", "open", "ended", "gone", "closed"}
    /\ DOMAIN members = Anyone /\ announced \subseteq Peers
    /\ \A i \in 1 .. Len(down) :
          down[i].type \in {"joined", "left", "presence-changed", "yjs-update", "corrupt"}
    /\ {ref.id, view.id} \subseteq Anyone \cup {Absent}
    /\ ydoc.mine \cup ydoc.server \subseteq {"mine", "theirs"}
    /\ ydoc.out \subseteq ydoc.sent /\ ydoc.storage \in {"yjs", "none"}

ClientInit ==
    /\ roomNo = 0 /\ self = Absent /\ loop = "idle"
    /\ members = [c \in Anyone |-> Absent]
    /\ announced = {}
    /\ down = <<>> /\ up = {}
    /\ ref = Nowhere /\ view = Nowhere
    /\ patched = [me |-> 0, peer |-> 0]
    /\ refused = FALSE
    /\ ydoc = [mine |-> {}, server |-> {}, sent |-> {}, out |-> {},
               dropped |-> FALSE, storage |-> "none"]

Mounted == loop \notin {"gone", "closed"}
Receives(frame) == IF loop \in {"open", "gone"} THEN Append(down, frame) ELSE down
StateUnchanged == UNCHANGED <<ref, view>>

----------------------------------------------------------------------------
(* The effect subscribes with the presence of the moment; the server       *)
(* subscribes the listener, joins, and announces it to this client first.  *)
(* A roomId that changes cancels the loop and starts another; nothing      *)
(* resets the state.  A presence that does not fit the schema is refused.  *)
Fits(presence) == \A k \in PresenceKeys : presence[k] # "bad"

OpenRoom ==
    /\ Mounted /\ roomNo < MaxRooms
    /\ PromptServer => view = ref
    /\ \E c \in Selves \ {self} :
          /\ self' = c
          /\ members' = [m \in Anyone |-> IF m = c /\ Fits(ref.mine) THEN ref.mine
                            ELSE IF m \in Peers /\ roomNo = 0 THEN members[m] ELSE Absent]
          /\ down' = IF Fits(ref.mine) THEN <<Frame("joined", c, ref.mine)>> ELSE <<>>
    /\ roomNo' = roomNo + 1
    /\ loop' = IF Fits(ref.mine) THEN "open" ELSE "ended"
    /\ announced' = {} /\ up' = {}
    /\ \E storage \in {"yjs", "none"} : ydoc' = [ydoc EXCEPT !.storage = storage]
    /\ StateUnchanged
    /\ UNCHANGED <<patched, refused>>

(* Another member joins, leaves, or changes its presence.                  *)
PeerJoins(p) ==
    /\ ~Online(p) /\ loop # "closed" /\ patched.peer < MaxPatches
    /\ members' = [members EXCEPT ![p] = EmptyPresence]
    /\ down' = Receives(Frame("joined", p, EmptyPresence))
    /\ announced' = IF loop = "open" THEN announced \cup {p} ELSE announced
    /\ patched' = [patched EXCEPT !.peer = @ + 1]
    /\ StateUnchanged /\ UNCHANGED ydoc
    /\ UNCHANGED <<roomNo, self, loop, up, refused>>

PeerLeaves(p) ==
    /\ Online(p)
    /\ members' = [members EXCEPT ![p] = Absent]
    /\ down' = Receives(Frame("left", p, EmptyPresence))
    /\ announced' = announced \ {p}
    /\ StateUnchanged /\ UNCHANGED ydoc
    /\ UNCHANGED <<roomNo, self, loop, up, patched, refused>>

PeerChanges(p, patch) ==
    /\ Online(p) /\ patch.value # "bad" /\ patched.peer < MaxPatches
    /\ LET next == [members[p] EXCEPT ![patch.key] = patch.value] IN
          /\ members' = [members EXCEPT ![p] = next]
          /\ down' = Receives(Frame("presence-changed", p, next))
    /\ announced' = IF loop = "open" THEN announced \cup {p} ELSE announced
    /\ patched' = [patched EXCEPT !.peer = @ + 1]
    /\ StateUnchanged /\ UNCHANGED ydoc
    /\ UNCHANGED <<roomNo, self, loop, up, refused>>

----------------------------------------------------------------------------
(* applyJoinedFrame: the first one there is names this client.             *)
ApplyJoined(f) ==
    IF ref.id = Absent
    THEN [ref EXCEPT !.mine = f.presence, !.id = f.conn]
    ELSE [ref EXCEPT !.others[f.conn] = f.presence]

ApplyLeft(f) == [ref EXCEPT !.others[f.conn] = Absent]

(* applyPresenceChangedFrame: an echo of an own patch replaces the presence *)
(* this client shows; the server is the authority.                         *)
MutApplyPresenceChanged(f) ==
    IF f.conn = ref.id THEN ref ELSE [ref EXCEPT !.others[f.conn] = f.presence]

ApplyPresenceChanged(f) ==
    IF f.conn = ref.id
    THEN [ref EXCEPT !.mine = f.presence]
    ELSE [ref EXCEPT !.others[f.conn] = f.presence]

(* The update listener of the document: what came from the wire does not   *)
(* go back.                                                                *)
OnUpdate(edit, origin) == IF origin = "remote" THEN ydoc.sent ELSE ydoc.sent \cup {edit}

(* applyYjsFrame: the edit goes into the document, under the origin of the *)
(* wire.  A frame that does not decode is dropped, and the loop goes on.   *)
ApplyYjs(f) ==
    IF f.type = "corrupt" THEN [ydoc EXCEPT !.dropped = TRUE]
    ELSE [ydoc EXCEPT !.mine = @ \cup {"theirs"}, !.sent = OnUpdate("theirs", "remote")]

DeliverFrame ==
    /\ loop = "open" /\ down # <<>>
    /\ down' = Tail(down)
    /\ LET f == Head(down) IN
          /\ ydoc' = IF f.type \in {"yjs-update", "corrupt"} THEN ApplyYjs(f) ELSE ydoc
          /\ ref' = CASE f.type = "joined" -> ApplyJoined(f)
                      [] f.type = "left" -> ApplyLeft(f)
                      [] f.type = "presence-changed" -> ApplyPresenceChanged(f)
                      [] OTHER -> ref
    /\ UNCHANGED <<roomNo, self, loop, members, announced, up, view, patched, refused>>

(* React renders: the callbacks are made anew over this state.             *)
Render ==
    /\ view # ref /\ Mounted
    /\ view' = ref
    /\ UNCHANGED <<roomNo, self, loop, members, announced, down, up, ref, patched,
                   refused, ydoc>>

(* emit: the patch is sent first, then merged into the state of the        *)
(* closure, which replaces the ref.  A client without a sender merges all  *)
(* the same; a sender that throws leaves everything as it was.             *)
Merged(patch) == [view EXCEPT !.mine[patch.key] = patch.value]

EmitPatch(patch, sends) ==
    /\ loop \in {"open", "ended"} /\ patched.me < MaxPatches
    /\ PromptServer => view = ref
    /\ patched' = [patched EXCEPT !.me = @ + 1]
    /\ up' = IF sends THEN up \cup {[n |-> patched.me, patch |-> patch]} ELSE up
    /\ refused' = (refused \/ ~sends)
    /\ ref' = Merged(patch) /\ view' = Merged(patch)
    /\ UNCHANGED ydoc
    /\ UNCHANGED <<roomNo, self, loop, members, announced, down>>

(* dispatchFrame for a patch: the merged presence must fit the schema, and *)
(* the provider merges again and tells everybody, the sender included.  A  *)
(* request may also be lost, or find the member gone.                      *)
DispatchPresence(m) ==
    /\ m \in up
    /\ up' = up \ {m}
    /\ IF self # Absent /\ Online(self) /\ Fits([members[self] EXCEPT ![m.patch.key] = m.patch.value])
       THEN LET next == [members[self] EXCEPT ![m.patch.key] = m.patch.value] IN
            /\ members' = [members EXCEPT ![self] = next]
            /\ down' = Receives(Frame("presence-changed", self, next))
            /\ UNCHANGED refused
       ELSE /\ refused' = TRUE
            /\ UNCHANGED <<members, down>>
    /\ StateUnchanged /\ UNCHANGED ydoc
    /\ UNCHANGED <<roomNo, self, loop, announced, patched>>

----------------------------------------------------------------------------
(* The document: a local edit goes out through the sender, a peer's edit   *)
(* arrives, perhaps in a frame that does not decode.                       *)
LocalEdit ==
    /\ loop \in {"open", "ended"} /\ "mine" \notin ydoc.mine /\ patched.me < MaxPatches
    /\ LET sent == OnUpdate("mine", "local") IN
          ydoc' = [ydoc EXCEPT !.mine = @ \cup {"mine"}, !.sent = sent,
                               !.out = @ \cup (sent \ ydoc.sent)]
    /\ patched' = [patched EXCEPT !.me = @ + 1]
    /\ UNCHANGED <<roomNo, self, loop, members, announced, down, up, ref, view, refused>>

(* assertYjsRoom: the room must have declared the storage.                 *)
YjsRoomDeclared == ydoc.storage = "yjs"

(* dispatchFrame for an edit, when the request gets there and its bytes    *)
(* are base64: the provider applies it to the document of the room.        *)
DispatchYjs(edit, arrives) ==
    /\ edit \in ydoc.out
    /\ ydoc' = IF arrives /\ YjsRoomDeclared
               THEN [ydoc EXCEPT !.out = @ \ {edit}, !.server = @ \cup {edit}]
               ELSE [ydoc EXCEPT !.out = @ \ {edit}, !.dropped = TRUE]
    /\ StateUnchanged
    /\ UNCHANGED <<roomNo, self, loop, members, announced, down, up, patched, refused>>

PeerEdit(type) ==
    /\ loop \in {"open", "gone"} /\ YjsRoomDeclared
    /\ "theirs" \notin ydoc.server /\ patched.peer < MaxPatches
    /\ type \in {"yjs-update", "corrupt"}
    /\ ydoc' = [ydoc EXCEPT !.server = @ \cup {"theirs"}]
    /\ down' = Append(down, Frame(type, Absent, EmptyPresence))
    /\ patched' = [patched EXCEPT !.peer = @ + 1]
    /\ UNCHANGED <<roomNo, self, loop, members, announced, up, ref, view, refused>>

(* The stream ends or fails: the loop stops and leaves the state as it is. *)
StreamEnds ==
    /\ loop \in {"open", "gone"}
    /\ loop' = IF loop = "open" THEN "ended" ELSE "closed"
    /\ members' = [members EXCEPT ![self] = Absent]
    /\ down' = <<>>
    /\ StateUnchanged /\ UNCHANGED ydoc
    /\ UNCHANGED <<roomNo, self, announced, up, patched, refused>>

(* The provider unmounts: `cancelled` is set, and `ac` aborts a signal     *)
(* that subscribe() was never given, so the member stays in the room ...   *)
UnmountRoom ==
    /\ loop \in {"open", "ended"}
    /\ loop' = IF loop = "open" THEN "gone" ELSE "closed"
    /\ StateUnchanged /\ UNCHANGED ydoc
    /\ UNCHANGED <<roomNo, self, members, announced, down, up, patched, refused>>

(* ... until a frame comes: the loop returns, and the stream with it.      *)
LoopReturns ==
    /\ loop = "gone" /\ down # <<>>
    /\ loop' = "closed"
    /\ members' = [members EXCEPT ![self] = Absent]
    /\ down' = <<>>
    /\ StateUnchanged /\ UNCHANGED ydoc
    /\ UNCHANGED <<roomNo, self, announced, up, patched, refused>>

ClientNext ==
    \/ OpenRoom
    \/ \E p \in Peers :
          PeerJoins(p) \/ PeerLeaves(p) \/ \E patch \in Patches : PeerChanges(p, patch)
    \/ DeliverFrame
    \/ Render
    \/ \E patch \in Patches, sends \in BOOLEAN : EmitPatch(patch, sends)
    \/ \E m \in up : DispatchPresence(m)
    \/ LocalEdit
    \/ \E edit \in ydoc.out, arrives \in BOOLEAN : DispatchYjs(edit, arrives)
    \/ \E type \in {"yjs-update", "corrupt"} : PeerEdit(type)
    \/ StreamEnds
    \/ UnmountRoom
    \/ LoopReturns

ClientSpec == ClientInit /\ [][ClientNext]_clientVars

----------------------------------------------------------------------------
Undisturbed == loop = "open" /\ down = <<>> /\ up = {} /\ view = ref

(* When nothing is under way any more, the client shows what the server    *)
(* holds: its own presence, in whatever order the server took its patches, *)
(* unless one was lost or rejected; and every member that was announced,   *)
(* with the presence it has now, and nobody else.  That is of the first    *)
(* room: a roomId that changes resets nothing                              *)
(* (react/index.ts:256-290, 454-480).                                      *)
ViewConverges ==
    Undisturbed /\ roomNo = 1 =>
        /\ view.id = self
        /\ ~refused => view.mine = members[self]
        /\ \A c \in Anyone : view.others[c] = IF c \in announced THEN members[c] ELSE Absent

(* Unless a frame did not decode or a request was lost or refused, the     *)
(* document here and the document of the room hold the same edits once     *)
(* nothing is under way; an edit that came over the wire never goes back   *)
(* (react/index.ts:405-424, 440-452; internal/runtime.ts:264-286).         *)
DocConverges ==
    /\ Undisturbed /\ ydoc.out = {} /\ ~ydoc.dropped /\ roomNo = 1 => ydoc.mine = ydoc.server
    /\ ydoc.sent = ydoc.mine \ {"theirs"}

(* What the hooks show, part by part.                                      *)
ClientKept == ClientTypeOK /\ ViewConverges /\ DocConverges

(* "useOthers: Read-only snapshot of other clients' presence"              *)
(* (plugin-realtime README:105): this client is not one of the others.     *)
OthersAreOthers == loop = "open" /\ self # Absent => view.others[self] = Absent
=============================================================================
