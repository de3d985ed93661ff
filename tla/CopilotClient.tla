----------------------------- MODULE CopilotClient -----------------------------
(***************************************************************************)
(* The copilot plugin as the application meets it: defineCopilot and the   *)
(* runtime the plugin builds (define-copilot.ts, plugin.ts), and the React *)
(* surface of a room a copilot lives in (react/copilot-provider.tsx,       *)
(* hooks.ts, CopilotChat.tsx): a provider that subscribes, asks for a      *)
(* snapshot of the presences, and folds frames into messages, presence and *)
(* the last error.  The realtime provider is external; its frames come in  *)
(* order, and its answer to getPresence keeps its place among them (as the *)
(* in-memory provider's does) or comes late.                               *)
(***************************************************************************)
EXTENDS Naturals, Sequences

CONSTANTS
    Humans,       \* connection ids of the other people
    Bots,         \* connection ids with the copilot prefix
    Me,           \* userConnectionId
    Definitions,  \* options of defineCopilot: [id, room, agent, identity, triggers]
    MaxEvents,    \* bound on what happens in the room
    Cap           \* messageCap

(* A trigger, as far as defineCopilot looks into it; an idle trigger wants *)
(* a time above zero, and one of the application's own a filter.           *)
CopilotTrigger ==
    {"broadcast", "execute-tool", "idle", "custom", "custom without filter", "idle without time"}

CopilotDescriptor ==
    [id : {"valid", "invalid"}, room : {"named", "missing"},
     agent : {"with model", "without model"}, identity : {"named", "missing"},
     triggers : SUBSET CopilotTrigger]

ASSUME SurfaceAssumption ==
    /\ Definitions \subseteq CopilotDescriptor
    /\ Humans \cap Bots = {} /\ Me \notin Humans \cup Bots
    /\ Cap \in Nat \ {0} /\ MaxEvents \in Nat

VARIABLES
    surface,     \* defineCopilot and copilot(options): "none", "refused", "up"
    people,      \* the room's presences: "absent", "here" or "typing"
    pipe,        \* frames on their way to this page
    answer,      \* a late answer of getPresence
    panel,       \* the provider's state: [mounted, presence, messages, error, lastId]
    composer,    \* the composer's input
    transcript,  \* the hook's history: the chat frames this page was given
    happened,    \* number of events in the room
    raced        \* the presences changed between a snapshot and its late arrival

surfaceVars == <<surface, people, pipe, answer, panel, composer, transcript, happened, raced>>

Participants == Humans \cup Bots \cup {Me}
EmptyRoom == [c \in Participants |-> "absent"]
ChatMessage == [id : Nat, role : {"assistant", "user"}]
FrameTypes == {"presence", "left", "snapshot", "message", "question", "empty message",
               "agent-error", "budget-exceeded"}
NoPanel == [mounted |-> FALSE, presence |-> EmptyRoom, messages |-> <<>>, error |-> "none", lastId |-> 0]

SurfaceTypeOK ==
    /\ surface \in {"none", "refused", "up"}
    /\ people \in [Participants -> {"absent", "here", "typing"}]
    /\ panel.presence \in [Participants -> {"absent", "here", "typing"}]
    /\ panel.messages \in Seq(ChatMessage) /\ Len(panel.messages) <= Cap
    /\ \A i \in 1 .. Len(pipe) : pipe[i].type \in FrameTypes
    /\ Len(answer) <= 1
    /\ composer \in {"empty", "blank", "text"}

SurfaceInit ==
    /\ surface = "none"
    /\ people = EmptyRoom
    /\ pipe = <<>> /\ answer = <<>>
    /\ panel = NoPanel
    /\ composer = "empty"
    /\ transcript = <<>>
    /\ happened = 0
    /\ raced = FALSE

----------------------------------------------------------------------------
(* defineCopilot: the base shape, the agent and the identity, then the     *)
(* triggers, each with what its kind requires.                             *)
BaseShape(d) == d.id = "valid" /\ d.room = "named"
AgentIdentity(d) == d.agent = "with model" /\ d.identity = "named"
CopilotTriggers(d) ==
    /\ d.triggers # {}
    /\ d.triggers \cap {"custom without filter", "idle without time"} = {}

Defined(d) == BaseShape(d) /\ AgentIdentity(d) /\ CopilotTriggers(d)

(* copilot(options): the runtime wants a provider and an agent.            *)
DefineCopilot(d, wired) ==
    /\ surface = "none"
    /\ surface' = IF Defined(d) /\ wired THEN "up" ELSE "refused"
    /\ UNCHANGED <<people, pipe, answer, panel, composer, transcript, happened, raced>>

----------------------------------------------------------------------------
(* The effect: subscribe, then ask for the snapshot of the presences.      *)
Mount(ordered) ==
    /\ surface = "up" /\ ~panel.mounted
    /\ panel' = [panel EXCEPT !.mounted = TRUE]
    /\ raced' = FALSE
    /\ IF ordered
       THEN pipe' = <<[type |-> "snapshot", from |-> Me, presence |-> people]>> /\ UNCHANGED answer
       ELSE pipe' = <<>> /\ answer' = <<people>>
    /\ UNCHANGED <<surface, people, composer, transcript, happened>>

(* Its cleanup: `cancelled`, and the listener is taken off.                *)
LeaveSurface ==
    /\ panel.mounted
    /\ panel' = NoPanel
    /\ pipe' = <<>> /\ answer' = <<>> /\ transcript' = <<>>
    /\ composer' = "empty"
    /\ UNCHANGED <<surface, people, happened, raced>>

RoomTold(frame) == IF panel.mounted THEN Append(pipe, frame) ELSE pipe

(* Somebody joins, leaves, or shows that it types.                         *)
PresenceEvent(c, now) ==
    /\ surface = "up" /\ happened < MaxEvents
    /\ people[c] # now /\ now = "typing" => people[c] = "here"
    /\ people' = [people EXCEPT ![c] = now]
    /\ pipe' = RoomTold([type |-> IF now = "absent" THEN "left" ELSE "presence", from |-> c,
                      presence |-> now])
    /\ happened' = happened + 1
    /\ raced' = (raced \/ answer # <<>>)
    /\ UNCHANGED <<surface, answer, panel, composer, transcript>>

(* Somebody broadcasts: a message, a message without text, or an error.    *)
ChatEvent(c, event) ==
    /\ surface = "up" /\ happened < MaxEvents /\ people[c] # "absent"
    /\ event \in {"agent-error", "budget-exceeded"} => c \in Bots
    /\ pipe' = RoomTold([type |-> event, from |-> c, presence |-> "here"])
    /\ happened' = happened + 1
    /\ UNCHANGED <<surface, people, answer, panel, composer, transcript, raced>>

(* The composer: a draft, and handleSubmit, which sends trimmed text only. *)
TypeDraft(text) ==
    /\ panel.mounted /\ composer = "empty" /\ happened < MaxEvents
    /\ composer' = text
    /\ UNCHANGED <<surface, people, pipe, answer, panel, transcript, happened, raced>>

HandleSubmit ==
    /\ panel.mounted /\ composer = "text" /\ happened < MaxEvents
    /\ pipe' = RoomTold([type |-> "question", from |-> Me, presence |-> "here"])
    /\ composer' = "empty"
    /\ happened' = happened + 1
    /\ UNCHANGED <<surface, people, answer, panel, transcript, raced>>

----------------------------------------------------------------------------
(* setMessages: the newest last, the oldest dropped beyond the cap.        *)
MutAppended(messages, m) == Append(messages, m)
Appended(messages, m) ==
    Append(IF Len(messages) >= Cap
           THEN SubSeq(messages, Len(messages) - Cap + 2, Len(messages)) ELSE messages, m)

Role(c) == IF c \in Bots THEN "assistant" ELSE "user"

(* handleFrame, for a chat frame and for one about presence.               *)
HandleChat(f) ==
    CASE f.type \in {"agent-error", "budget-exceeded"} -> [panel EXCEPT !.error = f.type]
      [] f.type \in {"message", "question"} ->
            [panel EXCEPT !.lastId = @ + 1,
                          !.messages = Appended(@, [id |-> panel.lastId + 1, role |-> Role(f.from)])]
      [] OTHER -> panel

HandlePresence(f) ==
    CASE f.type = "snapshot" -> [panel EXCEPT !.presence = f.presence]
      [] f.type \in {"left", "presence"} -> [panel EXCEPT !.presence[f.from] = f.presence]

HandleFrame ==
    /\ panel.mounted /\ pipe # <<>>
    /\ pipe' = Tail(pipe)
    /\ LET f == Head(pipe) IN
          /\ panel' = IF f.type \in {"snapshot", "left", "presence"} THEN HandlePresence(f)
                      ELSE HandleChat(f)
          /\ transcript' = IF f.type \in {"message", "question"} THEN Append(transcript, Role(f.from)) ELSE transcript
    /\ UNCHANGED <<surface, people, answer, composer, happened, raced>>

(* getPresence answers late: its snapshot replaces the presences.          *)
SnapshotArrives ==
    /\ panel.mounted /\ answer # <<>>
    /\ panel' = [panel EXCEPT !.presence = Head(answer)]
    /\ answer' = <<>>
    /\ UNCHANGED <<surface, people, pipe, composer, transcript, happened, raced>>

SurfaceNext ==
    \/ \E d \in Definitions, wired \in BOOLEAN : DefineCopilot(d, wired)
    \/ \E ordered \in BOOLEAN : Mount(ordered)
    \/ LeaveSurface
    \/ \E c \in Humans \cup Bots :
          \/ \E now \in {"absent", "here", "typing"} : PresenceEvent(c, now)
          \/ \E event \in {"message", "empty message", "agent-error", "budget-exceeded"} :
                ChatEvent(c, event)
    \/ \E text \in {"text", "blank"} : TypeDraft(text)
    \/ HandleSubmit
    \/ HandleFrame
    \/ SnapshotArrives

SurfaceSpec == SurfaceInit /\ [][SurfaceNext]_surfaceVars

----------------------------------------------------------------------------
(* isAnyCopilotTyping and useCopilotPresence(userConnectionId).            *)
AnyTyping == \E c \in Bots : panel.presence[c] = "typing"
OthersShown == {c \in Participants \ {Me} : panel.presence[c] # "absent"}

(* The chat shows the newest messages there were, at most the cap, in the  *)
(* order they came, each under an id and a role of its own; and once the   *)
(* frames are in, the people shown and the typing indicator are those of   *)
(* the room, however mounting fell among the frames, unless the presences  *)
(* changed while a snapshot that keeps no order was on its way             *)
(* (copilot-provider.tsx:56-75, 84-87, 143-194; hooks.ts:42-54).           *)
SurfaceKept ==
    /\ SurfaceTypeOK
    /\ [i \in 1 .. Len(panel.messages) |-> panel.messages[i].role] =
          SubSeq(transcript, IF Len(transcript) > Cap THEN Len(transcript) - Cap + 1 ELSE 1, Len(transcript))
    /\ \A i \in 1 .. Len(panel.messages) :
          panel.messages[i].id = Len(transcript) - Len(panel.messages) + i
    /\ panel.mounted /\ pipe = <<>> /\ answer = <<>> /\ ~raced =>
          /\ OthersShown = {c \in Participants \ {Me} : people[c] # "absent"}
          /\ AnyTyping <=> \E c \in Bots : people[c] = "typing"
=============================================================================
