------------------------------ MODULE ArtifactTool ------------------------------
(***************************************************************************)
(* How an artifact reaches a viewer of a conversation: the agent's tool    *)
(* (define-artifact-tool.ts) with the schema and the security pass of      *)
(* schema.ts, the application's onPublish as the README wires it (insert,  *)
(* then bus.emit), the bus (server/artifact-bus.ts), whose loop runs over  *)
(* a live Set while handlers may subscribe, unsubscribe or throw,          *)
(* the renderers, and "Open in canvas", which extracts candidates from a   *)
(* message that is still being written (ui/extract-artifacts.ts) and       *)
(* publishes what the user picks without the tool's checks.                *)
(***************************************************************************)
EXTENDS Naturals, Sequences, FiniteSets, SequencesExt, TLC

CONSTANTS
    Viewers,       \* handlers given to bus.subscribe
    Conversations,
    Candidates,    \* what the agent submits: [shape, kind, flaw]
    AllowedKinds,  \* allowedKinds of defineArtifactTool
    Pieces,        \* what messages are made of
    MaxPublishes, MaxPieces  \* bounds of the exploration

(* The kinds of schema.ts and how each may be malformed: one fault stands  *)
(* for the values its refinement refuses ("too large" for the cap of the   *)
(* kind, in bytes or in slides); every kind carries the envelope.          *)
ArtifactKinds == {"markdown", "code", "diff", "svg", "whiteboard-scene", "slide-deck", "mermaid",
                  "html", "image"}
EnvelopeFaults == {"no id", "no title", "version zero", "bad date"}
KindFaults ==
    [k \in {"markdown", "mermaid"} |-> {"too large"}]
    @@ "code" :> {"too large", "no language"}
    @@ "diff" :> {"no path", "negative line", "unknown line kind"}
    @@ "svg" :> {"too large", "no svg element"}
    @@ "whiteboard-scene" :> {"no scene"}
    @@ "slide-deck" :> {"too large"}
    @@ "html" :> {"too large", "unknown sandbox"}
    @@ "image" :> {"too large", "no alt", "no image data", "not https"}
Flaws == {"none", "script", "jsUrl", "onHandler", "iframe", "metaRefresh", "click", "malformed"}
(* What content of a kind may carry that a browser would run or follow.    *)
FlawsOf(kind) ==
    CASE kind = "svg" -> {"script", "jsUrl", "onHandler", "iframe"}
      [] kind = "html" -> {"script", "jsUrl", "onHandler", "iframe", "metaRefresh"}
      [] kind = "mermaid" -> {"script", "jsUrl", "onHandler", "iframe", "click"}
      [] kind = "image" -> {"script", "jsUrl", "onHandler", "malformed"}
      [] kind = "slide-deck" -> {"script"}
      [] OTHER -> {}
Artifacts == [shape : {"valid"} \cup EnvelopeFaults \cup UNION {KindFaults[k] : k \in ArtifactKinds},
              kind : ArtifactKinds, flaw : Flaws]

ASSUME ToolAssumption ==
    /\ MaxPublishes \in Nat /\ MaxPieces \in Nat /\ "none" \notin Conversations
    /\ Candidates \subseteq Artifacts /\ AllowedKinds \subseteq ArtifactKinds
    /\ \A a \in Candidates : a.flaw \in FlawsOf(a.kind) \cup {"none"}

VARIABLES
    tool,      \* defineArtifactTool: "none", "refused", "up"
    submitted, \* publication -> [from, artifact, conversation, status, version]
    subscribed,\* conversation -> its Set of handlers, in insertion order
    emission,  \* the emit under way: [conversation, publication, todo, live]
    seen,      \* viewer -> publications its handler was called with
    due,       \* viewer -> publications emitted while it was subscribed (history)
    message,   \* the chat message: [pieces, open]
    picked     \* candidates published: [id, piece, early] (history)

toolVars == <<tool, submitted, subscribed, emission, seen, due, message, picked>>

Publications == 1..MaxPublishes
Idle == [from |-> "nobody", artifact |-> [shape |-> "valid", kind |-> "markdown", flaw |-> "none"],
         conversation |-> "none", status |-> "idle", version |-> 0]
NoEmission == [conversation |-> "none", publication |-> 0, todo |-> <<>>, live |-> FALSE]
Subscribers(v) == {c \in Conversations : Contains(subscribed[c], v)}

ToolTypeOK ==
    /\ tool \in {"none", "refused", "up"}
    /\ \A p \in Publications :
          submitted[p].status \in {"idle", "storing", "stored", "emitting", "answered", "failed",
                                   "refused"}
    /\ \A c \in Conversations : IsInjective(subscribed[c]) /\ ToSet(subscribed[c]) \subseteq Viewers
    /\ \A v \in Viewers : ToSet(seen[v]) \cup ToSet(due[v]) \subseteq Publications
    /\ message.open \in BOOLEAN

ToolInit ==
    /\ tool = "none"
    /\ submitted = [p \in Publications |-> Idle]
    /\ subscribed = [c \in Conversations |-> <<>>]
    /\ emission = NoEmission
    /\ seen = [v \in Viewers |-> <<>>] /\ due = [v \in Viewers |-> <<>>]
    /\ message = [pieces |-> <<>>, open |-> FALSE]
    /\ picked = {}

----------------------------------------------------------------------------
(* The sanitisers (DOMPurify, by what classifyRemoved reports of it).      *)
SvgRefuses(flaw) == flaw \in {"script", "jsUrl"}
HtmlRefuses(flaw) == flaw \in {"script", "metaRefresh", "iframe", "onHandler", "jsUrl"}
(* A data URL is looked into only when it says it is an SVG.               *)
ImageRefuses(flaw) == flaw = "malformed" \/ SvgRefuses(flaw)
MermaidRefuses(flaw) == flaw \in {"script", "jsUrl", "click"}

(* enforceArtifactSecurity: each kind by its own pass, none for the rest.  *)
SecurityRefuses(a) ==
    \/ a.kind = "svg" /\ SvgRefuses(a.flaw)
    \/ a.kind = "html" /\ HtmlRefuses(a.flaw)
    \/ a.kind = "image" /\ ImageRefuses(a.flaw)
    \/ a.kind = "mermaid" /\ MermaidRefuses(a.flaw)
    \/ a.kind = "slide-deck" /\ a.flaw = "script"

(* validateArtifact: a fault of the envelope, or one of the kind's fields. *)
SchemaRefuses(a) == a.shape \in EnvelopeFaults \cup KindFaults[a.kind]

(* The tool's handler up to onPublish: schema, allowed kinds, security.    *)
ToolRefuses(a) == SchemaRefuses(a) \/ a.kind \notin AllowedKinds \/ SecurityRefuses(a)

(* What is left of a flaw once the artifact's renderer put it on the page: *)
(* the sanitisers ran again, an image is no document and code is text; the *)
(* slide deck is cleaned by the component library.                         *)
Stripped == [svg |-> {"script", "jsUrl", "onHandler", "iframe"},
             mermaid |-> {"script", "jsUrl", "onHandler", "iframe", "click"},
             html |-> {"script", "metaRefresh", "iframe", "onHandler", "jsUrl"}]
Runs(a) == a.kind \in DOMAIN Stripped /\ a.flaw \notin Stripped[a.kind] \cup {"none"}

----------------------------------------------------------------------------
DefineArtifactTool ==
    /\ tool = "none"
    /\ tool' = IF AllowedKinds = {} THEN "refused" ELSE "up"
    /\ UNCHANGED <<submitted, subscribed, emission, seen, due, message, picked>>

(* The agent calls the tool; a publication that passes waits for the store.*)
CallTool(p, a, c) ==
    /\ tool = "up" /\ emission = NoEmission /\ submitted[p] = Idle
    /\ \A q \in 1..(p - 1) : submitted[q] # Idle
    /\ submitted' = [submitted EXCEPT ![p] =
          IF ToolRefuses(a) THEN [Idle EXCEPT !.from = "tool", !.status = "refused"]
          ELSE [from |-> "tool", artifact |-> a, conversation |-> c, version |-> 0,
                status |-> "storing"]]
    /\ UNCHANGED <<tool, subscribed, emission, seen, due, message, picked>>

(* store.insert gives the next version, or rejects: the call fails.        *)
InsertRow(p, ok) ==
    /\ emission = NoEmission /\ submitted[p].status = "storing"
    /\ submitted' = [submitted EXCEPT
          ![p].status = IF ok THEN "stored" ELSE "failed",
          ![p].version = IF ok THEN 1 + Cardinality({q \in Publications : submitted[q].version > 0})
                         ELSE 0]
    /\ UNCHANGED <<tool, subscribed, emission, seen, due, message, picked>>

(* onPublish resumes after the await and emits.                            *)
Emit(p) ==
    /\ emission = NoEmission /\ submitted[p].status = "stored"
    /\ submitted' = [submitted EXCEPT ![p].status = "emitting"]
    /\ LET c == submitted[p].conversation
           there == ToSet(subscribed[c])
       IN /\ emission' = [conversation |-> c, publication |-> p, todo |-> subscribed[c], live |-> TRUE]
          /\ due' = [v \in Viewers |-> IF v \in there THEN Append(due[v], p) ELSE due[v]]
    /\ UNCHANGED <<tool, subscribed, seen, message, picked>>

----------------------------------------------------------------------------
(* subscribe and the function it returns; a Set emptied leaves the map, so *)
(* an emit under way keeps iterating a Set nobody can add to any more.     *)
Deleted(handlers, v) ==
    IF Contains(handlers, v) THEN RemoveAt(handlers, CHOOSE i \in 1 .. Len(handlers) : handlers[i] = v)
    ELSE handlers
Added(v, c) == [subscribed EXCEPT ![c] = Append(@, v)]
Dropped(v, c) == [subscribed EXCEPT ![c] = Deleted(@, v)]
Iterated(c) == emission.live /\ emission.conversation = c

SubscribeTo(v, c) ==
    /\ tool = "up" /\ emission = NoEmission /\ Subscribers(v) = {}
    /\ subscribed' = Added(v, c)
    /\ seen' = [seen EXCEPT ![v] = <<>>] /\ due' = [due EXCEPT ![v] = <<>>]
    /\ UNCHANGED <<tool, submitted, emission, message, picked>>

UnsubscribeFrom(v, c) ==
    /\ emission = NoEmission /\ Contains(subscribed[c], v)
    /\ subscribed' = Dropped(v, c)
    /\ UNCHANGED <<tool, submitted, emission, seen, due, message, picked>>

DisposeBus ==
    /\ emission = NoEmission /\ \E c \in Conversations : subscribed[c] # <<>>
    /\ subscribed' = [c \in Conversations |-> <<>>]
    /\ UNCHANGED <<tool, submitted, emission, seen, due, message, picked>>

(* What an emit under way does with its iteration when handlers change.    *)
MutAfterThrow(todo) == <<>>  \* emit without the try/catch
AfterThrow(todo) == todo

(* The next handler of the emit runs: it returns or throws, after it took  *)
(* itself or another handler off, or put one on.                           *)
HandlerRuns(throws, reaction, w) ==
    LET c == emission.conversation
        v == emission.todo[1]
        rest == IF throws THEN AfterThrow(Tail(emission.todo)) ELSE Tail(emission.todo)
        told == [seen EXCEPT ![v] = Append(@, emission.publication)]
    IN /\ emission # NoEmission /\ emission.todo # <<>>
       /\ \/ /\ reaction = "none" /\ w = v
             /\ emission' = [emission EXCEPT !.todo = rest]
             /\ seen' = told
             /\ UNCHANGED <<subscribed, due>>
          \/ /\ reaction = "unsubscribe" /\ Contains(subscribed[c], w)
             /\ subscribed' = Dropped(w, c)
             /\ emission' = IF Iterated(c)
                            THEN [emission EXCEPT !.todo = Deleted(rest, w),
                                                  !.live = subscribed'[c] # <<>>]
                            ELSE [emission EXCEPT !.todo = rest]
             /\ seen' = told
             /\ UNCHANGED due
          \/ /\ reaction = "subscribe" /\ Subscribers(w) = {}
             /\ subscribed' = Added(w, c)
             /\ emission' = [emission EXCEPT !.todo = IF Iterated(c) THEN Append(rest, w) ELSE rest]
             /\ seen' = [told EXCEPT ![w] = IF w = v THEN told[v] ELSE <<>>]
             /\ due' = [due EXCEPT ![w] = IF w = v THEN due[v] ELSE <<>>]
       /\ UNCHANGED <<tool, submitted, message, picked>>

(* emit returns; the tool answers with the stored artifact.                *)
EmitReturns ==
    /\ emission # NoEmission /\ emission.todo = <<>>
    /\ submitted' = [submitted EXCEPT ![emission.publication].status = "answered"]
    /\ emission' = NoEmission
    /\ UNCHANGED <<tool, subscribed, seen, due, message, picked>>

----------------------------------------------------------------------------
(* The assistant writes: a piece is finished or still open at the end.     *)
MessageGrows(piece, open) ==
    /\ tool = "up" /\ emission = NoEmission
    /\ \/ /\ message.open /\ message' = [message EXCEPT !.open = FALSE]
          /\ piece = Last(message.pieces) /\ ~open
       \/ /\ ~message.open /\ Len(message.pieces) < MaxPieces
          /\ message' = [pieces |-> Append(message.pieces, piece), open |-> open]
    /\ UNCHANGED <<tool, submitted, subscribed, emission, seen, due, picked>>

(* extractArtifactCandidates: the closed fences, the SVGs outside them (an *)
(* open fence hides nothing), or else the whole message as markdown.       *)
IsOpen(i) == message.open /\ i = Len(message.pieces)
IsFence(i) == message.pieces[i] \in {"code", "mermaid", "fenced svg"} /\ ~IsOpen(i)
IsSvg(i) == \/ message.pieces[i] = "svg" /\ ~IsOpen(i)
            \/ message.pieces[i] = "fenced svg" /\ IsOpen(i)
Fences == {i \in 1..Len(message.pieces) : IsFence(i)}
Svgs == {i \in 1..Len(message.pieces) : IsSvg(i)}
Ranked(name, places) ==
    {[id |-> <<name, Cardinality({j \in places : j < i})>>, piece |-> i] : i \in places}
Snippets ==
    LET found == Ranked("fence", Fences) \cup Ranked("svg", Svgs)
        whole == {[id |-> <<"md", 0>>, piece |-> 0]}
    IN IF found # {} THEN found
       ELSE IF message.pieces = <<>> THEN {} ELSE whole

SnippetKind(s) ==
    IF s.piece = 0 THEN "markdown"
    ELSE IF s.id[1] = "svg" THEN "svg"
    ELSE IF message.pieces[s.piece] = "mermaid" THEN "mermaid" ELSE "code"

(* OpenInCanvasButton: one candidate at once, several by the menu; the     *)
(* page's onPublish sends it to the store, which is what the tool does.    *)
OpenInCanvas(p, s, c) ==
    /\ tool = "up" /\ emission = NoEmission /\ submitted[p] = Idle
    /\ \A q \in 1..(p - 1) : submitted[q] # Idle
    /\ s \in Snippets
    /\ picked' = picked \cup {[id |-> s.id, piece |-> s.piece, early |-> message.open]}
    /\ submitted' = [submitted EXCEPT ![p] =
          [from |-> "button", conversation |-> c, status |-> "storing", version |-> 0,
           artifact |-> [shape |-> "valid", kind |-> SnippetKind(s),
                         flaw |-> IF SnippetKind(s) = "svg" THEN "script" ELSE "none"]]]
    /\ UNCHANGED <<tool, subscribed, emission, seen, due, message>>

ToolNext ==
    \/ DefineArtifactTool
    \/ \E p \in Publications, a \in Candidates, c \in Conversations : CallTool(p, a, c)
    \/ \E p \in Publications, ok \in BOOLEAN : InsertRow(p, ok)
    \/ \E p \in Publications : Emit(p)
    \/ \E v \in Viewers, c \in Conversations : SubscribeTo(v, c) \/ UnsubscribeFrom(v, c)
    \/ DisposeBus
    \/ \E throws \in BOOLEAN, reaction \in {"none", "unsubscribe", "subscribe"}, w \in Viewers :
          HandlerRuns(throws, reaction, w)
    \/ EmitReturns
    \/ \E piece \in Pieces, open \in BOOLEAN : MessageGrows(piece, open)
    \/ \E p \in Publications, s \in Snippets, c \in Conversations : OpenInCanvas(p, s, c)

ToolSpec == ToolInit /\ [][ToolNext]_toolVars

----------------------------------------------------------------------------
(* A sequence whose elements come in the other one, in the same order.     *)
InOrder(part, whole) ==
    /\ ToSet(part) \subseteq ToSet(whole)
    /\ \A i, j \in DOMAIN part : i < j =>
          \E k, l \in DOMAIN whole : k < l /\ whole[k] = part[i] /\ whole[l] = part[j]

(* Between two emits, a viewer whose handler is on the bus was called with *)
(* every publication emitted since it subscribed, in order, and with none  *)
(* twice, whatever the other handlers did in the loop of emit.             *)
DeliveredOnce ==
    emission = NoEmission =>
        \A v \in Viewers : Subscribers(v) # {} =>
            IsInjective(seen[v]) /\ InOrder(due[v], seen[v])

(* What a page shows of a publication, of the tool's or of the button's,   *)
(* was stored and can no longer run: the tool refused it or the renderer   *)
(* stripped it, also when it never passed the tool's checks.               *)
ShownIsInert ==
    \A v \in Viewers : \A p \in ToSet(seen[v]) :
        /\ submitted[p].version > 0
        /\ ~Runs(submitted[p].artifact)
        /\ submitted[p].from = "tool" => ~ToolRefuses(submitted[p].artifact)

(* A candidate the user published from a message without an open piece     *)
(* keeps its id: as the message grows, no other snippet takes it, so a     *)
(* second publication under that id is a new version of the same snippet.  *)
SnippetKeepsId ==
    \A k \in picked : ~k.early /\ k.piece # 0 =>
        \A s \in Snippets : s.id = k.id => s.piece = k.piece

(* What the canvas promises its viewers, part by part.                     *)
ToolKept == ToolTypeOK /\ DeliveredOnce /\ ShownIsInert /\ SnippetKeepsId
=============================================================================
