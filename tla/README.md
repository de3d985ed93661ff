# TLA+ models of theokit-plugins

TLA+ specifications of the plugins of `usetheokit/theokit-plugins`: webhook
deduplication and payment gateways, realtime rooms with their browser side and the
shared Yjs document, copilots, canvas artifacts, sign-in, voice, forms, the database
verbs, and the two gates of the release. TLC checks each of them on a small instance;
TLAPS proves every safety property of the passing runs for every value of the
constants; liveness is left to TLC. `PROJECT.json` lists, for every definition that models code, the lines it models.

    tlc -workers 2 -config MCPayments.cfg MCPayments   # a run
    tlapm AwaitingProofs.tla                           # the proofs of two components

## 1. The system

The repository is a set of plugins for one application framework. They share no
state; each is used by the application, and `plugin-copilot` uses a realtime
provider shaped like that of `plugin-realtime`. Everything runs on the JavaScript
event loop: code between two `await`s is atomic, and every `await`, callback,
timer and generator `yield` is a place where anything else may run. Several
processes (replicas) meet only in a database the consumer supplies.

| component | state it keeps | operations | what is hard | modelled in |
|---|---|---|---|---|
| payments: webhook dispatch (`dispatch.ts`, `idempotent-dispatch.ts`, `webhook.ts`, `plugin.ts`, `server/webhook-controller.ts`) | the claim table (event keys marked processed); handler registry | verify, claim, run handlers, release, answer | retries and duplicates that overlap, several replicas, crashes between claim and release, store calls that fail before or after taking effect, lost responses | `WebhookDispatch` |
| payments: in-memory store (`idempotency-store.ts`) | `seen` set, `inflight` promise map | `markProcessed`, `release` | the promise map across microtasks, release while others wait | `MemoryDispatch` |
| payments: gateways (`providers/stripe.ts`, `providers/abacatepay.ts`, `currency.ts`, `plugin.ts`) | none here; checkouts, refunds, subscriptions at the gateway | checkout, Pix charge, status, refund, cancel, convert an amount, webhook to event | retries after a lost answer, status read while the customer pays, two vocabularies for one contract, rounding | `PaymentGateway` |
| realtime: room connections (`internal/server-integration.ts`, `internal/runtime.ts`, `memory-provider.ts`) | per subscription: queue, `stopped`, waiter; per runtime: `liveConnections`; per provider: presences and listeners of a room | subscribe, join, fan out, broadcast, abort, release | reconnect under the same id before the dead socket is noticed, aborts at every await, slow consumers, bounded queue | `RoomConnections` |
| realtime: Yjs provider (`yjs-provider.ts`) | `rooms` map, per room: members, listeners, memoized `docInit`, `resolved`, `inflight` count | join, leave, subscribe, unsubscribe, apply update / awareness, initial sync | dynamic import under way while members leave, room identity, failing import, who destroys the document | `YjsRoom` |
| realtime: React client (`react/index.ts`) | room state in a ref and as rendered; the local Yjs document | frame reducer, optimistic emit, Yjs edits both ways, unmount | stale closures, patches that overtake one another, echoes, rejected patches | `RealtimeClient` |
| copilot: lifecycle and queue (`internal/runtime.ts`, `agent-room-member.ts`) | registry, `queues`, per registration: `active`, `unsubscribeRoom`, `joined` | register, unregister, activate, deactivate, frame, invocation | every method awaits between reading and writing the registry | `CopilotLifecycle` |
| copilot: dispatcher, triggers (`internal/runtime.ts`, `internal/trigger-evaluator.ts`) | round-robin cursor and memo, idle trackers and timers per room | choose responders, idle checks | per-copilot queues that lag behind a per-room memo, one timer for several copilots | `CopilotDispatch` |
| copilot: budget (`internal/budget-bridge.ts`, `runAgent`) | holds per bridge; committed spend in the SDK | reserve, reconcile, release | check and hold against shared spend, settle exactly once whichever await rejects, windows that roll over | `CopilotBudget` |
| copilot: plugin and React surface (`define-copilot.ts`, `plugin.ts`, `react/`) | messages, presences, last error | define, mount, fold frames and snapshot, submit | a snapshot that arrives among frames, capped history, ids after the cap | `CopilotClient` |
| canvas: store and routes (`store.ts`, `route-handlers.ts`) | versions per artifact, in a map or an SQL table | create, get, list, delete | get / next version / insert with awaits in between, deletes in between, two stores for one contract | `ArtifactRequests`, `ArtifactStore`, `MemoryArtifacts` |
| canvas: panel (`ui/use-canvas.ts`, `ui/canvas-reducer-handlers.ts`) | history of versions, pointer, open | publish, show, select, remove | optimistic entries, re-numbering, rollback, lost answers | `CanvasPanel` |
| canvas: tool, bus, extraction (`define-artifact-tool.ts`, `schema.ts`, `server/artifact-bus.ts`, `ui/extract-artifacts.ts`) | handlers per conversation | call the tool, emit, subscribe, unsubscribe, dispose, open a snippet | a Set that handlers change while it is iterated; ids of snippets of a growing message; a path around the tool's checks | `ArtifactTool` |
| auth: magic link (`auth-magic-link`, `plugin-email`) | hashed tokens with expiry, in a map or a table | issue, send, consume, revoke, clean up | single use under concurrent clicks, expiry between check and update, mail that fails after the token is stored | `MagicLink` |
| auth: Google and GitHub (`auth-google`, `auth-github`) | none; one transaction in a cookie | authorization URL, callback | two tabs and one cookie, reloaded callbacks, a discovery document that changes, which e-mail is verified | `OAuthSignIn` |
| voice: recorder (`recorder.ts`, `ui/voice-recorder-bar.tsx`, `server/stt-server.ts`) | recorder state, stream, promises | start, stop, release, browser events, transcribe | permission pending while the page goes, errors during a stop | `VoiceRecorder` |
| voice: speech (`ui/use-tts.ts`, `server/tts-server.ts`) | refs to controller, audio element, blob URL | speak, stop, unmount, media events | a stale call that resumes after a newer one | `SpeechPlayback` |
| forms (`plugin-forms`) | react-hook-form's values and errors | render, edit, submit, settle, reset | answers that arrive after an edit or a reset; a form-data encoding that must say what the schema accepted | `ActionForm` |
| database CLI (`plugin-db-drizzle`) | the rendered drizzle config on disk | resolve options, seven verbs | a config left by an earlier run | `DatabaseCli` |
| release gates (`scripts/validate-manifests.mjs`, `tools/check-doc-api-drift.mjs`, `tools/lib/markdown-fences.mjs`) | none | validate a revision, validate a page | what the gate cannot read must not count as checked; version and fence boundaries | `ManifestGate`, `DocGate` |
| e-mail delivery (`plugin-email`) | none | one HTTP call per message | - | only as the sender of `MagicLink` |
| MDX | an empty directory | - | - | nothing to model |

What makes each of them correct:

* **webhooks** - handlers of one event never run concurrently; exactly once after
  a success; a failure leaves the event free to be retried; nothing but a replay is
  called a duplicate; every delivery is answered.
* **gateways** - an answer is true of the gateway; a keyed retry repeats nothing; a
  converted amount is the nearest the currency has.
* **rooms** - presence means a live connection; a listener lives as long as its
  connection; a connection that goes on has missed no frame; an abort releases.
* **React client** - when nothing is under way any more it shows what the server holds.
* **Yjs** - one document per room, alive while anybody uses it, destroyed when
  nobody does; everybody who listens ends with all edits.
* **copilot** - one invocation at a time; nothing runs after `deactivate`; listener and
  presence follow activation; an idle timer belongs to somebody who listens; spend and
  holds stay within the limit; every hold is settled once; the chat shows the newest messages.
* **canvas** - no version is acknowledged twice; a publish is newer than what its
  author saw; both stores answer alike; the panel shows what exists; viewers get each
  publication once, in order, and nothing that runs.
* **sign-in** - a link works once, for its recipient, while valid; an identity is that of the
  account which approved the browser's own transaction.
* **voice** - a live microphone is one the recorder will release; one voice plays, the newest.
* **forms, CLI** - what leaves (a body, an argument vector) says what was accepted or configured.
* **gates** - a green verdict means what it says about every manifest and every example.

## 2. The modules

Each `MC...` module gives names and functions to the constants of the modules it
extends; each `.cfg` is one run. Definitions named `Mut...` are variants of the
definition they stand before, with a plausible bug put in. They are used by
nothing: replacing the definition by its variant makes the property it is listed
with in `PROJECT.json` fail, which shows that the property depends on the code.

**Parts.** Components that share no state are explored by one run, side by side and
never together: `MCPayments`, `MCAwaiting`, `MCCanvas` and `MCSystem` have a variable
`part` that the initial state chooses and no step changes; only the part it names takes steps, the
others stay in their initial states. The state space is the sum of those of the parts, not
their product, nothing is lost (no action of one reads a variable of another), and a
property of one part is trivially true of the states of the others. Each component
remains a specification of its own (`GatewaySpec`, `MagicSpec`, `YjsSpec`, ...), which is
what the theorems are about. Properties named `...Kept` are conjunctions of named parts, each
with its comment where it is defined.

### WebhookDispatch - one HTTP delivery after another, on any replica

`pc[d]` is where delivery `d` is in `processPaymentWebhook` / `runIdempotently`:

    unsent -Send-> received -Verify-> marking -MarkNew-> dispatching -Succeed-> ok
                      |                 |                   |  ^RunHandler
                      v                 +-MarkDuplicate->   +-Fail-> releasing -Release-> error
              invalid, malformed             duplicate

`claims` is the claim table, `left[d]` the handlers of the bucket still to run,
`threw[d]` whether one threw. `insertNew` on a UNIQUE column takes effect at one
instant during the call, so `MarkNew` is one step. The answer `false` may reach
the caller later: `contended` remembers that the key was in the table at some
instant of the pending call, and `MarkDuplicate` needs just that. Faults are a
constant, so one module serves the runs: `crash` (a replica's requests die; its
claims stay in a durable table), `insert` and `release` (the store call rejects,
before or after taking effect), `response` (the 2xx is lost). `handled`, `orphans`
and `acked` are history variables. `Verify` may answer 400 (signature) or throw
(anything else). The Stripe-only path (`webhook.ts`) is the same sequence of steps with a
single gateway.

### MemoryDispatch - the same, with `createMemoryStore` instead of a table

`markProcessed` becomes `Join` / `Create`, `Settle` (the microtask that checks and
adds to `seen`), `ResumeCreator` (removes the map entry, whoever set it) and
`ResumeWaiter`. The steps interleave freely, which contains every order the
microtask queue can produce. The rest of a request is WebhookDispatch's. The
refinement mapping puts the claim at the instant the promise settles `true`: a
delivery still in `markProcessed` whose promise is `true` is already
`dispatching` for the abstract specification. `ImplementsAtomicStore` is
WebhookDispatch's specification without fairness under that mapping, and is what
`idempotency-store.ts:20-37` promises of any store.

### PaymentGateway - calls that cross a gateway with a state of its own

`Wire` constructs a provider from its options. `call[c]` is a call of the neutral
contract: issued (`CreateCheckout`, `CreatePixCharge`, `RetrieveCheckout`, `Refund`,
`RefundPartial`, `CancelSubscription`), served by the gateway at one instant
(`GatewayCreates`, `GatewayReads`, `GatewayRefunds`, `GatewayCancels`, whose answer may be
lost), `Resolve`d, failed, or `Retry`d under the key it had. `ticket[t]` is a checkout or Pix charge at the gateway:
its page, its money, its subscription, what was refunded. `Pay`, `CompleteUnpaid`
(a delayed payment method), `Clear`, `Expire` are the customer's and the bank's, and put
webhooks into `outbox`; `DeliverWebhook` maps one to the event the dispatcher gets, `told`.
`FormatAmountForStripe` is the conversion, on amounts in ten-thousandths.

### RoomConnections - the subscription generators of one room

A handle `h` is one subscription attempt, `ConnOf[h]` its connection id. `pc[h]` is
where its generator is: `idle`, `authorizing` (awaits `authorize`), `joining`
(awaits `joinRoom`; its listener and presence are already there), `run` (about
to test the loop condition), `waiting` (on its waiter promise), `yielded` (the
transport has the frame), `closed`, `refused`. `Fanout` is `fanout` with the
`onFrame` of every listener; it is called by `Join` (`joined`), `Release` (`left`)
and `Broadcast`. `Release` is `handle.release()` with the `releaseConnection` and `leaveRoom`
it calls, all of which run without yielding with the in-memory provider. Frames are
numbered by `sent`. `Open` may refuse: rooms may be unregistered at any time.

### RealtimeClient - the browser at the other end

`ref` is the `stateRef` the frame loop writes, `view` what the last `Render` showed: an
`EmitPatch` computes from `view`, as the callbacks of the hooks close over it, while
`DeliverFrame` folds `down` into `ref`. Patches in `up` are requests of their own and reach
the server (`DispatchPresence`: schema check, merge, echo) in any order; `members` is what
it holds. `LocalEdit`, `DispatchYjs` and `PeerEdit` carry the edits of the document;
`StreamEnds`, `UnmountRoom` and `LoopReturns` end the subscription.

### YjsRoom - the document of one room

A `RoomState` has an identity, because closures and awaiting operations may hold
one the `rooms` map has dropped: `states` is every one ever made, `current` the one
in the map. A document is named by the run of the `docInit` factory that made it
(`inits`). `EnsureYjs` is the synchronous part of an operation up to the await,
`ResumeUpdate`, `ResumeAwareness` and `ResumeSync` what follows, with the
`finally` block and its `gcIfEmpty`. The CRDT is a set of edits per document.
The belts (a membership re-check after each await, `ensureYjs` destroying a late
document) are modelled as the code has them; `NoApplyAfterDestroy` shows that the
reference count makes them unnecessary.

### CopilotLifecycle - one copilot id

`regs` is every registration made, `registry` the one the id maps to. A lifecycle
call `k` is somewhere between its awaits (`peers`, `joining`, `subscribing`;
`draining`, `leaving`). `tasks` are the invocations enqueued, each with the one
its promise is chained to, and `queue` the tail the `queues` map holds. `Begin`
chooses whether the invocation does anything (trigger, dispatcher, budget) and
`End` ends the agent. `Overlapping` says whether the application may call before
an earlier call has settled.

### CopilotDispatch - several copilots in one room

`frames` is what the room was sent; each copilot works through it at its own pace
(`Skip`, `IgnoreCopilot`, `Handle`, which evaluates triggers and asks the dispatcher, `Suggest`,
`AgentEnds`). The round-robin cursor and memo, the idle tracker and `timer` belong to the
room. `Enlist`, `Awaken`, `Doze`, `Dismiss` are the lifecycle, one call awaited before
the next; `churn` remembers that two copilots may have seen different registries.
Time is its effect: `GoIdle` makes a person stale, `IdleCheck` is a timer that fires.

### CopilotBudget - the invocations of one copilot against its budget

`run[i]` is where `runAgent` is: `typing` (the hold is taken), `streaming`, `charged`, `answered`,
or `failed` by a rejection at any await, then `closing` (the `finally` block), `done`. `holds` are
the holds of the bridge, `settled` the reservations given back or charged, `spent[w]` the charge the SDK
has committed in a window, which `Roll` starts again. `overrun` is
by how much single agents cost more than the estimate, which no reservation can prevent.

### CopilotClient - the chat a copilot answers in

`DefineCopilot` refuses or accepts a descriptor. `people` is the room, `pipe` the
frames on their way, `answer` the snapshot of presences, which keeps its place among
them with an in-order provider and comes late otherwise (`raced`). `panel` is what the
provider component holds, `transcript` the reference: the roles of all messages there ever were.

### ArtifactRequests, ArtifactStore, MemoryArtifacts - the artifact routes

`ArtifactRequests` is the handler of `POST /artifacts` without a store: `pc[r]` goes
`received`, `getting`, (`numbering`,) `inserting`, `created` or `refused`, one step per
await, and `draft[r]` is the artifact it is about to insert, its contents named by the
request. `ArtifactStore` adds the SQL table: a set of rows with a primary key.
`MemoryArtifacts` adds the in-memory map of ascending sequences instead, and
`ImplementsTable` states that it is the table under the mapping
`table <- AllRows`: the step after each store call depends on the answer, so the answers
of `get`, `nextVersion` and `insert` are compared as well. `ListsAgree` compares listings.

### CanvasPanel - one useCanvas hook, composed with MemoryArtifacts

`history`, `pointer` and `open` are the reducer's state; `fetching` holds the
artifacts of `publish()` calls awaiting their answer, as sent. `Publish` is at once
the optimistic `show` and the POST that `MemoryArtifacts` then serves. `Persisted`,
`RolledBack` and `NetworkFailure` are what the hook does with the outcome;
`PostElsewhere` is everybody else's POST, `Reload` a page loaded again.

### ArtifactTool - from the agent to the viewers

`CallTool` runs the schema and the security gate on a candidate `[shape, kind, flaw]`;
`InsertRow` and `Emit` are the application's `onPublish` as the README of the plugin wires
it. `emission` is the loop of `emit` over the live `Set`, one `HandlerRuns` at a time; a
handler may throw, unsubscribe or subscribe, as a JavaScript `Set` allows while it is
iterated. `MessageGrows` adds a piece to a message under way, `OpenInCanvas` publishes a snippet of it
under the id `extract-artifacts.ts` derives, and skips the tool's checks.

### MagicLink - tokens, clicks, a clock

`row[t]` is the stored token, `mailbox` the mails that arrived. A start goes
`StartSignIn`, `CreateToken`, `SendMail`, each of which may fail. A click is one step in the memory
store (`ConsumeInMemory`) and two with a repository: the conditional update
(`ConsumeAtomically`) at one instant, then `CheckExpiry` against a clock read earlier.
`CleanupExpired`, `Revoke`, `Restart` (the map is lost, the table stays) come at any time.

### OAuthSignIn - Google and GitHub

A flow `f` is a transaction; the one cookie of a browser holds the last one started.
`Consent` is the account owner's approval, `Arrive` a callback with the code and state of a flow,
`Discover`, `Exchange`, `GoogleProfile`, `GitHubProfile`, `GitHubEmails` the requests
of `handleCallback`, each of which may fail. A code is spent by its first exchange.

### VoiceRecorder and SpeechPlayback

`rec` is the closure of `createRecorder`, `bar` the component, `media[r]` and `tracks` the browser's
recorder and microphone of recording `r`; permission (`GrantMic`, `DenyMic`), the media
events and a lost device come when they like. The route is `SttReceives`, `SttAnswers`, `Finish`.
In `SpeechPlayback`, `speak[s]` is where the s-th `speak()` is between its awaits; `owner`,
`audioRef` and `urlRef` are the refs all calls share. `EmptySource` is the `error` event an
element raises after its source was removed.

### ActionForm, DatabaseCli

`ActionForm`: `values` and `errors` are react-hook-form's, `submits[s]` a submit with
what it sent, and `stale` the fields changed since. `ValuesToFormData` is an operator on
pairs of path and value; `Rebuilt` is the server's reading, the reference it is checked
against. `DatabaseCli`: `DeclareDatabase` resolves options, `RunVerb` does everything a verb does,
rendering the config included; `spawned` is what the last one handed to drizzle-kit.

### ManifestGate, DocGate

`ManifestGate`: commits (`ChangePeer`, `ChangeDev`, `ChangePlugin`, `DropMetadata`) change the
manifests and sources, `RunGate` gives a verdict, `ReleasePackages` publishes a green
revision, `RegisterPlugin` is an application that uses it. `Satisfies` and `IsBelow` are semver, the gate's own checks
are as the script has them. `DocGate`: the page is a sequence of lines, `Scan` the loop of
`splitFences` in `markdown-fences.mjs`, with the fence under way and the blocks so far, `SplitFences` what
it returns, `Join` the loop that joins examples to units. `FenceOpen` is the reference: which fence a
reader is in after each line. Days pass, names are removed, deferrals expire.

## 3. The runs

| run | states | what it shows |
|---|---|---|
| `webhook_durable` (`MCPayments`) | 80,621 | *dispatch*: three deliveries of one event on two replicas and one of another gateway's event with the same id; two handlers, or none; all four faults: mutual exclusion, exactly once on success, accounted claims, no false duplicates, every delivery answered. *gateway*: true answers, safe retries, close amounts |
| `webhook_memory` | 155,284 | four deliveries of one event, restarts: the in-memory store implements the contract, and waiting callers are answered |
| `webhook_acked` | violated | a duplicate is acknowledged with 200 while the event is still being dispatched, and the dispatch then fails |
| `payment_unpaid` | violated | a Stripe session that completes before a delayed payment clears is announced as `checkout.completed`, which runs `onPaid` |
| `room_connections` | 582,323 | two attempts under one id and one of another client, queue limit 2, two broadcasts |
| `room_owner` | violated | the window between `joinRoom` and `liveConnections.set` lets a superseded release remove the presence of its successor |
| `awaiting` (`MCAwaiting`) | 351,458 | *yjs*: a member, two listeners, two edits, a cursor; the room is made twice, the load of yjs run twice. *copilot*: four calls that await each other, two registrations, three invocations |
| `copilot_replaced` | violated | registering an id again ends with the id unregistered |
| `copilot_overlap` | violated | an activate that overlaps a deactivate ends with two invocations at once |
| `canvas` (`MCCanvas`) | 890,110 | *panel*: two publishes of a panel and a request of somebody else, two artifacts, versions 1 and 3 as sent, deletes at any time. *tool*: eight candidates, two publications, two viewers |
| `canvas_replaced` | violated | a re-numbered artifact stays in the panel under the version it was sent with |
| `system` (`MCSystem`) | 1,399,275 | twelve parts, one property each: client 511,481 states, magic link 286,111, dispatch 261,167, chat surface 94,490, documentation gate 94,432, budget 80,992, manifest gate 26,766, form 22,482, OAuth 10,375, speech 5,357, CLI 5,263, recorder 359 |

Each passing run takes between a quarter of a minute and two and a half minutes with two workers. The six
violated runs are disagreements between a comment and the code; each is
explained, with the line quoted, under "findings" in `PROJECT.json`.
`OwnerIsPresent` is not among the properties of `room_connections` for that
reason, and `awaiting` assumes that lifecycle calls are awaited because the
properties do not hold otherwise. Nothing in the code enforces that usage.

`canvas` and `system` use symmetry: over the two publishes and over the two artifacts
(also viewers), and over `p1, p2` (invocations, clicks, callbacks) and `a, b` (tokens, flows,
packages). The elements of a pair are told apart by no definition, and neither run has a
liveness property, which symmetry would not preserve.

### Bounds, and why they are enough

* *Deliveries*: a race needs two, a third observes the result or holds the claim
  while two race, the fourth is the other gateway's (durable) or a late retry
  (memory). Each is a request of its own, so a retry is another delivery.
* *Gateway*: two calls and two tickets: a call and its competitor (a refund while a status is read, a
  retry that opens a second checkout). The amounts are those where rounding changes: a half
  either side, zero, the largest.
* *Handles*: two of one id (predecessor and successor) and a bystander. A third
  of the same id repeats the relation of the first two; the proofs cover any number.
* *MaxQueued* is 2 where the code has 1024: empty, part full, full, and overflow
  all occur. *MaxFrames* bounds only what clients broadcast; the `joined` and
  `left` frames of the handles come on top, up to six.
* *Client*: two patches on each side (one in flight while another overtakes it), one peer that joins,
  leaves and changes, one subscription (*MaxRooms* 1, see "What the model shows").
  `PromptServer` is on: React has rendered the newest state when the user acts. Without it a patch may be
  computed from an older rendering, and the code lets it replace what came in between.
* *MaxStates, MaxInits* = 2: a room that was evicted and made again; a load that
  failed and was retried, or a second document.
* *MaxRegs* = 2, *MaxSubs* = 3, *MaxTasks* = 3: a registration and its
  replacement; one task running, one queued behind it, and one more.
* *Dispatch*: two copilots, two frames, one idle check that finds everybody idle: a copilot a frame behind
  the other, a timer the other has replaced.
* *Budget*: three invocations, an estimate of 2 against limits of 4 and 5: two fit, the third must not; two windows with
  different limits; agents that cost more or whose cost is unknown.
* *Surface*: four events and a cap of 2: messages on both sides of the cap, presences
  before and after the snapshot.
* *Requests* = 3: two that race for a version and a third that inserts or
  deletes between them, so that sequences have gaps and up to three versions.
  Versions sent are 1, the default, and 3, which leaves a gap below it.
* *Tool*: one candidate for each way a kind can be dangerous, one valid, one too large; two pieces
  of a message, so that a later one may take the place of an earlier one.
* *Magic link*: two tokens (one of another address), two clicks, a lifetime of one tick and two
  ticks: before, at and after expiry. *OAuth*: two tabs, two callbacks, two accounts.
* *Voice*: three recordings, three `speak()` calls: one that is stale, one it gave way to, one more.
* *Form*: two submits and two edits, so that each answer may come first and an edit may fall
  before, between and after. *CLI*: two runs, the second over the file of the first.
* *Gates*: two packages, two commits, versions around each boundary of a range; three passages and one day.

`CHECK_DEADLOCK FALSE` everywhere: each instance has finitely many deliveries,
attempts or calls and stops when they are done. Where everything must finish
a liveness property says so.

### Fairness

Weak fairness, and only of what the runtime really keeps doing: the event loop
resumes a continuation whose promise has settled (`Serve`, `Joined`, `Run`,
`Resume`, ...); handlers, `authorize`, the dynamic import (`Settle`) and the agent's stream
settle (the code sets no timeout on them, so a handler that never settles does
hang its delivery); the transport takes the next frame or gives the generator up.
There is no fairness on what others choose to do: gateways, clients, aborts, crashes,
broadcasts, lifecycle calls, failing store calls. `EveryDeliveryAnswered` counts
a delivery whose replica died as ended. The parts of `MCSystem` and `MCCanvas` state no
fairness: their properties are about what is reached, not about what must be.

## 4. What is proved

All theorems are about the specifications as TLC checks them, for every value of the
constants that satisfies the assumption of the module (`ConstantsAssumption`, `RoomAssumption`, ...; TLC
evaluates each of them on the runs). They say that a bound is a natural number, that two sets of names are disjoint, that
`Durable` or a single replica holds and the faults are among the four named, that `MaxQueued` and `Cap` are positive,
that the values a form, a verb or a manifest may hold are of the types the code gives them. Invocations of a budget,
operations on a document and packages of a release have to be finite sets, because a sum of holds, a reference
count and a number of unresolved plugins are cardinalities; no other set has to be.

Four theorems have a hypothesis of their own, which is the setting of the run that checks the property. The three of
`CopilotLifecycle` assume `~Overlapping`: the application awaits each lifecycle call. Without it they are false, as
`copilot_overlap` shows. `ClientShowsRoom` assumes `PromptServer`: React has rendered when the user acts, and its
part about presences (`ViewConverges`) speaks of the first room of a provider, whose state a change of room does not reset.

The eight proof modules, by what they need beyond the property: hardly any of the properties is
inductive alone.

**PaymentsProofs**

* *Webhook dispatch*: `TypeCorrect`, `MutualExclusion`, `ExactlyOnceOnSuccess`, `ClaimsAreAccounted`,
  `DuplicatesAreReplays`. A step that takes the claim must know that nobody who is
  dispatching lacks it, and one that releases it that no one else relies on it. `IInv` therefore adds that the busy
  delivery of a key is unique and has its key claimed (`KeyExclusive`), that a handled
  event's key stays claimed (`HandledKeepsClaim`), and that a key in the table, or
  seen there by a pending call, was put there by a delivery of that event
  (`Claimants`), which is what makes a duplicate a replay. `KeyInjective` shows
  that `ClaimKey` tells events of different gateways apart: there the namespace is needed.
* *In-memory store*: `MemoryIsKept` and `MemoryStoreImplementsContract`: the initial states map to initial states and
  every step to a step of `WebhookDispatch` or a stutter. `MemInv` links
  the promise map to program counters: a caller that is still marking while its key
  is claimed has seen it claimed (`Informed`); an entry of the map is the promise of a
  caller of that key, and if it has settled the key is claimed (`Published`); a waiter's promise
  was made by another delivery of its key (`Awaiting`); a pending promise is in the map (`Pending`).
* *Gateways*: `PaymentsAreKept`. An answer stays true because what it says of a checkout cannot be taken back
  (`TicketsGrow`: what is paid, expired or cancelled stays so) and because nothing is paid while the page is open
  (`PageLeads`). A keyed retry repeats nothing because at Stripe the reply it had is remembered
  (`PartialsRemembered`, `SessionsRemembered`). The rounding bounds are arithmetic over all amounts.

**RoomConnectionsProofs**: `QueuesAreBounded`, `PresencesAreLive`, `RoomsAreAccounted`, `FramesAreNotLost`.
The recorded owner of an id is a handle that is in its loop (`OwnerLoops`), and every presence has an owner
or a handle that is still joining (`PresenceHeld`). That no frame is lost is a statement about contents: what a client was
given and what is queued for it are the frames up to the last one, each in its place (`GapFree`), which an append at
one end and a take at the other keep (`GapFreeAppend`), and nothing is queued before the subscription (`UnheardIsEmpty`).

**AwaitingProofs**

* *Yjs*: `DocumentsAreOwned`, `DocumentsAreAlive`, `ListenersHaveDocument`.
  `YjsInv` ties the reference count to the operations it counts: `inflight` of a
  state is the number of operations that wait on it (`Counted`), so a state somebody waits on is
  never evicted (`Evicted`), and the document an operation resumes with is the one its room
  still holds (`DocSound`, `LoadAwaited`). At most one document lives (`OneLive`). For the listeners,
  `Synced`: whoever listens has every edit of the living document or has a `ResumeSync` still to come.
* *Copilot lifecycle*: `InvocationsAreSerial`, `RoomAgreesWithRegistration`, `DeactivateDrains`. `InOrder` says that
  the chain of promises is one line: an invocation waits for the one before it, or everything before it is done,
  and the tail in the map is the last unless nothing is left to wait for. `CallsAgree` says, for each await of each
  call, what the call has done by then (`Activating`, `Draining`, `Departing`, `Removing`), and what holds between calls
  (`Resting`): the listener in the room is the one `deactivate` would remove.

**ArtifactStoreProofs**: `TypeCorrect`, `VersionsAreNotShared`, `PublishesAreNewer`. An acknowledged row is in the
table until it is deleted (`Kept`), the key is unique (`PrimaryKey`), and what a request remembers
of its id is still in the table (`Remembered`), which makes `MAX(version) + 1` exceed it.

**CanvasProofs**

* *Memory store and panel*: `MemoryIsTheTable` proves the refinement `ImplementsTable` step by step: the sorted insertion
  keeps the rows of an id ascending and without duplicates, and the filter takes out the row asked for. `PanelPublishesAreKept` then takes
  the lemmas of `ArtifactStoreProofs` for the table of the mapping (`INSTANCE ... WITH table <- AllRows`). `PanelIsKept` needs that the
  versions in the history are bounded (`Bounded`), so that a latest one exists when the selected one goes.
* *Tool and bus*: `ArtifactsAreDelivered`. `Delivered` speaks of what a viewer will have been told once the loop over the live `Set` is
  over (`Coming`): that is in order and complete for whoever is subscribed, at every step of the loop. A snippet keeps its id because the number of
  snippets before it does not change when a message grows behind it (`PicksStand`).

**CopilotProofs**

* *Budget*: `BudgetIsKept`. A settlement needs to know that the hold it turns into a charge is there and has not been
  settled before (`SettledIsOver`), and a window that starts again needs the holds alone to be within its
  limit (`HeldWithinLimit`).
* *Dispatcher*: `RunsAreCalled`. Queues hold frames that were sent (`QueuesKnown`), the idle timer is one
  copilot's that listens (`TimerHeard`), and under first-wins whoever ran is first in the registry (`FirstRuns`).
* *Chat*: `SurfaceShowsRoom`. Convergence as an invariant: the last frame on its way about somebody says how they are
  in the room, and without one they are shown so already (`LastWord`); a late snapshot is of the room as it is
  until a presence changes (`SnapshotHolds`). `NewestShown` gives each message its place in the transcript.

**PageProofs**

* *Magic link*: `LinkIsKept`. A row follows its sign-in (`RowFollowsSignIn`) and a click carries the address and time of its row
  (`ClickFollowsLink`). The race rests on the lemma `RowHistory`: no step makes a spent row live again, in either store.
* *Google and GitHub*: `SignInIsKept`. A callback past the checks is of the transaction the browser
  carried, which was approved (`OnTransaction`); one with an account has spent that transaction's code (`AfterExchange`), so no
  other callback has (`OneRedeems`).
* *Recorder*: `MicrophoneIsKept`. Whatever is live is the last recording's (`OnlyLastLives`, `TracksHeld`), stop
  and upload are about it (`WaitsForLast`), and the bar shows where it is (`BarFollows`): a late
  event cannot answer another recording.
* *Speech*: `OneVoiceAtATime`. `OneVoice` is inductive once it is known that the
  unmount has cleared the owner (`SpeechInv`); every step either calls the clean-up, whose
  lemma `CleanupSilences` does the work, or first compares its controller with the owner.
* *React client*: `ClientShowsRoom`. As in the chat, the last frame on its way about a member says what the server
  holds (`LastTold`); the first frame names this client and no other does (`NamedFirst`); an edit is here, on the wire,
  at the server or lost with the stream (`EditsKept`).
* *Forms*: `FormIsKept`. The entries of a path stand together in a body, in the order of their values (`Block`), so what the server
  rebuilds is what was sent, for lists of any length; a pending answer is about values still in the form,
  except at the paths edited since (`PendingAreAboutValues`).

**ToolingProofs**

* *Database CLI*: `CommandLineIsWhole`. The arguments are whole for any options; what drizzle-kit reads is the configuration
  written in the same step, whatever stood there (`Declared`).
* *Manifest gate*: `ReleaseIsKept`. Versions are ordered (`VersionsOrdered`), the floors of the three range forms
  follow from the checks (`PeersFollow`), and decorations from keys that are distinct (`DecorationsFollow`).
* *Documentation gate*: `DocsAreKept`. Two automata run over the page: the scan that cuts fences and the reference that says
  what a reader is in. `LineSplits` compares them on one line, `ExamplesAreCut` on the whole page: every line of an example is in the
  body of a block cut from the page. `ExamplesAreCompiled` does the same for the units.

Both scans are recursive functions, and both need an induction over the page. The library's induction theorems take an operator, which
no installed prover can instantiate, so `ThroughAll` derives what is needed from
`NatLessThanWellFounded` and `WFMin`: a set that contains 0 and each successor within a range contains the
range. `ScansExist` derives from it that such a recursive function exists, which its equation needs.

Model-checked only: the liveness properties (`EveryDeliveryAnswered`, `EveryCallerAnswered`,
`AbortedIsReleased`, `EverythingSettles`, `EmptyRoomCollected`), because liveness under fairness and `ENABLED` are out of
the prover's reach. So are the six violated properties, of course, and the statements of the next section.

## What the model shows and no run repeats

Statements that a comment or a README makes, or that one would expect, and that fail in a model here. Each is stated
beside the properties of its module where it has a name, and TLC finds it violated with
`MCSystem.cfg` when it is given as the invariant, with another bound where one is named; none is among the runs,
which keep the six whose consequences are largest.

* `MicOffAfterUnmount` (`VoiceRecorder`; `voice-recorder-bar.tsx:114-115` says that an unmount turns the
  microphone off): a page left while permission is pending leaves the stream live when it is
  granted, because `release()` finds no stream yet and `doStart` goes on.
* `PhaseIsOfOwner` (`SpeechPlayback`; `use-tts.ts:153-155` says that a stale call never overrides the state):
  the `error` event of an element whose source was emptied, after `stop()` or the end of a clip, sets the phase to "error".
* `RoundRobinOnce` (`CopilotDispatch`; `internal/runtime.ts:389-393` says once per frame): the memo holds one frame, so
  a copilot that is behind overwrites the decision of the other and moves the cursor again. With
  `MaxFrames` 3, one copilot handles three frames before the other handles the first, and both answer it.
* `OthersAreOthers` (`RealtimeClient`; `plugin-realtime/README.md:105`): the first `joined` frame names this
  client, and one that follows a change of `roomId` (`MaxRooms` 2) comes from a new connection id, which is
  taken for somebody else's.
* `OrphansAreReported` (`DocGate`; `markdown-fences.mjs:93-94`): the orphan is noted on the first block, and is not
  reported when that block is no example; a marker with the text of one that is attached counts as attached.
* A provider that unmounts leaves its subscription open until the next frame: the `AbortController`
  of `react/index.ts:381-433` is aborted but never given to `subscribe()`. `ClientKept` speaks of mounted providers.
* A `roomId` that changes resets neither presence nor others, so `ClientKept` is about one room. `MaxRooms` is 1 for that reason.
* The two artifact stores differ in listing the latest versions under a
  filter (the memory store filters the latest version of each id, `store.ts:130-141`; SQL takes the
  latest of those that match, `store.ts:383-394`), and in deleting an id that does not exist (silent in memory,
  `store.ts:157-158`; `CanvasArtifactNotFoundError` in SQL, `store.ts:424-426`). The first is why
  `ListsAgree` has no filter in its second conjunct; the second changes no state.

## 5. What the models leave out

* The computation of signatures and hashes, HTTP parsing, the redaction of logs: verification is a
  choice of outcome, a token is a value of its own.
* Presence schemas beyond "fits or does not", and the reserved connection ids of copilots.
* The merging of Yjs edits: a set union, which is what a CRDT promises.
* Handler code of the application: it throws or it does not. The agent of a copilot: it streams, ends or throws.
* A listener that throws: `fanout` catches it and the loop goes on.
* Artifact contents: a candidate is its shape, kind and flaw. Pagination and the
  order of listings. A database driver that throws.
* The `error` value of `useCanvas`, which every other dispatch clears or sets, and `publish` without an endpoint. An
  artifact whose request gets no answer stays on screen: the code rolls back only on an answer.
* A provider whose `joinRoom` or `leaveRoom` rejects: the one in the repository never does.
* Two copilot bridges that share one budget by name across a re-registration.
* What is external and follows the code's use of it: the payment gateways, the SDK budget, React,
  react-hook-form, identity providers, the browser's media, drizzle-kit, npm, the TypeScript compiler.
* Microtask order: continuations run in any order, a superset of the real ones. Every
  violated run was read against the code for an order the event loop can produce.

### Not modelled

* **E-mail delivery**: one HTTP call per message and no state; its failure is a step of `MagicLink`.
* **MDX**: the directory holds no code.
* **Markup and styling**: the React components of canvas renderers, chat and bars have no state beyond the hooks modelled.
* **Schema tables, tests, examples, build files**: declarations, or code no user runs.

## 6. Plan

The components are modelled and their safety properties proved; what is left, in order of importance:

1. The contract of `consumeAtomically` as a specification of its own, with `MagicLink` over both stores shown to
   implement it; the single use in `LinkIsKept` would then follow from the abstract one.
2. An order-preserving channel as a specification of its own, which `RoomConnections` implements for a connection
   that is not stopped and which `RealtimeClient` and `CopilotClient` assume: `LastTold` and `LastWord` are one idea, proved twice.
3. A contract for `useCanvas`, from publish to acknowledgement, that `CanvasPanel` implements where its
   answers arrive.
4. A realtime provider with I/O, whose `joinRoom` rejects after the subscription was made.
5. `RealtimeClient` composed with `RoomConnections`, so that overflow and reconnects reach the browser.
