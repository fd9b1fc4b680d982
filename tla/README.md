# A specification of the Octo channel plugin

The plugin (`src/src/hermes_octo_plugin/`) connects the Hermes agent gateway to the Octo
messenger: it runs one or several bots, receives their messages over a websocket, decides which
bot owns which conversation, starts agent turns, and delivers answers, interactive cards and
progress cards over HTTP. This directory holds TLA+ modules that model its stateful parts, TLC
configurations that check them on small instances, and proofs for TLAPS. Paths below are relative
to `src/src/hermes_octo_plugin/`.

- [The system](#the-system): the parts, their state and operations, and what makes them hard
- [Modules](#modules): which module models which part, and how
- [Runs](#runs): what is checked, the bounds, the fairness
- [Findings](#findings): where the code and its documentation disagree
- [Proofs](#proofs): what holds for every value of the constants, and why
- [What is only model-checked, and what is not modelled](#what-is-only-model-checked-and-what-is-not-modelled)
- [Plan](#plan)

## The system

One process holds one `OctoAdapter` (the gateway's platform object) with one `IdentityRuntime`
per configured token. All network I/O runs in one asyncio event loop. Worker threads write files;
hooks of the agent's own threads report progress. What outlives a crash is a handful of JSON files
per profile.

| Part | State | Operations | Talks to |
|---|---|---|---|
| Identity route registry (`identity.py`) | maps session → robot and chat → robot with tombstones, reverse index, dirty flag; two snapshot files | `bind`, `bind_plan` and its rollback, `forget_target`, `flush`, `load` | runtimes bind on every inbound message; delivery looks up; worker threads persist |
| Identity startup (`identity.py`, `adapter.py`) | metadata sentinel with phase and legacy robot, frozen migration plan, route snapshot; runtimes by robot | `begin`, protect, apply the plan, record the single identity, claim a robot | registry, session store of the gateway, the server's registration |
| Connection (`adapter.py`) | websocket, HTTP session, reconnect / receive / heartbeat tasks, a lifecycle lock and four flags | `connect`, `disconnect`, reconnect, receive loop, heartbeats | server; everything else hangs on its life cycle |
| Card sessions and events (`card_sessions.py`, `card_events.py`) | registry of sent cards with claims, its shard on disk, the poller's cursor and pending acknowledgement on disk | register, claim, release, complete, expire; the poller's cycle; the edit tool | server's event queue; Hermes turns |
| Progress cards (`card_progress.py`) | a state per turn segment, revisions, drains, registered Stop/Retry actions | ten hooks, rollover, cancel; the drain with send, edit and retries | agent threads, gateway loop, card sessions |
| Group scopes (`adapter.py`) | GROUP.md / THREAD.md cache with disk copy, group ids, rosters, generations | ensure, refresh, events, prefetch, evict, cleanup | inbound messages, slash commands |
| Command menu (`adapter.py`, `command_menu.py`) | digest published, force flag, wake-up event | reconcile, sync loop | connection, server |
| Inbound (`adapter.py`, `mention.py`) | receive buffer, chat kinds and DM targets, roster flags, history per group | receive loop, the gates of `_handle_recv`, context building, bind | registry, group scopes, progress cards |
| Outbound (`adapter.py`, `api.py`) | the same kinds and targets | `resolve_outbound`, the sender of a separate process, chunked delivery with mentions, media | registry, server |
| Clarify cards (`clarify.py`) | the gateway's table of questions | dormant: `native_clarify_supported()` answers no | card sessions, gateway |
| Protocol (`protocol.py`) | none | framing, packets, encryption | receive loop |
| Permissions (`permission.py`), tools, commands | none | check, parse a target, one API call each | runtimes |
| API client, cards rendering, transport policy, wire types | none, or a cache | pure or I/O | all of the above |

What makes it hard, and what correctness means, per part:

- **Registry.** The event loop, a flush task, a forget and the legacy plan use the maps at once; a
  snapshot is captured, rotated and written in separate steps, any of which may fail or be the
  last before a crash. Two robots must never own one conversation, and what was deleted or rolled
  back must not come back from disk.
- **Startup.** Three documents are written one after the other; tokens are reordered, added, and
  taken for other bots between (or during) starts. A conversation must not change the bot that
  answers it.
- **Connection.** Every await of a connect, a reconnect or a shutdown may meet a cancellation, a
  failure or a lost websocket. Nothing may survive a disconnect, two websockets must never
  compete, and a lost connection must come back.
- **Card events.** The dispatch of a press, its outcome, the cursor and the acknowledgement are
  four writes to three places. A press must not run twice because of a failure, nor be lost.
- **Progress cards.** Threads change a turn while its drain awaits the server. The last thing shown
  must be the end of the turn, and nothing may be kept for ever.
- **Group scopes, menu.** An answer in flight meets an invalidation, an eviction or a reset.
- **Inbound, protocol.** A websocket message ends anywhere in a frame, and a connection too. A
  message is handled over several awaits, with a roster that fails or goes stale; two bots must
  not answer each other.
- **Outbound.** The bot, the place and the mentions of a delivery are found from what a turn, a
  session, a route, a memory that is evicted or a file knows; the pieces of one delivery fail one
  by one.

`PROJECT.json` lists every component with its status, and under `hazards` each hard spot at its
line with the properties that watch it, or the reason why none does.

## Modules

Each module is one component: its state as variables, one action per handler or per piece of a
handler between two awaits, and its properties at the end. An operator marked `\* mutant` is a
plausible mistake in the definition below it. It is not part of the specification: it shows that
a property notices that mistake.

### RouteRegistry

`IdentityRouteRegistry`. `reg` holds the four maps a snapshot has (`troute`, `tconf`, `sroute`,
`sconf`, and wire ids), `holders` the reverse index by chat id, `path` and `backup` the two files.
`job` is the thread that has `_flush_lock`: it captures the maps (`FlushStart`, `ForgetStart`),
rotates current to backup (`Rotate`) and writes (`Write`, `WriteFails`); `plan` is `bind_plan`,
route by route, with its rollback (`PlanBind`, `PlanRollback`). `scheduled` is the adapter's
coalesced flush task; `Disconnect`/`Disconnected` is the drain in `OctoAdapter.disconnect`. `Load`,
`Crash` and `CorruptFile` are the environment.

A session key is derived from its chat (`derive_session_key`), so the chat of a session is the
constant function `TargetOf`. `Load` and `Disconnected` wait for an orphaned worker of an earlier
connection: a `load()` that overlaps one could read between rotation and write (`identity.py:842`).
Whether Hermes connects the same adapter object while such a worker runs is decided outside the
repository.

`Ownership` is the abstract specification: a conversation has at most one owner, whom no other bot
replaces; two claims lose it for good; a restart brings back what was saved. The instance `Promise` in
RouteRegistry takes a target for a conversation, its route or tombstone for `owner` and `contested`,
and the file that a start would load for `saved`; `ImplementsOwnership` says that every step of the
registry, its threads and its crashes is a step of `Ownership` or changes none of this.

### IdentityStartup

`IdentityStateStore` and the identity side of `OctoAdapter`. `meta`, `planFile` and `disk` are the
three documents; `startup` is what `begin()` decided; `rt[t]` is where the runtime of token `t` is;
`worker` is the thread that takes the profile from one phase to the next, one document per step.
`Inbound` is `bind_inbound_route`, `Send` is `resolve_outbound` with its three ways to a bot
(`Resolves`): a turn's or a session's own bot, if the chat has no other owner and no tombstone; the
owner of the chat's route; the legacy primary for the home channel without one. `sent` records who
spoke, and in which mode: `sole`, `routed`, or `frozen`, when a bot spoke from its own turn or session
in a conversation that waits for the legacy bot. `TokenMoves` lets the server take a token for
another bot. The registry is reduced to an owner per conversation whose snapshot is
written in one step: RouteRegistry shows what that snapshot promises.

Abstractions: the capacity limit of a plan and sessions without a structured origin are left out;
card bindings, which `begin()` also takes for evidence of an earlier run, are left out. A turn or session of any
bot may send at any time, while the code has one only after the bot was served somewhere; `Home` are
the chats that may be the home channel, any of them at any time; a migrated DM whose wire id is
unknown, for which the lookup fails, is spoken in by its owner. Each of these lets the model do more
than the code. `Speaking` bounds the conversations that are sent to. `lost` is a
history variable: conversations whose first route was in memory only when the process stopped (the
code accepts this; `OneIdentityPerConversation` exempts exactly these). Neither a conversation of the
single-token days nor one with a route on disk is ever among them. `Reuse` says whether a
disconnected adapter object may be connected again, as the gateway's reconnect watcher does:
`startup` takes it to be FALSE, and `startup_reconnected` shows why; the theorems about the migration and
the conversations hold for both.

### Connection

`IdentityRuntime.connect/disconnect`, the reconnect task, the receive loop and the heartbeats. The
holder of `_lifecycle_lock` is `lock`, and `step` is the await it stands at: `close`, `register`,
`open`, `handshake`, then `beats` and `loops` (waiting for the previous tasks), or `gather` and
`finish` (`_finalize_disconnect_resources`). `cancelled` are tasks that have been asked to stop and
have not met the request: they meet it at their next await. A task that waits for the loops of the
previous connection takes a cancellation for theirs and swallows it (`ReconnectCancelled`), as the
`except CancelledError: pass` of the code does.

Abstractions: both heartbeat loops are one task; the poller, menu, prefetch and cleanup tasks are
the flag `others`; `_disconnecting` is the negation of `_need_reconnect` where it is read; closing
a websocket is immediate; delays and the refresh cooldown are time and left out. `closed` and
`wanted` are history: `wanted` is set by a connect with no disconnect pending, and cleared by a
disconnect, a cancelled connect or a registration conflict.

### CardActions

`CardSessionRegistry` (`mem`) with its shard (`file`), the event poller (`pc` is the await it
stands at) with its cursor file (`disk`), `handle_card_action` and `octo_edit_card_handler`. The
poller's cycle is: flush a pending acknowledgement, fetch, handle (malformed, missing, duplicate,
mismatch, claim), tell the status, inject the turn, complete or release, save the cursor,
acknowledge, clear. `orphans` are the threads of cursor writes whose pollers were cancelled, one at
most per stop: each still compares and replaces the file, next to the writes of the next poller,
whose store has a lock of its own (`card_events.py:165`).

Abstractions: an expired card is removed at any time after it was sent; a full registry drops any
completed card where the code drops the oldest; a `handle_message` that raises has injected no
turn. `lapsed` is history: acks whose record on disk such a late write replaced, or that a starting
poller could not read. Such a poller begins at 0 without the ack it owes (`StartPoller`, with
`Unreadable`), and the compare of a save may fail to read the file as well (`Advances`); reads and
writes that fail share the bound `MaxFaults`. `MaxSeq` bounds the sequence of a card, which pollers
that save nothing could otherwise raise for ever by claiming its events in turn; `failures` stays at
`MaxFlushFailures` when it has got there.

### CardProgress

`CardProgressController`. `states` is the map of the code, by turn and segment; the hooks `Begin`,
`ModelStarted`, `ModelFinished`, `ToolStarted`, `AuthoringToolStarted`, `ToolFinished`, `Complete`,
`RolloverForInbound`, `CancelSession` change it under the controller's lock and schedule a drain.
A drain reads the state (`Reads`), acts on what it saw (`Acts`), asks for the card profile
(`ProfileAnswers`), sends or edits (`ServerTakes` is the server's side) and compares revisions when
the answer arrives (`SendReturns`, `EditReturns`, `SendFails`, `EditFails`). States and drains meet
by key only, as in the code. `controls` are the actions registered for cards.

Abstractions: one session in one chat; of a turn's steps only whether there is none, a thinking
step or a real tool; the server keeps the edit with the highest sequence; a request that fails was
handled before it failed, or never; the five second barrier of `wait_for_initial_delivery` is left
out. `lost` are states that were given up after their retries, or because the server refused: no
card can be promised for them.

### GroupScope

What one runtime caches of one parent group and its threads: `cached`/`checked` (GROUP.md and
THREAD.md), `roster`/`robots`/`stamped` (members), `known` and the generation `gen`. `fetches` are
the tasks of `_ensure_group_md`, `_ensure_thread_md`, `_refresh_group_md` and the edits of the
agent's tool; `members` the two requests of `_refresh_group_member_cache` (an inbound message, an
outbound mention); `prefetch` the task of a connect and that of `/octo_refresh`. Each is split at
its await: it takes a generation, the server answers at some moment, and the return compares.
`inbound` is the message `_handle_recv` is at, since the receive loop handles one at a time.

Abstractions: a document is the server's version of it (`basis`, `heard` and `gone` are history:
the version behind a cache entry, and those of the last event and deletion that arrived); the
copies on disk are left out because `_hydrate_md_cache_from_disk` has no caller; names, chat kinds
and the history of a group are left out; no request lasts four hours, so the sweep finds no key
whose message is under way (`Idle`). `excused` is history as well: entries written by one of three
known weaknesses, until something else writes or removes them. These are an edit of the tool whose
answer is late (`agent_tools.py:782`, `934` compare no generation), an ensure that finds no
document and keeps the old one as checked (`adapter.py:2616`), and an answer from before an
identity reset, which clears the generations (`adapter.py:1325`).

### CommandMenu

`command_menu.py` as operators and the loop that publishes their result. `offered` and `used` are
the gateway's registries; `Lookup` is what its dispatch would run for a name, `Collected`, `Priority`
and `Fit` what `build_command_menu` makes of it. `task`, `event`, `force`, `digest` and `request` are
the loop at its await: `WaitEnds`, then `Unbuilt`, `Unchanged` or `Publishes`, and the answer,
`Published` or `Fails`; `request` is the menu in flight and the bot that took it. `Welcomed` is the
wake-up of a connect, `Registers` the reset of a changed identity, `TokenMoves` the server's part of it.

Abstractions: a name is a number and an entry has a length; a request that fails was handled before
it failed, or never; a waiter that was woken and then finds the event cleared counts as a poll that
was forced. The branch of `_reconcile_command_menu` for a missing HTTP session cannot be reached
while the loop lives. `astray` is history: since the last connect the server took a menu whose answer was
lost, or the token moved. `DigestIsTruth` and `MenuBecomesCurrent` exempt it (see the open points).

### Conversations, Inbound, Outbound, Messaging

`Conversations` is what receiving and sending share. A chat is named as Hermes names it: a group, a
person's plain uid (the legacy primary's), an opaque id (another bot's), or the channel of a Space.
`owner`, `contested`, `wired` and `disk` are the registry, reduced to what a lookup tells: whose a
chat is, whether two bots claim it, whether a wire id is known, and the snapshot of these.
`kinds` and `targets` are `_chat_kind` and `_space_dm_targets` of each runtime.

`Inbound`: a frame is two bytes, a ping one, so that a websocket message or a connection may end
inside a frame. `Welcomed` is the CONNACK with what follows it, `Receives` a websocket message,
`Takes` one frame out of the buffer; `TakesToPass` and `TakesMessage` are `_handle_recv` up to its
first await. `handler` is the message under way with the await it stands at: the file, the roster
(`RosterFetched`, `RosterFails`, `RosterRecent`, and `RosterStale` when the group went away
meanwhile), sender and history, media. `Gate` decides whether a turn may start, `Dispatches` binds
the route and starts it.

`Outbound`: a delivery is asked for by a turn, by a session of the gateway, by code that knows
nothing but the chat, or by a process of its own (`BeginsAlone`). `Sender` and `StandaloneSender` are
the bot, `KindOf` and `PlaceOf` the place. Then come the roster for mentions, loading, upload, and
the pieces, each of which succeeds, fails, or fails after the server took it. `Messaging` composes
both, so that a delivery meets evictions, broken connections, second claims and released routes.

Abstractions: the life of a connection is Connection's, what a message does to GROUP.md is
GroupScope's, the refusal of a conversation that waits for the legacy bot is IdentityStartup's. A
message has no id: one that was acknowledged and then cancelled is lost, and one sent again is
another message. The buffer of history, read receipts, typing, prompts and a channel type given by
the caller are left out; a chat is no thread. A retry of a failed delivery is the gateway's.

## Runs

Each MC module gives constants to one module. Every passing run covers the actions it is meant
for; together they fire every action.

| Run | Question | Bounds |
|---|---|---|
| `registry_durability` | Do the files and the maps agree, whatever interleaves with a flush, a plan and a forget? | 2 robots, a group and a direct chat with a session each, 1 failed write, 1 crash, 1 damaged file |
| `registry_capacity` | Do eviction, refusal and tombstones keep ownership apart, and does a tombstone reach the disk? | 2 robots, 3 chats, 4 sessions, room for 1 route, 2 failed writes |
| `startup` | Is a migrated profile really bound, is a half-done migration always startable, and does a conversation keep the bot that answers it? | 3 starts of every order of two tokens, 2 moves, 1 crash, 1 failed write, 1 lost sentinel; one group, which is the home channel, and sends of either bot and of none |
| `connection` | Does a disconnect end everything, is there one connection, and does it come back? | 3 connects (1 cancelled), 2 disconnects, any number of failures; 3 tasks and websockets each |
| `cards_recovery` | Can a press run twice, an acknowledged one be taken up again, or a crash forget an acknowledgement? | 2 presses of 1 card, 1 edit, 1 crash, 1 stop, 2 failed writes or reads, sequences up to 6 |
| `cards_progress` | Is every press passed? | 4 events (2 cards, one by another user, one malformed), 1 crash, 1 failed write |
| `progress` | Does a card end with the end of its turn, and is every change shown? | 1 turn in up to 2 segments, 2 drains, 2 revisions, 2 tries, 1 cancellation, disconnect or reset |
| `group_scope` | Does an answer that comes too late change anything? | a group and a thread, 3 versions, 2 document requests, 2 roster requests, 2 prefetches, 4 troubles |
| `command_menu` | Is the menu what dispatch would run, and does the server get it? | 2 bots, 6 offers of 5 sources, 1 change, 2 moves of the token, 1 break |
| `messaging` | Does a message start the right turn, and does an answer reach its place? | 2 bots, 1 person, 5 chats, up to 2 frames, 1 trouble and 1 delivery; see below |
| `startup_unlisted_sessions` | [Findings](#findings) | the smallest instance that shows it |
| `startup_reconnected` | [Findings](#findings) | 3 starts, 2 moves |

Why the bounds are enough. Ownership is contested by two robots, and every operation of the
registry looks at one chat and its sessions: a third robot finds the tombstone of the first two.
Room for one route makes every bind an eviction or a refusal. One crash between any two steps,
followed by a load, and one failed write in addition reach each pair of neighbouring documents;
`startup` allows three starts because the shortest broken migration takes two (single,
then several tokens) and one to recover. The connection run has one more of each task and
websocket than the code should ever have, so that a second one would be seen rather than
impossible; three connects and two disconnects overlap in any order, as each waits for the lock.
Two presses of a card are what `OneTurnPerIncarnation` needs, and four events fill two fetches.
Two presses of two attempts each and an edit take five sequence numbers, and `cards_recovery` cuts
them at six: attempts that are counted anew for another event, or after the file went back, could go
on for ever and repeat states that differ in the number only. `MaxSeq` is never reached in
`cards_progress`. A
turn of two segments with two drains is the smallest in which a drain meets a state that is not
the one it was scheduled for. With two turns (without cancellations) the safety properties of
`progress` hold as well; the run is kept to one for its length.

A trouble of `group_scope` is anything that comes from outside the tasks: a write, a message, a
leave or join, an edit, an outbound mention, a prefetch, a failure, a loss, an expiry, a sweep, a
reset. Four are enough for what each property needs at least: `CheckedIsFresh` two (a message, a
write), `EvictedFailsClosed` three (a message, a leave, a prefetch), `NotResurrected` four (a
message, a leave and two prefetches whose snapshots are taken before and after it).

The settings of `messaging` carry their bounds, so that one run has several emphases: two frames of
ten kinds, under each configuration of the gates, with a trouble under the relaxed one; a delivery
of every form with a trouble, with and without routing; a delivery with one message and a trouble
(an eviction between a message and its answer); a delivery with two messages (a second claim). It
starts with no routes, with those of a legacy plan, whose DM has no wire id, and with those of an
earlier process. A trouble is a broken connection, a disconnect, an eviction, a lost group, a
released route or somebody who leaves or joins. The home channel is the group, where the legacy
primary and the owner may differ.

Deadlock is not checked. All runs bound the environment, and a system whose peers have gone silent
may stop. That nobody waits for ever is stated as liveness where it matters: `DisconnectEnds`,
`Reconnected`, `EveryPressIsPassed`, `EndedIsDropped`, `ConflictBecomesDurable`,
`MenuBecomesCurrent`.

Symmetry is used in the startup runs, over the robots, and in `group_scope`, over the document
requests; none of them has a temporal property other than an action property.

### Fairness

- `RouteRegistry!Fairness`: worker threads and the flush task run (weak). A flush gets
  `_flush_lock` between two forgets of an operator (strong): the lock is free again and again, and
  nothing makes its waiters starve. Nobody is obliged to bind, to forget or to fail.
- `CardActions!FairSpec`: the poller takes its next step and a supervisor restarts the process
  (weak, one condition on all of these). Presses, edits, expiry, crashes and stops are not fair.
- `Connection!Fairness`: the loop runs each task that can run (weak); `asyncio.Lock` serves its
  waiters in order (strong fairness of the three ways to take it). A server that is asked again
  and again answers at last, at each of three stages (strong, `Register`, `Open`, `Handshake`);
  without it no code can reconnect. Calls, cancellations and lost websockets are not fair.
- `CardProgress!Fairness`: drains run, every request is answered or fails (each has a timeout in
  `api.py`), and `disconnect()` goes on once begun (weak). Hooks are not fair: a turn may never end.
- `CommandMenu!Fairness`: the loop reconciles when it can (weak), and the snapshot of the registries
  can be built now and then, after a wake-up and after a poll (strong). A server that is asked again
  and again takes a menu at last, and its answer arrives at last (strong): without it no retry can
  help. Changes, moves and breaks are not fair.
- `IdentityStartup`, `GroupScope` and `Messaging` have no liveness property and no fairness.

### What the properties say

Several properties are conjunctions of named parts, given here in parentheses.

- Registry: `SessionRouteAgreesWithTarget` (a session is served by the owner of its chat),
  `IndexMatchesRoutes`, `WithinCapacity`, `DiskNeverAheadOfMemory` (nothing that was forgotten or
  rolled back would be restored), `ImplementsOwnership`, `ConflictBecomesDurable`.
- Startup: `MigrationSound` (`MigratedIsBound`, `PlanStaysApplicable`, `PendingIsStartable`) and
  `IdentityKept` (`OneIdentityPerConversation`, `OneRuntimePerRobot`, `OnlyServersSpeak`: in a conversation that was
  served, only a bot that served it speaks, but in the mode `frozen`).
- Connection: `DisconnectIsFinal`, `NoSelfKick` (`OneConnection`, `OneReconnect`), `Reconnected`,
  `DisconnectEnds`.
- Cards: `OneTurnPerIncarnation`, `DiskIsAsTold` (`AckedIsSettled`, `SentSequenceIsDurable`),
  `AckNeverForgotten`, `EveryPressIsPassed`.
- Progress: `DrainsAgree` (`OneDrain`, `NothingForgotten`), `CardTellsTheTruth` (`EndIsShown`,
  `ControlIsOffered`), `EndIsFinal`, `EndedIsDropped`.
- Group scope: `CacheIsCurrent` (`CheckedIsFresh`, `DeletedStaysDeleted`), `EvictedFailsClosed`,
  `NotResurrected`.
- Menu: `MenuIsProjection` (every entry would run, the first of a name wins, nothing reserved, a
  prefix by priority), `DigestIsTruth`, `MenuBecomesCurrent`.
- Messaging: `FramesInOrder`, `BotsNeedMention`, `AnswerGoesHome` (`PiecesGoHome`,
  `NobodyAnswersForAnother`), `SuccessIsDelivered`, `OnlyMembersMentioned`.

Each module states them with a comment at its end, and each has a mutant in `PROJECT.json`.

`ConflictBecomesDurable` is stated for a tombstone that is laid while a flush is scheduled. A flush
that the legacy plan forces clears the dirty flag on behalf of live traffic, and when that write
fails nothing schedules another until the next bind (`identity.py:1252`); the run has no plans.

## Findings

- `startup_unlisted_sessions`: when the session store cannot be listed on the one start that
  freezes the legacy sessions, the empty list is taken for an empty profile. The migration ends in
  phase `migrated` with no session bound and is never tried again.
- `startup_reconnected`: a runtime keeps its robot id through a disconnect, which empties the table
  of claims. When the same adapter object is connected again, another token registers as that robot
  first, and then the runtime registers as a new one, `_claim_identity` removes the entry of its
  previous robot, which is the other runtime's by now. That runtime goes on listening and its routes
  resolve to nobody; a third token of the robot would not be refused. The proof of `ClaimsResolve`
  fails at exactly this step unless `~Reuse`.

## Proofs

`RouteRegistryProofs` proves, for every set of robots, chats and sessions, every topology
(`TargetOf`, `WiresOf`, `Plans`) and every capacity and bound:

- `TypeCorrect`: `Spec => []TypeOK`;
- `SessionRoutesAgree`: `Spec => []SessionRouteAgreesWithTarget`;
- `IndexMatches`: `Spec => []IndexMatchesRoutes`.

The assumptions are the two about the constants that `RouteRegistry` names, `TopologyAssumption`
and `NullAssumption`, and `BoundAssumption` for the counters. TLC evaluates them in both registry
runs.

`SessionRouteAgreesWithTarget` is not inductive: a step may replace the maps by a copy made
earlier (a failed forget restores the previous maps, a rollback returns to those before the plan,
a start loads either file). The invariant `IInv` therefore says that **every** copy of the maps is
`Consistent`: the ones in memory, the one the plan will return to, the body and the previous maps
of the job, and the content of both files. `Consistent` is stronger than the property: the routes of
a session and of its chat name the same robot whether or not there is a tombstone, a tombstone of a
chat comes with one of every session routed there, and links and wire ids belong to routes
(`WellKeyed`), because an eviction, a forget or a bind would otherwise turn what looks right into
what is wrong. The proof has three layers:

1. lemmas about the pure operators on one copy (`WithoutConsistent` for a forget,
   `ContestedConsistent`, `EstablishedConsistent`, `EvictedConsistent`, `FillWireConsistent`,
   composed by `AfterBindConsistent`): each keeps a consistent copy consistent, and
   `BodyConsistent` / `OnDiskConsistent` relate a file to the maps that are read from it;
2. `StepInvariant`, one step per action of `Next`: an action moves whole copies between variables,
   and changes one by one of the operators at most;
3. the theorems, by `InitInvariant`, `StepInvariant` and one temporal step each.

`IndexMatchesRoutes` is a conjunct of `IInv` of its own: each action updates the index together
with the routes, or rebuilds it from a file.

Its second half goes on from there, under the same assumptions:

- `DiskNeverAhead`: `Spec => []DiskNeverAheadOfMemory`;
- `KeepsThePromise`: `Spec => ImplementsOwnership`, the refinement of `Ownership`;
- `CapacityKept`: `Spec => []WithinCapacity`.

Which copy of the maps says more than which is what matters for the files. `Holds(g, h)` says that
`g` has all owners and tombstones of `h`, and `FilesInv` that memory holds what a start would load
(`OnDisk`), except while a forget carries the smaller maps to the disk; that a writer's body lies
between the two (`WriterRight`); that the place a plan may return to holds what the files have or are
about to get (`PlanRight`); and that no forget runs beside a plan. The refinement maps each step: a
bind claims a free conversation or loses one for good (`BindIsPromised`), a forget or a rollback
lets go (`LettingGoIsPromised`, by `ReductionIsRelease`), a write saves, a start restores, and the
rest stutters. For the capacity, `CopiesFit` says of every copy what `IInv` says of their
consistency; the bind at the limit (`EvictedFits`, `EstablishedFits`) removes the oldest session
first, and with its last session the conversation.

`ConnectionProofs` proves, for any number of tasks, websockets and calls, under
`ConnectionAssumption`:

- `TypeCorrect`: `Spec => []TypeOK`;
- `NoConnectionKicksAnother`: `Spec => []NoSelfKick`;
- `NothingSurvivesDisconnect`: `Spec => []DisconnectIsFinal`.

The invariant says who knows of whom. Every receive or reconnect task that lives is the one its field
names, or one that the holder of the lock waits for (`ReconnectInv`, `LoopInv`); a cleanup has
stopped the heartbeats before it waits (`HeartInv`) and ends with no task left; a disconnect that
holds the lock has cleared `_need_reconnect`, so that no failure path starts a task beside it
(`HolderInv`). Only in that sense does waiting for the known tasks mean waiting for all of them.

`GroupScopeProofs` proves, for any number of threads, requests, versions and troubles, under
`ScopeAssumption`:

- `TypeCorrect`: `Spec => []TypeOK`;
- `CacheCurrent`: `Spec => []CacheIsCurrent`;
- `EvictionFailsClosed`: `Spec => []EvictedFailsClosed`;
- `NeverResurrected`: `Spec => NotResurrected`, an action property.

What is cached is right only because of what is on its way. Events are under way in the order of
their versions and none is older than what was heard (`WireInv`); an answer says nothing newer than
the server's document, brings no deleted version, and, when its request is of the current
generation, is not older than the last event heard (`FetchInv`), for every event ends a generation;
a roster of the current generation was not taken since the group was shut (`RosterInv`), and a
prefetch that saw it evicted is of an earlier one (`PrefetchInv`). Requests from before an identity
reset are outside of this, as their generations mean nothing; what they write is `excused`.

`CommandMenuProofs` proves, for any registries, limit and number of bots, changes, moves and breaks,
under `MenuAssumption` and `MenuBounds`:

- `TypeCorrect`: `Spec => []TypeOK`;
- `DigestTrue`: `Spec => []DigestIsTruth`.

The digest is written when an answer arrives, and the bot may be another by then. `TakerInv` says that
the bot that took the request in flight has its menu; that a runtime that is not astray has the token
of its own bot; and that its request was taken by that bot, unless a connect has come in between,
which forces another publication.

`CardActionsProofs` proves, for any cards, events, limits and numbers of faults, crashes, stops and
edits, under the assumptions of CardActions on its constants:

- `TypeCorrect`: `Spec => []TypeOK`;
- `OneTurn`: `Spec => []OneTurnPerIncarnation`;
- `ToldIsOnDisk`: `Spec => []DiskIsAsTold`;
- `AckRemembered`: `Spec => []AckNeverForgotten`.

A card may run again only while it is open, that is pending, held by an edit, or held by the dispatch
under way before its turn, and `TurnsInv` says that an open card has had one turn less than a crash
or stop for each would explain. `SettledInv` says that the card of a passed event is shut in memory
and in its shard, both, as either may be what the next poller sees; `SequenceInv` that no copy of an
entry has a sequence below one in use; and `AckInv` that whoever owes an ack has it in the cursor file and,
while the poller runs, in the poller's hands. The exemption `lapsed` is needed: a poller that is
stopped at its save leaves a thread that may replace the file after the next poller has saved, and
if the process crashes then, the ack of the second save is forgotten; and one that cannot read the
file when it starts may forget the ack it owes (see the open points). `ReadingIsBounded` is what a
failed read has in common with other faults.

`MessagingProofs` proves about Messaging, for every set of bots, people and messages, every
configuration and every bound:

- `AnswersGoHome`: `Spec => []AnswerGoesHome`;
- `ReportsAreTrue`: `Spec => []SuccessIsDelivered`;
- `MentionsAreMembers`: `Spec => []OnlyMembersMentioned`;
- `BotsAreAddressed`: `Spec => []BotsNeedMention`;
- `FramesStayWhole`: `Spec => []FramesInOrder`;
- `TypeCorrect`: `Spec => []TypeOK`.

It assumes what `Conversations`, `Inbound` and `Outbound` say of their constants; TLC evaluates that
in the run `messaging`. What was posted is right only because the delivery it belongs to was, from
its beginning through all awaits, and that rests on what receiving keeps of the bots' memory. Hence
the parts of `IInv`:

- `MemoryAgrees`: whoever remembers that a chat is a DM remembers its wire target too, so that no
  kind without an address is used. Every write and every eviction touches both;
- `RoutesAgree`: in sole identity mode there are no routes, in memory or in the snapshot;
- `RostersRight` and `HandlersGated`: a roster, fetched, failed or reset, calls no bot human, and a
  group message that waits for its context or its media has passed the gate;
- `DeliveryInv`: a delivery that was not refused has a sender, the place and the claim of its chat,
  verified mentions (`DeliveryRight`), and what was posted is a beginning of its pieces
  (`PostedRight`). The members of the group are always among its `insiders`.

`StepInvariant` has a lemma for each group of actions: those that only move bytes (`BytesKeep`), read
a message (`TakesKeep`), pass a gate (`RosterKeeps`, by `GateKeeps` and `AdmitsListened`), start a
turn (`DispatchesKeep`) or forget (`ForgettingKeeps`); then the beginnings of a delivery
(`SenderFits` for the bot, `PlaceFits` for the place), its awaits, its posts (`NextPieceFits`), and
what happens around it.

Two more invariants stand on `IInv`. `StreamsRight` is `FramesInOrder` with the types of the four
sequences and no more arrived than was sent. Each step of receiving moves parts between them, and a
lemma says that none is lost: what arrives continues what has arrived (`ArrivedContinues`), a frame
that is complete lies in the buffer (`FrameFits`), and `Cut` splits its bytes where the last frame ends
(`CutSplits`). For that, `Cut` is defined by the set of positions where a frame starts (`Starts`, the
least set that contains 0 and the end of each complete frame behind it), and not by a recursion along the
bytes. `TypesRight` has what is left: routes of chats (`RoutesStep`), bounds (`CountsStep`), messages in work
only under a running loop (`LoopsStep`), and turns in their message's chat (`TurnsStep`).

`IdentityStartupProofs` proves, for any tokens, bots, groups, peers and configurations, and any number
of starts, crashes, failed writes, moved tokens and lost sentinels:

- `TypeCorrect`: `Spec => []TypeOK`;
- `PlanSurvives`: `Spec => [](PlanStaysApplicable /\ PendingIsStartable)`;
- `MigrationIsSound`: `Spec => []MigrationSound`, if the session store can always be listed
  (`MaxListFailures = 0`; without it `startup_unlisted_sessions` refutes `MigratedIsBound`);
- `ConversationsKeepTheirBot`: under the same hypothesis,
  `Spec => [](OneIdentityPerConversation /\ OnlyServersSpeak)`;
- `ClaimsResolve`: `Spec => []OneRuntimePerRobot`, if an adapter object is connected once (`~Reuse`;
  without it `startup_reconnected` refutes it);
- `IdentityIsKept`: both hypotheses, `Spec => []IdentityKept`.

It assumes `NamesAssumption` (`Nobody` and `Contested` are no robots, a configuration is a non-empty
sequence of tokens) and `BoundsAssumption`. None of the properties is inductive. `IInv` follows the
profile through its phases:

- where the thread is and what the adapter believes: `WorkerInv`, `PhaseInv` (`startup` agrees with
  the metadata but between `SaveMigrated` and `ClearPlan`), `RuntimeInv`, `ClaimInv`, `SoleInv` (a
  single token listens only as the recorded bot);
- before the first plan, one bot: `FreshInv`, `SingleInv` (routes and servers are the recorded bot's);
- the plan: `FreezeInv` on its way to the disk, `PendingInv` while it waits (whole, the legacy bot's
  alone, and with everything the single token served), `ApplyInv` while it is bound and written;
- after it, `MigratedInv` (bound on disk, and in memory while anybody listens) and `DiskInv` (memory
  has what the disk has, or a tombstone);
- who was served: `KnownInv` (whoever was served and is not lost waits for the legacy bot or has a
  route), `OwnerInv` (one server, which is the route's owner in memory and on disk), `SentInv`.

`KnownInv` is what makes a message in a conversation without a route harmless: nobody was served in
it, or it waits and `Frozen` refuses the others. `NobodyListens` is why a thread that leaves the
single phase needs no lock against messages: it works for the only token, which does not listen yet.

`CardProgressProofs` proves about CardProgress, for any turns, drains, segments, revisions, tries and
cancellations, under `ProgressAssumption`:

- `TypeCorrect`: `Spec => []TypeOK`, also when turns begin again;
- `DrainsSerialized`: `Spec => []DrainsAgree`;
- `CardsTellTheTruth`: `Spec => []CardTellsTheTruth`;
- `EndsAreFinal`: `Spec => EndIsFinal`, these three if a turn begins once (`~Reuse`). When one begins
  again, a drain from before may take the new state of its key for its own: the hazard at
  `card_progress.py:572`. `BeginKeeps` is the only lemma that needs the hypothesis.

A drain works on what it saw before it waited. `IInv` says what that is still worth, and relates three
things, the drain, the state of its key by now, and the card as the server has it:

- `DrainsRight` and `Cared`: a key has one drain at most, and a state has one if and only if it is
  scheduled (but while `disconnect()` is about to drop everything). A state
  that was dropped may leave its drain behind, and `TurnsRight` says that no such drain has a key that a
  rollover is still to use, nor one of a turn that is still to begin;
- `ReadRight`: what a drain past its read has seen is a former value of the state of its key
  (`ReadFrom`: the same state, message and sequence, no later revision, and the same phase if the
  revision is the same or what it saw was final), or that state is gone and was given up, or the drain
  has told the server nothing (`Idle`). This is what makes the comparison of revisions after an await
  sufficient, and the comparison of identities as good as one of keys;
- `DrainRight` and `StateRight`: the card on the server is at most one sequence number ahead of what the
  drain and the state know; it is unsent while no send is on its way; and when it shows an end, the
  drain and the state are at that end. Hence the server never takes an older card (`ServerAhead`), from
  which `EndIsFinal` follows;
- `Settled`: a state that nobody is to show has nothing to show;
- `LeftRight`: what the user is left with of a state that is gone, which is `CardTellsTheTruth`.

`Core` is the part that holds at every point of a step, as a hook makes a state of another and only then
schedules or drops it; it is therefore an operator of the states, and the lemmas follow the steps
(`ReplaceKeeps`, `ExtendKeeps`, then `DropKeeps` and `MoveKeeps`, which end a step). `Shown` is proved
once for sends and edits (`SettlesKeeps`), by what becomes of the state: it stays (`StaysKeeps`), or it
is final, was shown and goes (`IsDroppedKeeps`, by `EndedAction` with no action but Retry).

## What is only model-checked, and what is not modelled

Only model-checked: all liveness (fairness and ENABLED are out of the prover's reach), and of CommandMenu
`MenuIsProjection`, as the menu is sorted, collected and cut to its limit by folds, about which an
induction over data would be needed.

Not modelled:

- permission checks and target parsing (`permission.py`), the tools (`agent_tools.py`,
  `card_tools.py`, `message_tools.py` but the edit of a card) and the commands but the three that
  change state: arguments are checked and one request is made, and an operator for that would only
  restate the code;
- clarify cards: the card path is dormant, and its text fallback is a delivery like any other;
- the layout and sanitising of card documents (`cards.py`), socket and resolver hooks
  (`transport.py`), dataclasses and parsing (`types.py`): data and strings without state;
- AES and the key exchange, plugin registration, CI;
- of what is modelled partly: the parts that the abstractions above leave out.

What the modelled parts leave open, beyond the hazards that `PROJECT.json` lists:

- a failed `connect()` leaves a sleeping reconnect task; if the gateway connects meanwhile, the task
  wakes up and replaces the healthy connection (`adapter.py:1523`). The connection comes back;
- two tokens that exchanged their bots while both ran find each other's claim in their way, and give
  up until a restart (`adapter.py:5241`), which is what the code intends for a duplicate;
- `claim()` counts attempts without comparing them, so that a dispatch that takes the process down is
  claimed again at every start (`card_sessions.py:244`);
- each poller has a cursor store of its own, and its lock with it: a write of a cancelled poller that
  is still in its thread may replace what the next poller has saved (`card_events.py:165`). A crash
  behind that forgets an acknowledgement, which the server then asks for again; without one the next
  save or clear repairs the file, but a poller that starts from the older cursor and finds the newer
  one on disk can never clear its pending ack, as the cursor may not move backwards, and retries
  for ever. `EveryPressIsPassed` is checked without stops for that reason;
- a poller that cannot read its cursor file when it starts begins at 0 and without the ack it owes
  (`card_events.py:825`, `148`). If the file can be read again afterwards, it is ahead, so that every
  save raises "event cursor cannot move backwards": events that the server still holds, because their
  verdict needs no ack or their ack was lost, are fetched and handled again until the next start. No
  card gets a turn for that (`OneTurnPerIncarnation`), but nothing new is passed either;
  `EveryPressIsPassed` is checked with a file that can be read (`Unreadable = FALSE`);
- a cancelled edit leaves its card `processing` until it expires (`message_tools.py:583`);
- a turn that ends while an edit with its running view is on the way may leave Stop registered when
  the final edit fails for good (`card_progress.py:833`): `ControlIsOffered` exempts given-up states;
- a card of the registry rendering that follows a rollover shows a Stop control without a registered
  action (`card_progress.py:473`);
- after 32 thinking steps in a row the registry rendering has nothing to show
  (`card_progress.py:565`): the model takes the window to hold a real tool if there is one;
- a group that the bot joins while the list of groups is on its way is missing in the list, and is
  evicted although messages come from it; its next message makes it known again
  (`adapter.py:4109`);
- `/octo_refresh` says that it fetches GROUP.md and rosters again (`commands.py:284`); it only makes
  the next message of each group do so, as the prefetch reads the list of groups alone;
- a press that arrives while `octo_edit_card` holds the card is answered "duplicate", acknowledged
  and dropped, and the card is released afterwards (`card_sessions.py:227`); the header of that file
  promises bookkeeping against permanently skipping an action (line 6);
- a single token that the server takes for another bot is refused by the identity check, but in sole
  identity mode `resolve_outbound` compares no robots, so that the gateway goes on sending into the
  old bot's conversations as the new one (`adapter.py:5717`, against line 146 of the repository's `README.md`);
- `resolve_outbound` does not look at the plan, as `bind_inbound_route` does: while a migration is
  pending, its conversations have no route, and a turn or a session of another bot that sends there
  speaks as that bot (`adapter.py:5742`). `OnlyServersSpeak` leaves out exactly these sends;
- "proactive cron/notification delivery requires an established route", says line 149 of the
  repository's `README.md`; the home channel (`adapter.py:5754`) and the sends of a bot's own turn or
  session to a chat without a route (`adapter.py:5742`) require none;
- when the answer of a publication is lost and the registries then return to what was published
  before, the poll compares with the older digest and leaves the server's menu as it is until the
  next connect (`adapter.py:1826`, against line 231 of that file);
- without a route, in sole identity mode or in a process of its own, a chat that the runtime does not
  remember is guessed to be a group unless it has the form of a uid: a DM of a Space after an
  eviction or a restart is then addressed as a group (`adapter.py:4313`, `834`). `PiecesGoHome`
  states what a route or the memory knows;
- a process of its own reads the snapshot: a conversation that a bot claimed since is answered by the
  legacy primary if it is the home channel (`adapter.py:716`);
- frames behind the CONNACK in one websocket message are dropped unacknowledged (`adapter.py:1667`),
  and a message that a disconnect cancels was acknowledged before (`adapter.py:2846`);
- a reply of several chunks may fail after some were delivered (`adapter.py:4595`): a retry of the
  gateway delivers them again.

## Plan

Done, in this order: RouteRegistry with its first proofs, IdentityStartup, CardActions, Connection,
CardProgress, GroupScope, Ownership and its refinement, CommandMenu, Messaging with its proofs, then
the proofs about the refinement, Connection, GroupScope, CommandMenu, CardActions, IdentityStartup,
CardProgress, and the bytes and types of Messaging.

A run per component is the rule, and one for each side where a component has two.
