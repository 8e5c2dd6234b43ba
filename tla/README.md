# Verification of the assistant's core

This directory holds TLA+ models of the parts of the program that are hard to
test: processes, devices, turns and background jobs that talk over sockets,
streams and HTTP calls, run interleaved, and fail, reconnect or answer late.
Every definition is a translation of the source file its module names;
`PROJECT.json` maps each one to its lines.

1. The system
2. The modules and how they correspond to the code
3. What is checked: runs, bounds, fairness
4. What is proved, and how
5. What the code does other than it says
6. What is assumed
7. What is not modelled

## 1. The system

The program is a personal assistant. A *desktop* app starts and supervises a
local *gateway* (a fork of OpenClaw with the program's own channel, router and
tools added). The gateway routes tools that need the user's machine back to the
desktop app over a WebSocket, the *desktop bridge*. A *phone* is paired with the
desktop through the *relay*, a Cloudflare worker that forwards end-to-end
encrypted messages between two devices and queues them while one is away.
A chat message becomes a *turn*: the in-app channel classifies it, and its agent
run waits in two *command lanes*, that of its session and that of the channel.
*Sub-agents*, which the gateway runs on request or by schedule, keep their state
in a database and report by *notices* that the desktop reads from a stream.

```
   phone ---- WebSocket ----+                    +---- WebSocket ---- desktop
     |                      v                    v                      |  |
     |                  relay worker  <-- one isolate, many sockets     |  | starts,
     |                   |        |                                     |  | health check
     +-- POST /pair ---> |        | --> offline queue (one per device)  |  v
                         +--> device registry (one object) <- /pair ----+ gateway
                                                                        ^  |
                                              desktop bridge (WebSocket)+--+
```

| part | state | operations | talks to | what is hard about it | correct when |
| --- | --- | --- | --- | --- | --- |
| relay worker, `packages/relay/src/index.ts` | `connectedDevices`, one socket per device; request windows | accept a socket, handle a frame, handle a close event | queue, registry, push service, devices | every handler awaits; close events of replaced sockets are late; a client may be gone unnoticed | a message has at most one copy and one addressee; the table names live sockets; presence follows the table |
| offline queue, `offline-queue.ts` | messages by time and random key, one alarm | enqueue, drain, cleanup, alarm | worker | alarm and drain interleave; limit; age | nothing stays forever; nothing stored has no alarm |
| device registry, `device-registry.ts` | pairing requests, pairs, push tokens | init, complete, status, unpair, push tokens | worker, push service | one handler waits for signatures; results are handed out once | one phone per code; both ends agree |
| rate limiter, `rate-limiter.ts` | request times per device | check, remove | worker | boundary of the window | never more than the limit in a window |
| pairing clients, `pairing.ts`, `DevicePairing.tsx`, `PairingScreen.tsx`, `PairingContext.tsx` | id, key, JWT, page state, polls | show a code, poll, scan, unpair, register for push | registry through the worker | countdown, polls, cancel, a second code, failing calls | a scanned code pairs both ends |
| phone relay client, `apps/mobile/src/services/relay.ts`, `useChat.ts` | socket, timers, delay, messages | connect, disconnect, reconnect, receive | relay | late close events, unmount while reconnecting | silent after unmount; comes back after a loss; shows what arrives |
| gateway manager, `gateway-manager.ts` | child, status, timers, counters | start, stop, preflight, health check, restart | gateway process | exit, health check and stop race | one gateway; no stale "online"; `error` is final; `stop` ends |
| desktop agent, `agent.ts`, and desktop bridge, `packages/gateway/tool-router.ts` | sockets, pending calls, missed pongs; timers, delay | authenticate, route a call, answer, time out, heartbeat, stop; connect, disconnect, reconnect | each other | two sockets of one agent at once, answers after timeouts, close events of either end | one outcome per call, a tool runs at most once, nobody waits without an agent |
| command lanes, `packages/gateway/src/process/command-queue.ts`, and restart loop, `cli/gateway-cli/run-loop.ts` | queue, active ids and limit of each lane, generation; drain | enqueue, complete, clear, set concurrency, drain, reset | every agent run | a command holds one lane while it waits in another; a restart forgets what runs | no lost wake-up; a session's turns one at a time; every command settles |
| in-app channel: turns, `packages/gateway/channels/in-app.ts` | response-mode contexts (the stream gate), runs, streams | post, classify, run, retry, fall back, deliver | lanes, agent runner, clients | contexts are kept by session and not by turn; delivery goes past the gate; a failed run is repeated | silent after the end; one voice; filler held back; every turn ends |
| in-app channel: notices, and the desktop's stream of them, `apps/desktop/src/main/index.ts` | store, streams; request, reconnect timer | store, replay, broadcast, acknowledge, expire; connect, reconnect, disconnect | sub-agents, user | a stream breaks or is replaced while notices come; the store is full | nothing missed while a stream is open; a stream comes back |
| chat page, `apps/desktop/src/renderer/src/hooks/useChat.ts` | current session, stream reference, timers | post, open a stream, follow it, change the session | in-app channel | streams, timers and requests outlive the session they belong to | streams follow the session |
| sub-agents, `packages/tools/src/agent-*.ts`, `delegate-tool.ts`, `budget-controller.ts`, `pending-approvals.ts` | agents, trust metrics, daily budget, cron jobs, proposals | run by cron, delegation or message; bill, promote, retain, report; approve, expire; daily review | database, tool loop, notices | reads before writes, overlapping runs, a timeout against the tool loop, a failed query in the middle | the budget is kept up to what overlaps; a proposal runs at most once; a one-off agent reports once |

`PROJECT.json` lists every component with its status and, under `hazards`, what
in it is hard to test, line by line.

## 2. The modules

### Relay and MailContract (with MCRelay, Relay_proofs)

`Relay` is the WebSocket half of the worker. A step is what runs between two
awaits: `HandleWebSocket`, `CloseEvent`, and `HandleMessage` with its three
outcomes (`RateLimited`, `ForwardMessage`, `EnqueueMessage`). The calls a
handler makes are in variables of their own (`drain`, `batch`, `enqueuing`,
`pushing`), so that their answers interleave with everything else. A socket is
`fresh`, `open`, `replaced` (closed by the worker), `gone` (closed by the client
or the network, of which the worker learns later) or `closed` (close event
handled). A message or a socket is a pair of a JWT's claim `<<sub, pair>>` and a
name; a device may hold the JWTs of several pairings.

`CloseEvent` is faithful in a detail that matters: the listener knows its device
and not its socket, so it removes whatever entry the device has.

`MailContract` is what the worker promises from outside: every message goes from
unsent to held and from there, once and for good, to delivered or lost. `Relay`
implements it with `phase` computed from the places a message is in (`Where`).
That the queue stores a message for a device that is online by now, or that a
batch is lost between `/drain` and the socket, is allowed by the contract; that
a message is in two places is not.

### Registry and Pairing (with MCPairing, Pairing_proofs)

`Registry` is the registry's Durable Object as operators over its own variables;
`Pairing` composes it with both clients. A handler of the registry is one step,
because a Durable Object delivers no other event while it waits for its storage;
`completePairing` is two (`CompletePairing`, `Signed`) because it also waits for
`crypto.subtle`, which does not hold events back. Each call of a client is sent,
served and answered in different steps, and may fail before it is served
(`"call"`) or after it (`"reply"`). A device id stands for its key pair too.
A call of `initPairing` that is in flight when the user leaves the page goes on,
and its answer starts an interval that nobody clears any more (`left`,
`LeftPoll`).

`UnpairCall` contains `UnpairRouted`, which is `FALSE`: the worker routes nothing
to the registry's `unpair`. The operator `UnpairDevices` is what it would do.

### OfflineQueue (with MCOfflineQueue, PhoneMail_proofs)

The same queue as in `Relay`, seen in time: a clock, keys of time and random
part, the alarm and its delay. `Relay` abstracts from the time and lets the
alarm remove any part of a queue at any moment.

### ToolCalls and DesktopBridge (with MCDesktopBridge, DesktopBridge_proofs)

`DesktopBridge` has both ends of the connection. A socket has a server end
(`bridgeEnd`) and a client end (`agentEnd`), each of which learns of the end of
the connection by a close event of its own. The bridge's `socket` and the agent's
`ws` point to the one they use; both may point to a socket that is closing.
`AgentClosed` names no socket and sets `ws` to null whatever it is by now, as the
listener does. `cut` holds the connections that transport nothing any more,
whether the network broke or the server terminated them; the server end of such
a socket hears of it by an error event (`BridgeFails`) or by its close event
(`BridgeClosed`), both of which call `handleClose`.

`ToolCalls` is what the gateway may rely on: one outcome per call, an answer only
after its tool ended, a tool at most once per call. `DesktopBridge` implements
it, a waiting call being open already (`ToolCallsHold`).

### CommandLanes (with MCCommandLanes, CommandLanes_proofs)

The queue of the gateway's commands. No operation on it awaits, so each is one
step with the pump at its end: `EnqueueCommandInLane`, `CompleteTask`,
`ClearCommandLane`, `SetCommandLaneConcurrency`, `ResetAllLanes`. `Parent` names the command that enqueues and
awaits another one in a second lane, as an agent run does. The restart loop asks
for a drain (`RequestRestart`), which waits for a snapshot of the active commands
(`Drained`) or gives up (`DrainTimeout`), closes the server and resets the lanes:
the queues stay, the active ids are forgotten, and a command of an older
generation that ends later counts for nothing.

### Turns (with MCTurns, Turns_proofs)

A message from its arrival to its `done` or `error` event. `Arrives` writes it,
`PostRefused`, `PostAnswered` and `PostAccepted` are the answers of the request
(`PostUnheard` if no message handler is wired: `wired` is chosen at the start,
because a wiring that fails only warns), `Prepare` the classification with the gate it sets up, `CallHandler` the handler
that waits for its place in the lane (`RunStarts`), `PartialReply` and `ToolStart`
what a run streams, `RunEnds` its end with delivery, retry or fallback, and
`GateExpires` the 5 s limit of a gate. `gate` is kept by session, as in the code,
so that two turns share it. `log` is what the streams of a session are sent, each
event with the turn and the run it comes from; a token carries the text of its
run so far, a `done` its answer. Of the lanes it takes for granted
what `CommandLanes` promises: the runs of a session one after the other, each of
which ends.

### Chat (with MCChat)

`Chat` composes `Turns` with the page that shows them: it posts a message, opens
a stream when the request has been answered (`PostSucceeds`, `OpenStream`),
follows the session's log from there on (`Receive`), closes the stream by a title
timeout, and changes the session. A stream carries whatever is sent to its
session; its events do not say which turn they belong to.

### Agents (with MCAgents, Agents_proofs)

The runs of one sub-agent, each of which may stand at any of its queries while the
others go on: `Look`, `Wake` (a delegation reactivates an agent that sleeps),
`CheckBudget`, `Start`, the tool loop with its timeout, `Bill`, `Trust`, `Judge`
and `Promote`, `KeepProposal`, `Retain`, `Report`. Cron runs and delegations take
this way with different exceptions. The runs of a message (FLOW B) keep their
proposals and report first: their usage and trust are recorded on the side, which
the model puts last, since neither touches what the other reads. Around them are the user's decisions on proposals (`Confirm`), their
expiry, the daily review, which reads an agent in one step and acts on it in
another, and a restart of the gateway, which loses what is in memory. Agents share
only the stores, so there is one, and `others` counts what the others keep in the
store of proposals (`OtherStores`, `OtherLeaves`). Ghosts (`counted`, `met`, `reported`) remember what the
properties compare.

### Notices (with MCNotices, Desktop_proofs)

`HandleProactiveResult` stores a notice, drops the oldest of a full store and
broadcasts; `Served` is a stream request answered (with the replay of what is
stored) or refused; `Receive` what the desktop reads. The desktop connects and
disconnects with the status of the gateway manager (`GatewayOnline`,
`GatewayNotOnline`) and by its timer. Destroying a stream raises its error event
later, which sets the timer of a reconnect. Notices expire after 24 hours and are
lost with the process. The store is in order of time and all notices live equally
long, so what has expired is its front (`InFront`), and `Unexpired` is the rest of
it; that the store is in this order is proved (`StoreInOrder`).

### GatewayManager (with MCGatewayManager, Desktop_proofs)

`spawnProcess` is split where it waits for the port (`SpawnBegins`, `SpawnEnds`,
`SpawnRefused`), a health check where it waits for its answer (`Ask`, `Answer`,
`CheckEnds`), and `killProcess` into SIGTERM (`Stop`) and SIGKILL (`ForceKill`).
The exit of the child (`Exits`) and its event (`ExitEvent`) are different steps. A
child that could not be started is `"failed"`: there is an object, but no process
and no exit event.

### PhoneLink (with MCPhoneLink, PhoneMail_proofs)

The phone's `RelayService` with the screen that owns it. Of the relay it has
only what the phone sees: forward to an open socket, queue otherwise, hand the
queue over on open. `direct` and `batches` are the two kinds of frames a message
may arrive in, and only one of them is shown (section 5).

## 3. What is checked

A run is one configuration file. The bounds are the smallest in which the
interesting case happens, and were raised until more added states but no new
case, as far as a few minutes allow.

| run | asks | instance and why it is enough |
| --- | --- | --- |
| `relay_pair` | does presence follow the table, has a message one copy and one addressee, is every loss explained | two paired devices, the receiver with two sockets (a reconnect with the old socket in every state, two drains at once), two messages for a queue of one and a rate of one, so that both limits are reached; lost calls, lost answers, expiry, other frames; sockets and messages are symmetric |
| `relay_live` | is what is stored handed over at the next connect, is `MailContract` implemented | as `relay_pair` with one message, a push token and fairness, without failing calls; the second socket of the receiver is the reconnect, and only a socket that is lost during its own drain is excused |
| `pairing_safe` | one phone per code, mutual pairs, results handed out once, what is stored belongs together | two codes and two phones: a rival phone, a second code, a poll of the first code answered after the second; every fault, a user who cancels, leaves and unpairs |
| `queue_time` | is there always an alarm, does nothing outlive its age | age 4, interval 2, delay 1 and 12 ticks: three generations of alarms; a queue of two so that it fills |
| `lanes` | no lost wake-up, no stale slot, a session's turns one at a time, a drain that is true, every command settles that no restart interrupts | two turns of a session, each of which awaits a run in the main lane, and a third command there; a limit of one or two, clears, two restarts, so that commands of three generations meet; fairness |
| `turns` | silence after the end, one voice, no filler in action mode, every turn ends | two messages of one session in every overlap and any two of: a refused post, a failed preparation or run, a delivery that throws, a gate that times out; while the first message is alone up to four of them, so that retry and fallback fail, too, before or after an answer is out (`MaxAlone`); fairness |
| `chat_stray` | do streams follow the session | two messages, two sessions, one change of the session; violated |
| `agents` | do budget, trust metrics, retention and approvals stay within what their checks allow, is silence excused | two runs in every overlap, for every retention; a failed query or a restart of the gateway; a budget of two for runs of at most two calls, so that it is reached and overrun; a promotion after one task; a store of two proposals, which fills with one of each run, or with one of another agent |
| `notices` | is nothing missed while a stream is open, is what is unread kept, is every notice that stays in the store told in the end | four notices for a store of two (it overflows twice) and three failures: broken streams, failed health checks, a gateway that dies; fairness |
| `bridge_calls` | nobody waits without an agent, `ToolCalls` implemented, every call ends, the agent comes back after every loss | one call; any number of reconnects over two sockets alive at a time (the name of a socket closed at both ends is used again), so that the close event of a replaced socket may null the `ws` of its successor again and again; every fault, one missed pong allowed, fairness; the safety properties are proved for any number of calls and sockets |
| `manager_run` | one gateway and none after an error, no stale "online", a crash is answered, `stop` ends | the real limits of five restarts and three failed checks, at most five failed checks in a row (`LastFailure`; nothing changes beyond the third), fairness |
| `phone_run` | one way back, which is taken, and none after unmount | three losses, two doublings of the delay, two messages, fairness |

Deadlock is not checked: in every module the environment may stop acting, the
bounds on sockets, messages, runs and time run out, and a paired or stopped system
has nothing left to do. The liveness properties say where it must not stop.

Every property of a passing run has a *mutant* in `PROJECT.json`: a change of one
mapped definition, written next to it in its module (`HearsIfOnline`,
`UsedAtTheEnd`, `KeptActive`, `AllowedAtLimit`, ...), under which TLC finds the
property violated. They show that the property speaks about the code it was
written for.

**Fairness.** Weak fairness, only for what a runtime does without being asked: a
due event, timer or answer of a call is delivered in the end. Node's and the
worker's event loops, React's intervals and the Durable Object runtime justify
that, and calls that fail do so by their own timeouts. Nothing is assumed of
users, of devices that connect, of the network staying up, of tools ending or of
the gateway listening, answering or obeying SIGTERM. In `relay_live` the constants
exclude failing calls, which would make its properties false for an
uninteresting reason; clients that go at any moment are in it. The bridge, the
manager, the phone, the turns and the notices are checked with all their faults.

- *Lanes:* a command of the current generation ends once what it awaits has ended
  (agent runs have a time limit), and the restart loop goes on. A command that a
  restart interrupted may never end (`command-queue.ts:193-196`,
  `run-loop.ts:141-143`), and `EveryCommandSettles` promises nothing of it. Nothing
  enqueues or restarts by fairness.
- *Turns:* a handler goes on after each await and a run ends, by its time limit if
  by nothing else.
- *Notices:* a request is answered or refused, an open stream is read, a timer
  fires, and the connection to a dead process breaks. Health checks, notices and
  the restart of a gateway are not assumed.
- *Agents* and the other runs without a liveness property have no fairness.
- `AgentComesBack` speaks of behaviours in which connections break, tokens are
  refused and heartbeats go unanswered only finitely often (`Trouble`): an agent
  that loses every new connection before it is accepted is never served. A third
  socket waits in the model until one of the two is closed at both ends, which
  happens by fairness. Of the bridge and
  the agent themselves only accepting, reading the auth frame, opening, closing and
  the reconnect timer are fair.

## 4. What is proved

The runs show the properties on the small instances; the theorems, checked by
TLAPS, for every value of the constants that the named assumptions allow (any
number of devices, sockets, calls, messages, turns, faults, limits). Two of the proof
modules treat two components that share nothing: they extend both, whose
variables are disjoint, and each theorem speaks of one component's specification
(`Spec`, or `PhoneSpec` and `ManagerSpec`).

**Relay_proofs.** `TypeCorrect`, with the rate bound, which is inductive as it
stands. `RegisteredCorrect`: the entry of a device is a socket of the device that
is open or gone; it is inductive with the type invariant, because a close event
removes the entry of its device whatever it is. `OnlyAddresseeCorrect`: a message
is inductively kept together with `SentWithOwnClaim` (a frame on the wire was sent
with the JWT of its socket), since forward and enqueue look the addressee up by
the socket and the property speaks of the message. `OneCopyCorrect`: `OneCopy`
says that the set of places of a message has at most one element, which does not
tell a step where the message may be. `Exclusive` says it place by place (what
waits is not on the wire, what is on the wire is not in a call, ...), with two
facts about drains: a socket that was never accepted has none, and only an
answered one has a batch, so a drain never overwrites a batch with another. The steps that move nothing or
only take messages away share one lemma (`OnlyLeaves`), those that move a
message another (`Moves`).
`PresenceCorrect` holds between devices of one pairing each (the
antecedent `Mutual /\ SinglePairing` is part of the property). A socket
becomes registered in the step that accepts it, so the induction needs that a
fresh socket was told nothing (`FreshUntold`), and that the entry of a device is
a live socket (`RegisteredCorrect`), which hears what the step sends.
`LossExplained` is an action property: each action that can empty the last place
of a message (`Where`) is matched with its cause (`Explained`); that an insert is
only refused at the limit needs the bound of the queue (`QueueBoundCorrect`).
`MailContractCorrect` is the refinement `Spec => MailContract!Spec`. The phase
that the contract sees is computed from the places of a message; `PhaseInv`
gives it from one place at a time, which `Exclusive` makes unambiguous, and then
every step accepts, keeps, delivers or loses each message (`ContractStep`) and
is a step of the contract or a stutter.

**PhoneMail_proofs** has the queue and the phone's end of it.
`NothingStaleCorrect` is not inductive: it needs that
the alarm is never further ahead than the oldest message allows, and that the
clock never passes the alarm by more than its delay (`AlarmInTime`). Whenever a
message is stored there is an alarm (`NeverForgottenCorrect`), so the two bounds
add up to age + interval + delay for any values of the three.
`OneWayBackCorrect` needs that a close event that is due belongs to the current
socket while the screen is there (`CloseIsOwn`) and that the flag of an intended
close follows the screen (`FollowsScreen`).

**DesktopBridge_proofs.** `BridgeInv` is what the bridge knows of its sockets:
the registered socket is authenticated and not closed, every other authenticated
socket is closing (`OneAgentCorrect`), without a registered socket no call is
pending, so that a pending call always has a socket whose close event is to come
and will fail it (`NobodyWaitsAloneCorrect`), and the counter of missed pongs passes its
limit only together with the termination of the socket, which makes the type
invariant inductive (`TypeCorrect`). `CallInv` says where a request can be: on
one socket at most and then not yet taken, an answer only of a tool that ended.
`ToolCallsCorrect` is the refinement `Spec => ToolCalls!Spec`: most actions are
`Quiet` (they neither touch calls and tools nor add frames of them) and are
stutters by one lemma; the others are matched one by one with the actions of
`ToolCalls`, a close event or a stop with `FailTogether`.

**CommandLanes_proofs.** The conjuncts of `IInv` support each other lane by lane:
a queue holds exactly the waiting commands of its lane, each once (`QueueInv`);
the active ids are the running commands of the current generation
(`SlotsAreCurrentCorrect`); and what waits finds no room (`NoIdleSlotCorrect`),
which the pump restores because it takes as much as there is room for
(`TakenBounds`). That no lane starts more than its limit (`WithinLimitCorrect`) is
a property of steps, since a limit may be lowered below what already runs. A lane
that is not configured has limit one, so a session's turns of one generation
exclude each other (`OneTurnPerSessionCorrect`). `DrainedMeansSettledCorrect`
needs `ParentInv` (what a settled command awaited is settled) and `WaitInv` (the
snapshot held started commands only).

**Pairing_proofs.** `NoRivalCorrect` and `PairIsMutualCorrect` speak of three
places that learn of a pairing at different times. `PairingInv` follows a claim
through them: a request accepts one phone for good (`ClaimInv`, a completion that
waits for its signatures included), every result names that phone wherever it is
by now, in the registry, in the answer of a poll or with the desktop (`NamedInv`),
and pairs are written for both ends in one step (`PairInv`). `DeskInv`,
`RequestInv` and `AnswerInv` say that a token was issued for one id and that
answers in flight are about issued tokens, which `StoredTogetherCorrect` and
`HandedOutOnceCorrect` need.

**Turns_proofs.** `TurnInv` holds the properties with what supports them. All
actions of a turn are first reduced to two facts: a step moves that turn and no
other (`Moves`), and it appends to the stream of its session events that may be
appended there, leaving its gate in order (`Speaks`, `Fine`). Each
property is then preserved by any such step, and an action has to be looked at
only once.

- `OneVoiceCorrect`: a text in the stream, a token or the answer in `done`, is that
  of the turn's last run, which is not repeated any more (`EventOK`), or it is an
  answer whose title check threw, the exception the property names. Since the gate may hold text while its run
  fails, the same is needed of what is held (`HeldOK`): it belongs to a run that
  goes on and whose text counts as emitted, or to the fallback.
- `SilentAfterEndCorrect`: what comes after an end would have to be sent by a turn
  that is over or be held by its gate; the former takes no step, and the latter
  is excluded by `HeldOK`. The one exception the property names (a title check
  that throws) is carried along as a slip.
- `NoFillerCorrect`: a turn in action mode is guarded by its gate until its tool is
  called (`Guarded`), unless the gate timed out, a delivery that threw took it
  down, or another turn of the session shared it. The last excuse is the set
  `met`, so the proof needs that turns of a session that are under way together have met
  (`MetOK`).
- `TurnTypeCorrect`: a lane holds exactly the waiting and running runs of its
  session (`LaneOK`), only its head runs, and removing the head keeps the rest in
  order.
- `EndsAreToldCorrect`: no turn is over without its `done` or `error` event. It is
  the safety half of `EveryTurnEnds`, which adds that a turn is over some time.

**Desktop_proofs** has what the desktop knows of the gateway. `NothingMissedCorrect`
compares the store with what a stream carries; the replay of a new stream and the
broadcast after a store leave no gap because no step comes between them. That
replay and overflow take what they should (`UnreadIsKeptCorrect`) needs
`StoreInOrder`: numbers grow along the store and what has expired is a prefix of
it, so that a full store drops the expired first and then its oldest. `ManagerInv`
strengthens `OneGateway` with what a spawn finds (no check is open,
`SpawnsAlone`), with the fact that only the running child answers well
(`AnswersAreOwn`), and with the counter of restarts passing its limit only together
with "error". That counter is the only one with a limit: `consecutiveFailures` has
none in the code, and `ManagerTypeCorrect` claims none.

**Agents_proofs.** `AgentsInv` has one part per promise. `AskInv`: a proposal is
decided only after a notice named it and the tool runs only in the step that
removes it (`AskedIsAnsweredOnceCorrect`). `TrustInv`: without an overlap what a
promotion read is still current (`TrustKeptCorrect`). `OneOffInv` and `GoneInv`:
a one-off agent is gone once a success is on its way, and whoever finds it gone
overlapped with that run (`OneOffReportsOnceCorrect`, `SilenceIsExcusedCorrect`;
a run that asks is silent only in the step that finds the store full).
`BudgetBoundCorrect` is not inductive as it stands: calls are claimed before they
are billed, so `BudgetInv` bounds what is billed plus what the allowed runs may
still claim, those of a message included until they are billed. It is kept because a run that passes the check without a failure is
either the only one allowed, and then the limit was not reached, or all allowed
runs have met by now and count as overrun.

**Model-checked only.** Every invariant, action property and refinement of the
passing runs is proved as well as checked. What is left to TLC is liveness, which
rests on fairness and `ENABLED`, and these this prover does not handle:
`StoredIsHandedOver`, `EveryCommandSettles`, `EveryTurnEnds`, `EventuallyTold`,
`CallsEnd`, `AgentComesBack`, `EndsAreAnswered`, `PhoneComesBack`. `Chat`, whose
one run shows a disagreement (section 5), has no theorem.

## 5. What the code does other than it says

One disagreement has a run, whose property quotes the statement and whose trace
TLC prints: `chat_stray`. The effect that handles a change of the session says
"Close any active stream" (`useChat.ts:236`), but a request that is still being
answered opens its stream afterwards, beside the new session.

The models show more of the kind. Each is a behaviour of the model named. No run
is kept for them: they are read off a single definition, or the properties of
section 3 state what holds all the same.

*Relay and registry*

- The close event of a replaced socket removes the entry of its successor, so the
  next connect closes nothing and two sockets of one device stay open
  (`packages/relay/src/index.ts:201`; `CloseEvent`).
- No route of the worker leads to the registry's `unpair`
  (`packages/relay/src/index.ts:271-306`; `UnpairRouted`), although the desktop
  calls it.
- A push registration in flight during an unpair stores its token afterwards
  (`PairingContext.tsx:66` against line 89; `Pairing`).
- The phone's id is a UUID with dashes (`PairingScreen.tsx:55`), which the
  registry's format check refuses (`device-registry.ts:15`). The pairing run
  assumes well-formed ids (`WellFormed`), so that what lies behind this check is
  looked at, too.
- A pairing page that is left while `initPairing` is in flight has cleared its
  intervals by then; the answer sets one that polls the registry until the code is
  completed, or for as long as the app runs (`DevicePairing.tsx:33-38`, `107`;
  `LeftPoll`). If the code is completed after another was asked for, its JWT is
  stored next to the new id.
- A phone that completes a code after the last poll of the countdown is paired,
  the desktop is not: `CountdownEnds` ends the polls (`DevicePairing.tsx:61`).
- Messages stored in the same millisecond are drained in random order
  (`offline-queue.ts:63`), against the comment in line 86.
- `queued_messages` frames are dropped by the phone
  (`apps/mobile/src/services/relay.ts:131`; `batches` in `PhoneLink`), although
  the relay's protocol has them (`packages/relay/src/types.ts:69`) and its push
  announces a new message (`push.ts:17`).

*Processes and tool calls*

- A late close event makes the agent forget its new socket (`AgentClosed`,
  `agent.ts:563`), which a `disconnect` then does not close: when it opens, the
  status is "connected" again. Tool calls keep their promises all the same.
- The same close event schedules a reconnect although the new socket is live. The
  third socket replaces the second at the bridge (`tool-router.ts:429`), whose late
  close event nulls `ws` again and schedules a fourth, and so on every few seconds
  (`agent.ts:561-568`, `631-638`). In between the agent has a socket: it is served
  again each time (`AgentComesBack`), but answers that are ready while `ws` is null
  are lost.
- A call that is pending on a socket when that is replaced is not failed, neither at
  the replacement (`tool-router.ts:429-432`) nor at the late close event, which
  belongs to no registered socket any more (`443`). It is answered over the new
  socket, fails with it, or waits for its 60 s.
- The agent's delay is reset when a socket opens (`AgentOpens`, `agent.ts:552`),
  so a bridge that refuses the token sees an attempt every three seconds.
- A stop during the port preflight is followed by a spawn
  (`gateway-manager.ts:238`; `GatewayManager`), against the shutdown that
  `gateway-manager.test.ts:511-531` describes.
- A process that cannot be started has no exit event and is not restarted
  (`gateway-manager.ts:275`; `child = "failed"`).

*Turns and the chat page*

- The answers of the cost optimiser are sent before the response of the request,
  so the stream it opens misses them and the page goes on loading
  (`PostAnswered`; the comment in `in-app.ts:1250` gives the reason for the order
  of the other path).
- The title check of an answered turn is in the `try` block of its run: its
  failure repeats the run or reports an error after `done` (`in-app.ts:848`,
  `2313`). A run that streamed nothing is repeated, so that `done` shows the answer
  of one run and the tokens after it the text of another. `SilentAfterEnd`,
  `OneVoice` and `NoFiller` allow for exactly this.
- If the message handler could not be wired, which is only logged
  (`in-app.ts:2354-2356`), every message is answered 202 and nothing follows: no
  event ever ends the turn (`in-app.ts:1255`; `PostUnheard`).
- Text that the gate holds back counts as emitted (`in-app.ts:2279`), so a run
  that fails with nothing shown is not repeated.
- The end of a turn removes the response-mode context of its session, which may be
  that of another turn (`in-app.ts:1648`); the path of an error removes it
  together with the text it holds (`1651`).
- A title that comes late, or its timeout, drops the page's reference to the
  stream of the next message (`useChat.ts:509-545`). The error handler closes the
  stream first and looks at its state afterwards, so it always reports a lost
  connection (`useChat.ts:549-559`).
- The messages of an earlier session, when they are loaded late, replace those of
  the session shown (`useChat.ts:246-262`, which `Chat` leaves out).

*Sub-agents and notices*

- "Awaits all triggered jobs before returning (... ensuring completion before next
  tick)" (`agent-cron.ts:204-206`): the interval does not wait for it, and runs
  overlap.
- A run that times out is reported with no tool calls (`agent-executor.ts:479-486`),
  while its loop goes on: what it uses is not billed, and a proposal it makes is
  lost.
- When a query fails a cron run ends without a notice (`SilenceIsExcused` names
  the cases).
- The proposals of a notice are stored a second time (`in-app.ts:2202`). If the
  first time filled the store this throws, and the notice is kept without being
  broadcast (`muted` in `Notices`).
- Proposals of delegated runs are only named and never stored (`KeepProposal`), so
  nobody can approve them.
- Retention is not applied to the runs of a message (`Retain`). An agent that is
  woken by a delegation has no cron job until the gateway restarts.
- An agent that runs once a month may be put to sleep by the review, whose limit
  is 30 days (`agent-lifecycle.ts:26`).
- A promotion writes back the trust metrics it has read (`Promote`,
  `agent-registry.ts:614`): tasks recorded in between are lost when runs overlap.
  Overrides are recorded by nobody, so no agent is ever demoted.
- The number of agents is read before the insert (`agent-registry.ts:266`): two
  creations may both pass the limit.
- Destroying a notification stream raises its error event, which schedules a
  reconnect that destroys the next stream (`index.ts:702`, `753`): the desktop
  reconnects every few seconds and replays what is stored. Nothing is missed by
  it (`NothingMissed`), but notices are shown more than once.

## 6. Assumptions

- The worker is a single isolate: `connectedDevices` is one table. With several
  isolates two devices may not find each other; the code has no provision for
  it, and the models do not speak of it.
- Events of one socket arrive in any order, except that a close event comes
  after the frames before it and that the bridge reads the auth frame of a
  socket first. This allows more than TCP does, and the safety properties do not
  need the order.
- A frame lost on its way is the same as a client that left earlier.
- Both ends of every connection learn of its end at some time, which the
  platforms guarantee by timeouts of their own; safety does not need it.
- The clock of a queue does not go back, and an alarm is late by a bounded time.
- The random 64 bits of a key and the random ids and tokens do not repeat.
- `apps/desktop/src/main/index.ts` calls `connect` of the agent when the gateway
  comes online and `disconnect` on every other status (`index.ts:638-676`), so a
  `disconnect` may be repeated and a `connect` is not; it starts and stops each gateway manager once.
- A health check fails within its timeout, which is not longer than the delay
  before a restart (both have the same order of magnitude in the code; a check
  of a dead process is refused at once).
- The `stop` of the desktop bridge is called by tests and not by the gateway at
  this commit; it is modelled because it is an operation of the bridge.
- Queries of the database are atomic each, and `updateTrustMetrics` is one
  statement. The day of a budget does not change within a behaviour.
- What a model decides (a classification, a tool call, a proposal, an answer) is a
  choice.
- A call of `initPairing` left behind by its page is over before the user asks for
  the next code or unpairs.
- Bounds: `LastSocket`, `LastLoss`, `LastTick`, `LastMessage`, `LastFailure`,
  `MaxDelay`, `MaxFaults`, `MaxAlone`, `MaxRestarts`, `MaxSwitches`, `OtherProposals` and the finite sets
  of sockets, codes, messages, turns, commands, runs and notices bound what
  happens in a run. Where a module is proved, the theorems hold for all of them.

## 7. What is not modelled

- *The vendored fork.* Most of the repository's lines are those of OpenClaw with
  its channels, browser tools, plugins and user interfaces, of which the program
  uses a part through the hooks modelled here. Of the fork itself only the
  command lanes and the restart loop are modelled, since every turn depends on
  them. Measured against all lines of the repository the models cover little;
  measured against the program's own stateful and concurrent code, most of it.
- *Stateless code.* The tools that are pure functions or one call to a service,
  the choice of a model, the sub-agents' factory, memory and pattern statistics,
  and encryption (a message is an opaque value). They have one actor and no
  protocol, and are tested by their inputs and outputs.
- *Presentation and the operating system.* Pages, tray, windows, updater, login,
  file dialogs, credentials kept by the operating system.
- *`ConfirmationManager`*, which no production path uses; `Confirm` in `Agents` is
  the confirmation a user can give.
- *The desktop's notification to the phone* (`apps/desktop/src/main/index.ts:857-921`):
  one frame over a lazily opened relay socket. A notice that comes while the
  socket connects is dropped. As a client of the relay it is any socket of
  `Relay`.
- *The scheduler's working buffer*, a file that is read, changed and replaced; two
  writers may lose an entry.
- *Creating, changing and reactivating sub-agents by hand*, and agents that run in
  parallel before a turn (they only delay the handler of `Turns`).
- *The rest of the chat page*: tool cards, uploads, the retry after a login, the
  loading of the history.
- Left to review, for they are read off single lines: a frame forwarded during a
  drain overtakes the batch (`packages/relay/src/index.ts:260`), the countdown of
  a code against its last poll, and the routes and failures of section 5 that no
  property covers.
