# TANK! server: TLA+ models, model checking and proofs

TANK! is a two-player artillery duel played over the network. A Go server runs
rooms and matches, a browser (or native) client and bots play in them over
websockets. This directory holds TLA+ models of the server's own logic, the TLC
configurations that check them on small instances, and TLAPS proofs of what
matters most for instances of any size.

`PROJECT.json` is the index: components, runs, mutants, the line map from each
definition to the Go code it translates, findings, hazards and theorems.

## 1. The system

| Component | State it keeps | Operations |
|---|---|---|
| Session layer: `server/ws_handler.go`, `room.go`, `hub.go`, `token_store.go`, entry points of `room_api.go` | `Hub.rooms`, `Room` (state, players, reconnect timer), `ConnRegistry` (connections and match controller per room), token store, per connection room / seat / controller | create, join, rejoin, ready, play_again, disconnect, reconnect timer, janitors |
| Bot manager: `server/bot_manager.go`, bot seats of `room.go`, the auto-room loop of `cmd/server/main.go` | active subprocesses, reserved seats, auto-fill timers | assign, spawn, release, auto-fill, bot-against-bot rooms |
| Match loop: `server/match.go`, `input.go`, `input_guard.go` | controller state, tick, input trackers, guard, round pause | start, stop, tick, key down / up, time limit |
| Tick stream: `server/delta.go`, `broadcastTick`, `send` and `RoomBridge`, spectators, `client/gamestate.go` | previous grid, send queues, the client's grid | keyframes, deltas, game_start snapshots, drops |
| Engine: `engine/*` | board, tanks, shots, mines, explosions, wreckage | one 60 Hz update of the rules |
| HTTP listings and SSE: `server/room_api.go`, `hub.go` | per stream what it saw last; subscribers | sample a room and send what changed, answer status and listings |
| Bot SDK and bot: `bot-sdk-go`, `cmd/bot-go` | connection, send queue; the key it holds and what it waits to see of it | connect, dispatch, decide on a key, play again |
| Client: `client/*`, `cmd/client` | connection, game state, screen | connect, apply messages, draw |
| Tools: `cmd/bot-load`, `bot-skilltest`, `lagproxy`, `gensounds`; `engine/match_runner.go` | | test harnesses, asset generation |
| Lobby page: `web/app.js` | room, token, event stream or polling interval, the screen | create, wait, cancel, go to the game |

How they interact. Every websocket connection has a reader goroutine that runs
one handler at a time, and a writer goroutine that drains a 256-entry channel.
The HTTP server runs one goroutine per request. A match has a loop goroutine at
60 Hz that calls back into a `RoomBridge`, which queues ticks on the two
connections it was built with. Timers (reconnect, auto-fill) and janitors run
in goroutines of their own. All of them share the room, the hub, the registry
and the token store, each behind a mutex of its own which is held for one
method call: a handler is a sequence of critical sections, and whatever it has
read may be old when it acts on it.

What is hard. Joins racing joins; a start racing a departure; two starts; a
rejoin replacing a connection which another handler is about to put into a
bridge; a timer that fires while the state it was set for is left and entered
again; a rematch while the old loop ticks; seats reserved for bots while humans
join; lossy queues under a delta encoding; snapshots taken before, and queued
after, the messages they race with; held keys whose release is lost.

## 2. The models

### 2.1 `Session` (with `MCSession`, `SessionProofs`, `SessionMatchProofs`)

One room's session layer. The variables are the fields of `Room`,
`ConnRegistry`, `MatchController` (its life cycle only), `ClientConn` and the
token store; the comment beside each names the field. `pc[c]` is the next
critical section of the reader goroutine of connection `c`, `api[r]` of an HTTP
request. An action is one critical section, or several that nobody else can tell
apart; every handler of `handleMessage` that changes session state is there:

| Actions | Code |
|---|---|
| `WSCreateRoom`, `WSJoinRoom`, `WSAddPlayer`, `WSRegister`, `JoinCheck` | `handleCreateRoom`, `handleJoinRoom` |
| `Rejoin`, `RejoinRemoveToken`, `RejoinClosed`, `RejoinWaiting`, `RejoinRegister`, `TryResumeMatch`, `RejoinMatch`, `RejoinClients` | `handleRejoin` |
| `StartClients` ... `StartRun` | `startMatchForRoom` |
| `Ready`, `SetReady`, `ReadyBoth`; `PlayAgain`, `SetRematch`, `AgainBoth`, `ResetForRematch`, `AgainClients`, `RemoveMatch` | `handleReady`, `handlePlayAgain` |
| `Drop`, `Cleanup`, `MarkDisconnected` ... `Unregister` | `readPump`'s end, `cleanupAndClose` |
| `TimerFires`, `ReconnectExpires`, `TimerCloses` | the goroutine of `StartReconnectTimer` |
| `MatchGameOver`, `MatchTimeout`, `LoopExits` | `stepTick`, `runLoop`, as far as the session sees them |
| `ApiCreateRoom`, `ApiJoinCheck`, `ApiAddPlayer` | `RoomAPI` create and join |
| `CleanupStaleRooms`, `CleanupStaleTokens` | the 60 s janitors |

Environment. A client may send any message at any time its connection is idle
in the reader, except that `rejoin` comes first on a connection, as the browser
and the SDK send it. `handleRejoin` does not check that, as `create_room` and
`join_room` do: the guard of `Rejoin` is an assumption about clients, and a client
that rejoined on another seat over the same connection would break
`AddressedBySeat`, which rests on it together with its theorem. `Kinds` names the messages of an instance. Tokens come from
the HTTP API only, so a configuration with `rejoin` enters rooms over HTTP.
`Drop` covers every end of the read loop. The source as committed uses message
constants (`MsgTypeSpectate` and others) that `protocol.go` does not declare;
they are modelled by the meaning their use gives them.

Bounds. `Conns`, `Reqs`; `Matches` bounds the controllers created (the first
game and one rematch, or two racing starts); `Timers` bounds the reconnect
timers started. When they are used up the action that would need one more is
disabled. The cfgs turn deadlock checking off for that reason: a room's story
ends when everybody has left. Two or three connections are enough for every
race of two players and one newcomer; a fourth adds only another refused join.

Properties.

- `AddressedBySeat`: the registry and every bridge address a seat's traffic to
  a connection that entered on that seat.
- `SeatExclusive`: no two connections on one seat (where tokens are not used).
- `OneGame`: never two games that advance, where clients send no `play_again`.
  The code takes a `play_again` in the middle of a match too, and if both players
  send one the second game then runs beside the first.
- `PlayersFollowMatch`: between handlers, a registered player's input goes to
  the registered controller, and its ticks come back to that player.
- `NothingLeftBehind`: when all connections are gone no loop runs on and the
  registry is empty (where neither `rejoin` nor `play_again` is sent);
  `UsedOnceNothingLeft`: the same of a room entered with tokens, each used once.
- `AutoStart`: two registered players never wait with no match.
- `ReconnectDecided`, `RematchAgreed` (liveness): a room that waits for a reconnect
  is closed when nobody comes; two players who both ask for a rematch are noticed.

Runs.

| Run | Instance | Result |
|---|---|---|
| `session_ws` | 3 connections, create / join / ready, symmetric | all invariants hold |
| `session_rejoin` | 3 connections for 2 tokens, 3 requests, 2 matches, 1 timer, symmetric | `OneGame`, `AddressedBySeat`, `AutoStart`, `UsedOnceNothingLeft` hold |
| `session_live` | 2 connections, create / join / play_again, 2 timers, fair | `ReconnectDecided`, `RematchAgreed` hold |

In `session_rejoin` players enter over HTTP and present their tokens; with three
connections for two tokens one token is presented twice, so that a seat is taken
over. The constraint `OneLeaves` keeps this within reach: once the third
connection has entered, at most one goes away and the third request stays out.
As long as each token is used once nothing is cut, so that `UsedOnceNothingLeft`
is checked for every order in which the two players leave. `OneGame`,
`AddressedBySeat` and `AutoStart` also hold with two requests and without the
constraint (2.9 million states, too many for a run that is repeated with every change).

What the model shows and no run states. A departure between the decision to start
and `SetState(RoomPlaying)` leaves a closed room that plays again; no doc forbids
it, and the properties of the instance hold through it. `AutoStart` is checked where players are
seated over HTTP; a `join_room` that runs between the `AddPlayer` and the `SetConn` of the
creator's `create_room` finds nobody registered, and nobody looks again
(`ws_handler.go:436`). After a rematch the loop of the
first match is stopped by nobody (`RemoveMatch` only forgets it), so that
`NothingLeftBehind` is violated in an instance with `play_again`; the runs that
check it have none. A token presented twice violates it as well, because a departure
is recorded per seat (`Player.Connected`, the registry's slot) and not per connection:
`c1` and `c2` both validate the token of seat 1 before either removes it; `c2`
registers and `c1` replaces it; `c2` goes on to start the match and copies `c1` and
the opponent `c3` from the registry; `c1` and `c3` drop, and as the last to leave `c3`
takes the room and its match out of the registry; `c2` starts the loop and drops. Its
connection was never given the controller and the registry has none, so nobody stops
it: the match runs on with nobody there until its time limit. Two more traces with a
token presented twice violate `ReconnectDecided`, with the opponent still there: (1) the
timer closes the room, a resume that had seen it waiting makes it play again, the
resumed player leaves and a new timer is started, and the goroutine of the first timer
comes to its `StopReconnectTimer` and stops the new one; (2) a player leaves and is
replaced by a resume between `SetWaitingReconnect` and `StartReconnectTimer`, so that the
timer fires in a room that plays and stays in `reconnectTimer`, and at the next departure
`StartReconnectTimer` starts none. `TryResumeMatch` leaves `Player.Connected` as it is, and a token
is used once: a client that has presented its token and then loses its connection
has none left to come back with.

Fairness (`FairSpec`): every started handler goes on (goroutines are scheduled
and no handler waits for a message), timers fire, stopped loops end, the janitor
ticks. No client is assumed to send anything or to leave.

Proofs (`SessionProofs`). For any `Conns`, `Reqs`, `Matches`, `Timers`:

- `TypeCorrect`: `Spec => []TypeOK`, one lemma per kind of step.
- `Addressed`: `Spec => []AddressedBySeat`, from `SeatInv`, which adds to it
  that a handler which is going to seat its connection has one without a seat
  (`EnteringUnseated`: so a seat once given is never changed) and that what
  `startMatchForRoom` read from the registry sits where it was read
  (`GotBySeat`).
- `SeatsExclusive`: `Spec => []SeatExclusive` provided clients send no `rejoin`;
  `ExclusiveInv` adds that nobody sits on a seat the room thinks empty
  (`SittingOnSeat`), because `AddPlayer` hands those out, and that no room
  method empties a seat. With `rejoin` the property is false by design: a token
  takes the seat over.

The assumption `SessionAssumption` only says that the constants are what they
stand for.

Proofs (`SessionMatchProofs`), about the match between all these handlers, for any
number of connections, requests, matches and timers:

- `OneGameWhileNobodyLeft`: as long as no player has been taken off its seat there is
  one game, for clients that may send every message but `play_again`, `rejoin`
  included.
- `OneGameJoined`, `NothingStays`, `PlayersFollow`: `OneGame`, `NothingLeftBehind` and
  `PlayersFollowMatch` where clients send neither `rejoin` nor `play_again`, whoever
  leaves and whichever timer fires.
- `AutoStarts`: `AutoStart` where players come over HTTP (no `create_room`, `join_room`
  or `play_again`) and present their tokens as often as they like.

The inductive invariants are `MatchInv` (where in `startMatchForRoom` and in the
cleanup a handler may be given what room and registry hold: a second starter finds the
match of the first or makes the one that is registered, and who unregisters last takes
the match along) and `LaunchInv` and `AutoInv` (somebody who is to look at the
registry is still on the way while two players wait there). TLC checked them on the
instances of `session_ws` and `session_rejoin` before they were proved.

Why `Kinds` is restricted. With `play_again` `OneGame` and `NothingLeftBehind` are false,
as said above: `RemoveMatch` forgets a match that runs. With `rejoin` and a token used
twice `NothingLeftBehind` is false too; with each token used once it is checked
(`UsedOnceNothingLeft`) and not proved. Whether `rejoin` can lead to more than one game
once somebody has left is not proved (`OneGameWhileNobodyLeft`), and TLC found none in
`session_rejoin`. The liveness properties stay with TLC.

The proofs corrected the model once: in `Cleanup` a connection without a seat that had
closed its room matched two arms of a `CASE`, and which one is taken is then not
defined; the code looks at the seat first, and so does the model now.

### 2.2 `BotSeats` (with `MCBotSeats`, `BotSeatsProofs`)

Who gets which seat when humans and bots compete. Several rooms; for each the
seats with their occupant, `Player.Connected`, reservation, online connection,
bot subprocess and the step its `AssignBotToRoomAt` call has reached; per human
one HTTP or websocket request; the auto-room loop of `main`.

| Actions | Code |
|---|---|
| `ApiCreateRoom`, `ApiCreateAdd`, `ArmAutoFill`, `SetAutoFillTimer` | `handleCreateRoom` of the HTTP API |
| `JoinRoom`, `JoinAdd`, `JoinCancel` | HTTP join, and `join_room` as far as seats go |
| `AssignCount` ... `AssignRecord` | `AssignBotToRoomAt`, one action per critical section |
| `ProcExits`, `Release` | the bot's process, the goroutine that waits for it, `releaseBotAt` |
| `AutoFillFires` | the `time.AfterFunc` of auto-fill |
| `LoopCounts` ... `LoopRemoves` | the auto-room loop |
| `Arrive`, `StartMatch`, `Depart`, `ReconnectExpires` | what the session layer does to seats; `Session` has the detail, here each is one step |
| `CleanupClosed`, `CleanupFinds`, `CleanupDrops` | `CleanupStaleRooms`, which holds the hub's lock between its look at a room and its removal (`stale`) |

Assumed: bots are enabled (`TANK_ENABLE_BOTS=1`), auto-fill has a delay, a room
is made with one bot policy (with both flags `vs_ai` wins in the code, so the
other is not used). Plain rooms have no bots and are left to `Session`. A room
is stale whenever the janitor says so, its age being a flag's value. A seat that
a player left stays disconnected, as nothing in the code sets
`Player.Connected` again. A failed spawn leaves the bot player seated, as in the
code.

| Run | Instance | Result |
|---|---|---|
| `botseats_room` | 1 room, 3 humans, no cap, fair | `SeatKept`, `ReservedEmpty`, `NoSlotLeak`, `ReservationEnds`, `TypeOK` hold |
| `botseats_loop` | 2 rooms, 1 human, the loop, cap 2 | `OneBotMatch` holds |
| `botseats_cap` | 2 assignments, cap 1 | violated: both count before either records |

Three humans for two seats give the late joiner that finds one seat taken and
the other reserved; two rooms give the loop a second match to create by mistake,
and the cap two assignments. Fairness: a started assignment, the loop in the
middle of a room and the janitor that holds the lock go on; nobody has to join,
leave or exit.

Proofs (`BotSeatsProofs`), for any rooms, humans and cap. `AddBotPlayerAt`
writes its seat without looking whether it is empty. `SeatsKept` proves
`Spec => SeatKept` from the inductive invariant `SeatInv`: types, `ReservedEmpty`
(a reserved seat is empty) and `RoomKnown` (a request under way has a room).
`SeatsTyped` and `ReservationsEmpty` are its corollaries. `BotMatchOnce` proves
`OneBotMatch` from `LoopInv`: an assignment under way is for a room that a human
created or the one the loop itself waits for (`TasksOwned`, `CreatorsOwn`), so that the
only room that can come to hold two connected bots is the loop's, and it has none
when the loop decides to create one (`LoopsMatch`). `SlotsReleased` proves `NoSlotLeak`
from `SlotInv`: a process about to be recorded has not been reaped (`RecordsProcess`).
`ReservationEnds` is a liveness property and stays with TLC; the cap is violated.

### 2.3 `TickStream`, which implements `Mirror` (with `MCTickStream`, `TickStreamProofs`)

How the board of a match reaches the clients. `Mirror` is the promise: a client
follows the server's board tick by tick, jumps to a board the server has had, or
misses a tick, and then what it shows means nothing until it jumps again.
`TickStream` is the code: the board as a function of cells, the delta tracker,
what `broadcastTick` is sending, one lossy queue per receiver (its `sendCh` and
what is on the way), the `game_start` each handler holds, and the client's
`GameState`.

| Actions and operators | Code |
|---|---|
| `Tick`, with `ShouldSendKeyframe`, `ComputeDelta`, `UpdateState` | `stepTick`, the locked part of `broadcastTick`, `DeltaTracker` |
| `Broadcast`, with `Send` | `RoomBridge.OnTick` and its three relatives, `BroadcastToSpectators`, `ClientConn.send` |
| `Spectate` | `handleSpectate` up to the write of `spectatorConns` |
| `GameStartState`, `SendGameStart` | the snapshot under the match's lock, and its queueing afterwards |
| `Start` | `MatchController.Start` |
| `Deliver`, with `Apply`, `Patch` | `Game.handleMessage`, `ApplyGameStart`, `ApplyTick`, `ApplyTickDelta` |

What is merged and why nobody can tell. `stepTick` and the locked part of
`broadcastTick` are two critical sections of one goroutine, and nobody else
writes the board, so `Tick` is both. The tracker is the loop's own, so its
update after the sends is in `Tick` too. `Broadcast` fills all
queues in one step, where the code goes from one to the next. One receiver
cannot tell: a handler's send to it comes before or after the broadcast's send to
it in both. Two receivers together could (a handler may come second in the first
queue and first in the next), but every property, and `Mirror`, is about each
receiver by itself. `ShouldSendKeyframe` is asked with size 0, so its
rule on the size of a delta never applies and the model has none.

What is left out. Tanks, shots and mines come whole in every message. Other
messages share a real queue; what matters is only that a queue may be full, and
`QueueCap` makes that happen after two messages instead of 256. The pause
between rounds, with the only call of `DeltaTracker.Reset`, needs a loser with
lives left, which the engine never produces (`onPlayerDefeated` is reached
without lives only). The end of the match ends the stream, and connections do
not close in the middle. A spectator asks once.

History. The tick of a `game_start`, `boards`, `at`, `gap`, `dropped` and
`lostKeys` are for the properties: the code keeps the current board only, and the
client looks at no tick numbers, which is why `gap` has to be defined from
outside. Init gives `boards` the first board at ticks that have not happened.

Properties.

- `InStepShows`: a client that has missed no tick since its last full board shows
  the server's board of that tick.
- `DesyncBound`: the counter behind the client's desync warning stays below one
  interval per keyframe lost.
- `BoardFirst`: a player gets its `game_start` before any tick, although two
  handlers may be starting the match.
- `MirrorSpec`: every step is a step of `Mirror`.
- `FreshStart`: a client for which nothing was dropped shows the right board.

| Run | Instance | Result |
|---|---|---|
| `tick_stream` | a player, two starting handlers, a spectator, 2 cells, interval 3, 6 ticks, queues of 2 | `InStepShows`, `DesyncBound`, `BoardFirst`, `MirrorSpec`, `TypeOK` hold |
| `tick_stream_fresh` | a spectator alone, 3 ticks | violated: the spectator's snapshot is taken, the next tick is queued before it, and the older board stays on the screen until the next keyframe |

Bounds. Six ticks of interval 3 have the first keyframe, a keyframe after a delta
and one after two; queues of two lose either kind. `OneAtATime` lets the spectator
come when the player has been told and has lost nothing: what one receiver is sent
does not depend on what another one loses, so losses of both at once show nothing
that losses of each do not. Cells and handlers are interchangeable (`Symmetry`; the
temporal property checked is a safety property). `FewChanges` lets the board
change at most twice (a cell that is set and cleared, two cells, one cell twice):
more changes only repeat what one lost or overtaken change does. There is no
liveness property: the code promises none, as a queue may stay full for ever.

Proofs (`TickStreamProofs`), for any board, players, spectators, handlers,
interval, capacity and number of ticks. What a client will show is in messages on
the way, so the inductive invariant `StreamInv` says that every message queued,
held by a handler or about to be sent is true of its tick (`MsgOK`): a full board is
that tick's board, a delta leads from the board of the tick before to it, and
changes nothing in it when applied again (a snapshot taken between the two).
`PrevLast` (the tracker has the last tick's board) makes the next delta true;
`MsgStays` shows that later ticks do not falsify a message. From it follow
`StreamTyped`, `InStepClientShows` and `StreamImplementsMirror`, whose step for a
delivery distinguishes a full board (`Jump`), the next delta (`Follow`) and the rest
(`Miss`). `PlayersToldFirst` proves `BoardFirst` from `ToldInv`: a starter that is
done has told every player (`StarterTells`), and whatever waits for a player with
no board begins with a `game_start` (`StartAhead`), dropped ones included, as a queue
is full only when one waits already. `DesyncBounded` proves `DesyncBound` from
`CountInv`: for every receiver there is a count after each message in its queue
(`Counts`: one more after a delta, zero after a full board) that begins with the client's
own, and whose last is at most the ticks since the last keyframe plus an interval per
keyframe lost. That it exists as a function, extended when a message is queued and
shifted when one is delivered, takes the place of a recursion over the queue.

### 2.4 `Play` (with `MCPlay`, `PlayProofs`)

A bot in a running match, from the server's loop to the bot's decision and back.
Two goroutines that each act on what the other one sent some time ago, over two
queues that drop: the keys the bot believes it holds and the keys the server
holds for it are two states that only messages keep together. A human's browser
sends the same messages; the bot is modelled because its side is in the
repository's own logic and waits for what it did.

| Actions | Code |
|---|---|
| `StepTick`, `BroadcastTick`, `EmitGameOver`, `MatchTimeout`, `StopsItself` | `stepTick`: its locked part, what it announces afterwards, and the unlock before `Stop` at the time limit |
| `Shutdown`, `OpponentDisconnects`, `SpectatorLeaves`, `Rematch`, `LateGameStart` | what other goroutines send the bot meanwhile |
| `Acknowledged`, `GivesUp`, `Interrupts`, `Waits`, `Starts`, `Idles` | `Decide`, in the order of its tests: one action for each way through `checkAck`, the interrupt and `startNewAction` |
| `OnGameStart`, `OnGameOver`, `OnPlayAgainAck`, `Exits`, `UnknownType` | the callbacks of `cmd/bot-go/main.go`, and `dispatchMessage` without a case |
| `KeyDown`, `KeyUp`, `Rejected`, `HandlePlayAgain` | `handleInput` with `InputGuard.Allow` and `InputTracker`, `handlePlayAgain` |

Abstractions. Of the engine's tank only what acknowledgements are read from is kept: a
pose, which a direction key changes or not, and a stock per key that uses
something up; a tick may put the tank back at its start. Which key the bot
chooses (aiming, dodging, finding a way) is left to chance, and so is how long it
thinks before it starts (`Idles`); a key it cannot use is never tried. Moments are
ages in ticks; a tick the bot never hears of makes the next one older by one
(`skipped`). The guard's window is counted in ticks and reset with them, where the
code reads a clock and resets with the next event. The opponent plays no part
but in what the bot is told.

What the code has and the model need not. The branches of `startNewAction` and
`commitMove` that release or drain another key are dead by `ClosedLoop`; the release on
`tank_inactive` in `Decide` is unreachable, as `Active` is never cleared;
`MatchRoundOver` and the pause between rounds are never entered, because the
engine reports a winner only when the loser has no life left; the offset of one
tick before the second player's first move and the `round_over` message go with them.

Properties.

- `ClosedLoop`: the bot holds the key whose effect it waits for and no other,
  whatever is lost.
- `NoKeyStuck`: while nothing was dropped, what the server holds is held by the bot
  or has its key-up under way.
- `KeyHeals`: a key whose release was lost, or that a late `game_start` made the bot
  forget, comes free again if the bot goes on pressing it.
- `NeverWaits`: every wait for the effect of a key ends.
- `OverLast`: no tick and no second `game_over` follows a `game_over`, whoever stops
  the match in the gap between the loop's unlock and its own `Stop`.

| Run | Instance | Result |
|---|---|---|
| `play` | 1 direction, 1 shot, ack after 2 and 1 ticks, queues of 2 and 1, guard of 1 event per tick, 1 loss, fair | all hold |

Bounds. A direction key and a firing key are the two kinds the code tells apart; a
shot and none are the two stocks that matter to the interrupt. A queue of one
loses a tick or a `game_over` as soon as the bot is one message behind; two events
are a release and the next press. The guard rejects the second event of a tick.
`MaxLosses` bounds events that are dropped or rejected and `game_start`s that come
late: one shows a key that is stuck and comes free. `Alive` cuts what follows the
bot's exit, where every property holds by `Ended` or because the bot is gone.

Seen, and no property. `UnknownType` is taken: a bot that is told of its opponent's lost
connection, of a spectator who has left or of the rematch it asked for itself ends with
"unknown message type" (`bot-sdk-go/client.go:340`), although `CHANGELOG.md:580` speaks
of "typed callbacks for all message types".

Fairness. The ticker drives the loop at 60 Hz, and the bot's and the connection's
read loops take the next message whenever there is one: weak fairness of each. No
weak fairness of what the bot chooses, of the opponent or of a tick's result.

Proofs (`PlayProofs`), for any keys, queues, limits and losses. `PlayTyped` and
`LoopClosed` are inductive. `KeysTogether` proves `NoKeyStuck` from what is under way:
a key-down in the queue has its key-up behind it or is of a key the bot holds
(`PressesEnd`), the same for the keys the server has (`KeysEnd`), and a `game_start`
that is not late has a `rematch` before it, at which the bot's loop ends
(`StartsBehind`); without the last the bot could forget a key. `OverIsLast` proves
`OverLast` from `NotOver` (while the loop has anything left to announce, or may step
again, the bot has not heard of the end) and `Ending` (before the end is announced
the match has left the state `Running`). The liveness properties stay with TLC.

### 2.5 `Board`, `Engine` (with `MCEngine`, `BoardProofs`, `EngineProofs`)

The rules of a tick. `Board` has the state of a game and the operators that move,
lay, hit and put back; `Engine` adds shots, explosions, the penalty for an empty gun
and the mines' clocks, and plays games with them. Each operator takes a game and
returns the game after the call, in the order in which the code makes the calls:
much of what can go wrong here is order, because every rule reads the cells that
the rule before it wrote.

| Operators | Code |
|---|---|
| `DrawBarrel`, `EraseBarrel`, `OccupyBoard`, `ClearFromBoard`, `AttemptMove`, `TakeDamage` | `Tank` |
| `ProcessMovement`, `PlaceMine`, `FireShot`, `ApplyInput` | `GameController`, on a player's key |
| `TankHit`, `BarrelHit`, `OnPlayerDefeated`, `RespawnBothTanks`, `FindSpawnPos` | hits and respawns |
| `Step`, `MoveShots`, `MeetShots`, `HitShots`, `EmptyGun` | `UpdateShots` |
| `ScanCell`, `Scan`, `ExplodeMine`, `ResolveTankMineCollision`, `UpdateMine` | mines |
| `Tick` | an iteration of `stepTick` while the match runs |

A game stops at a winner, as `stepTick` stops the match. The headless `RunMatch` of
`match_runner.go`, which only tests call, makes the same calls and plays on after a
winner up to its last tick; what is said here of games with a winner, `LastShotFlies`
and `Decided` among it, is said of served matches.

Abstractions. A moment the code keeps is here the number of updates left until the
delay after it has passed. The two kinds of wreckage are one; the lists of
explosions and of wreckage, which are only drawn, are left out, as is `CellShot`,
which nothing writes; an exploded mine leaves the sequence instead of staying in it
inactive. The order in which the pending penalties are visited is a choice, as the
code ranges over a map. An explosion, which in the code calls itself for every mine it
meets, is a scan of a list of cells, a cell a step: a mine that goes off puts its own
cells before the rest (`ScanCell`). A branch of `ProcessMovement` for a swing that is already
done gives what the branch before it gives.

Properties.

- `NoPhantom`: a cell that shows a tank or a barrel is where that tank or barrel is.
- `NoPhantomMine`: a cell that shows a mine has a visible one; an armed mine is hidden.
- `Decided`: there is a winner exactly when a tank has no life left.
- `LastShotFlies`: who has no shot left has the last one in the air, and no penalty
  waits for a shot that is gone.
- `TanksApart`: two tanks come into one cell only where the board does not show the one
  that is there, under its own mine or after an explosion cleared the cell, or where a
  tank is put back in a start column that is full (the test at `player_test.go:162`
  expects tanks to block each other; the code does so by the cell's content).
- `NoPassThrough`: two shots that face each other never change sides.
- `HitRespawns`: a tank that lost a life ends the tick at its end of the board with
  everything it had at the start, unless it is player 2's, hit by what player 1's key set
  off, whose own key comes after that.

Run `engine`: a board of 10 by 5, bare or with a wall across, two lives, two shots
and a mine, delays of two updates, five keys in a game; all hold. The board is long
enough for shots to meet in the air in either parity and short enough to hit; five
keys reach a mine that is laid, left, armed and set off, a last shot that hits, both
tanks defeated in one update, and a tank that is put back into an explosion.
`MaxKeys` is the only bound on a game; there is no liveness property, as nobody has to
press a key.

Seen, and no property. One collision of shots can defeat both tanks: then both have a win
and two battles are counted (the test at `integration_test.go:337` defeats one). A
penalty for an empty gun that is pending survives the respawn that has just filled the
gun.

Proofs (`BoardProofs`), on a board of any size with any walls. A game's type, `Drawn`
(what `NoPhantom` says) and `Settled` (what `Decided` says) are kept by movement keys
(`MoveKeepsBoard`), by laying a mine (`MineKeepsBoard`) and by hits with all that
follows from them (`TankHitKeepsBoard`, `BarrelHitKeepsBoard`), and hold in a new game
(`NewRoundIsGame`). The argument: `ClearFromBoard` leaves the tank in no cell (`Gone`),
only then its place may change (`Relocate`), and `OccupyBoard` draws it where it is
(`OccupyDrawn`); a row for the respawn is well chosen because a nonempty set of
numbers has a least one (`LeastNat`).

Proofs (`EngineProofs`), for any board, walls, delays, keys and lives: `TypeOK`
(`GameTyped`), `NoPhantom` (`NoPhantoms`), `NoPhantomMine` (`NoPhantomMines`), `Decided`
(`WinnerDecided`), `LastShotFlies` (`LastShotInFlight`), `NoPassThrough`
(`ShotsKeepSides`), `HitRespawns` (`HitsRespawn`) and `TanksApart` (`TanksKeepApart`).
They follow the calls of a tick in their order, with four kinds of fact:

- `Sound`, what every call keeps, in the middle of an update too: the game's type,
  `Drawn`, `Settled` and `MinesShown`;
- `Spared`, what a call does to the tanks: each is as it was or `Restored` by a hit.
  It composes, so that a whole update spares the tanks, and `HitRespawns` needs only to
  add what a key may do (`KeyDone`);
- `Ready`, what holds between the parts of a tick: `Sound`, one shot per player, every
  shot in the air, and the two halves of `LastShotFlies`. The second half is not
  preserved alone: paying for the last shot (`EmptyGun`) leaves a tank that is dead
  without refilling it, and it has ammunition only because a dead tank was restored in
  this tick and one key spends one shot at most (`DeadLoaded`, where `FullAmmo` has to
  be 2 or more; the code gives 6 to 12);
- `Aloft`, what is left of `Ready` while shots end, and `Flown`, what one step does to a
  shot. Shots that face each other and neither meet nor cross keep their order
  (`NoCross`), whichever comes first in the list (`CrossedEitherWay`).

The inductive invariant `EngineInv` is `Ready` with `ArmedHidden` and the two counters;
all of its parts are properties of the run. The scan of an explosion is a recursion
whose length depends on the mines it meets: `ScanEnds` shows that each step uses up one
of the steps `ScanSteps` counts, 25 for every mine that can still go off, so that no
cell is left when the scan stops. That the recursive functions of the model exist at
all is proved from the natural numbers (`Repeated`), as the library's theorems about
recursion take operators as parameters.

`TanksApart` (`TanksKeepApart`) is the one that needs the order of a tick. The property
names causes in the state before the tick, or marks that the tick leaves (a mine spent,
a life lost), while a tank may drop out of sight in the middle of it: an explosion clears
the cell of a tank that has just been put back there, and a later hit in the same update
could put the other into that cell. What rules that out is where a call may leave the
tanks, and `Moved` says it for a whole update: both are at home, at different ends
(`Home`); or both are where they were (`Unmoved`); or one is back after a hit on its
barrel, and was placed in a column where every tank that showed before the update still
did (`OneBack`, `BackBeside`). Two barrel hits in one update are by two owners on two
tanks, so both are home then; and two shots that met, the one explosion before the hits
are resolved, hit nothing any more (`Spent`). Before the update, two keys keep tanks
apart, or one of them lays the mine the property asks for (`TwoKeysVeil`): after player
1's key has set off a mine and sent both home, player 2 has a key left, and one step must
not bridge the board. This is where `Width` has to be 7 or more, for a column between
the two start columns; the code's board is 40 wide.

### 2.6 `Lobby` (with `MCLobby`, `LobbyProofs`)

The page of a player who has created a room over HTTP, from its POST to the game, and
the two ways in which the server tells it what happens to the room: an event stream
that samples the room twice a second and sends what has changed since, and, once the
stream has ended, a status that the page polls. The server sees changes only as
differences of samples, and the page acts on what it was told some time ago.

| Actions and operators | Code |
|---|---|
| `PostRoom`, `OpponentJoins`, `OpponentLeaves`, `MatchStarts`, `JanitorReads`, `JanitorDeletes`, `TokenExpires` | what happens to the room, as far as the page can see it; `Session` and `BotSeats` have the critical sections |
| `OpenStream` (`InitialEvents`), `StreamTick` (`Changes`, `Seen`), `StreamExpires`, `StreamStops` | `handleRoomEvents` |
| `Status`, `ServeStatus` | `handleRoomStatus` |
| `GetsRoom`, `Hears` (`OnEvent`), `Leaves`, `StreamEnds`, `Cancel`, `Poll`, `HearsAnswer` (`OnAnswer`), `LosesAnswer` | `web/app.js` |

Abstractions. An event's data (names, codes) is only shown. A status is answered in one
step: its several looks at the room can differ only for a caller without a token. The
opponent over HTTP and the bot of the auto-fill timer join alike. The page creates one
room; the creator's websocket, which its game page opens, is not there while it waits,
so no match can start then and the page never hears `game_starting` nor reads the
status `playing`: the code's branches for them are in `OnEvent` and `OnAnswer`, and the
server does send the event, to a page that has left.

Properties.

- `OpponentSeen`: a page with its stream goes to the game when an opponent has come, be it
  before the stream opened (the bug fixed in 0.9.2) or between two samples.
- `EndSeen`: no page goes on waiting in a room that is closed or gone, whichever way it
  would be told and whatever breaks meanwhile.
- `PollSeesOpponent`: a page that polls goes to the game as well.

| Run | Instance | Result |
|---|---|---|
| `lobby` | 1 page, 2 status requests under way, fair | `OpponentSeen`, `EndSeen`, `TypeOK` hold |
| `lobby_poll` | the same | violated: the stream ends, an opponent has joined; the status says "waiting" until the match starts, and the match waits for this page |

Two requests under way let an answer overtake another; the rest is finite as it is. A
stream ends after five minutes at the latest, so whoever waits longer for a friend is in
the situation of `lobby_poll`.

Fairness. The server's goroutines and tickers, the browser's timers and event loop go on
and the janitor comes round (it need not find a waiting room too old): weak fairness.
Answers may be lost, but not all answers to endless requests: strong fairness of
`HearsAnswer`. Nobody has to join, leave or cancel, and no stream has to end.

Proof (`LobbyProofs`), for any number of status requests: `EventsOnce`, the types and
with them that no event is on its way to the page twice. The stream compares the room
with what it saw last, not with what it sent; `LobbyInv` connects the two: a join that
is pending has been seen, unless the room has closed since, and what has been seen is
still so, as a room empties by closing only and a closed room is never filled. The
properties that the page goes on are liveness and stay with TLC.

Seen, and no property. CANCEL does not take back the half second that `player_joined`
started: the page then goes to a game without a room (screen `nowhere`).

## 3. Plan

Done: `Session`, `BotSeats`, `TickStream` implementing `Mirror`, `Play`, `Board`,
`Engine` and `Lobby`, each with its runs, and proofs of every invariant and action
property the runs check. What is left, in order:

1. the list of matches behind the global event stream, the SDK's reconnection,
   `Hub.Shutdown` as the session sees it;
2. `Engine` on a larger board with two mines per tank.

## 4. Not modelled

Rendering, audio, assets, the tools, HTTP filters, JSON encoding: pure input and output
or sequential string handling. The lists of rooms, and the list of matches with its
global event stream: views that change no room, refetched whole at every event; what
`GetPlayingRooms` leaves out (a match that waits for a reconnect) and who sends no event
(a match closed by the reconnect timer) can be read off the code. Of the bot, the choice
of a key and the backoff of its reconnection, which its `main` does not use.
`PROJECT.json` lists every part with its reason.
