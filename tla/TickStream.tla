----------------------------- MODULE TickStream -----------------------------
(***************************************************************************)
(* How the board of a running match gets to the clients: full boards now   *)
(* and then, the cells that changed in between, send queues that drop when *)
(* they are full, and game_start snapshots that a handler takes under the  *)
(* match's lock and queues later.                                          *)
(*                                                                         *)
(* The board is a function of cells; a message carries the cells it sets:  *)
(* all of them, or for a delta those that changed.                         *)
(*                                                                         *)
(* boards, the tick of a game_start, at, gap, dropped and lostKeys are     *)
(* history: the code has the current board only, and a client does not     *)
(* look at the tick numbers it is sent.                                    *)
(***************************************************************************)
EXTENDS Naturals, Sequences

CONSTANTS
  Cells, Values,
  NoGrid, NoMsg,
  FirstGrid,         \* the board of a new match
  Players,           \* the receivers in the match's bridge, in its order
  Spectators,
  Starters,          \* handlers inside startMatchForRoom for this match
  KeyframeInterval,
  QueueCap,          \* capacity of ClientConn.sendCh, and what the network buffers
  MaxTick            \* bound on the ticks of the match

Seated    == {Players[i] : i \in 1..Len(Players)}
Receivers == Seated \cup Spectators
Handlers  == Starters \cup Spectators
Grids     == [Cells -> Values]

ASSUME TickStreamAssumption ==
  /\ FirstGrid \in Grids /\ NoGrid \notin Grids
  /\ Players \in Seq(Seated)
  /\ KeyframeInterval \in Nat \ {0} /\ QueueCap \in Nat \ {0} /\ MaxTick \in Nat

Patches == UNION {[D -> Values] : D \in SUBSET Cells}
Msg == [kind : {"start", "tick", "delta"}, tick : 0..MaxTick, cells : Patches]

ASSUME NoMsgAssumption == NoMsg \notin Msg

\* Nobody handles a start and a spectate at once.
ASSUME HandlersAssumption == Starters \cap Spectators = {}

VARIABLES
  running,    \* the match's loop runs
  tick,       \* MatchController.tick
  boards,     \* per tick, gc.Board at its end
  prev,       \* DeltaTracker.prevGrid
  msg,        \* what broadcastTick is sending
  todo,       \* per handler, whom it has still to send a game_start
  held,       \* per handler, the game_start it has built and not yet sent
  subscribed, \* Room.spectatorConns
  queue,      \* per receiver, its sendCh and what is on the way
  shown,      \* per client, GameState.Grid
  desync,     \* per client, GameState.DesyncCount
  at,         \* per client, the tick of the last message applied
  gap,        \* per client, the delta of a tick was missed since the last full board
  dropped,    \* per receiver, a message was dropped
  lostKeys    \* per receiver, how many keyframes were dropped

loopVars    == <<running, tick, boards, prev, msg>>
handlerVars == <<todo, held, subscribed>>
sendVars    == <<queue, dropped, lostKeys>>
clientVars  == <<shown, desync, at, gap>>
vars == <<loopVars, handlerVars, sendVars, clientVars>>

TypeOK ==
  /\ running \in BOOLEAN
  /\ tick \in 0..MaxTick
  /\ boards \in [0..MaxTick -> Grids]
  /\ prev \in Grids \cup {NoGrid}
  /\ msg \in Msg \cup {NoMsg}
  /\ todo \in [Handlers -> Seq(Receivers)]
  /\ held \in [Handlers -> Msg \cup {NoMsg}]
  /\ subscribed \in SUBSET Spectators
  /\ queue \in [Receivers -> Seq(Msg)]
  /\ \A r \in Receivers : Len(queue[r]) <= QueueCap
  /\ shown \in [Receivers -> Grids \cup {NoGrid}]
  /\ desync \in [Receivers -> Nat]
  /\ at \in [Receivers -> 0..MaxTick]
  /\ gap \in [Receivers -> BOOLEAN]
  /\ dropped \in [Receivers -> BOOLEAN]
  /\ lostKeys \in [Receivers -> Nat]

Init ==
  /\ running = FALSE /\ tick = 0
  /\ boards = [t \in 0..MaxTick |-> FirstGrid]
  /\ prev = NoGrid /\ msg = NoMsg
  /\ todo = [h \in Handlers |-> IF h \in Starters THEN Players ELSE <<>>]
  /\ held = [h \in Handlers |-> NoMsg]
  /\ subscribed = {}
  /\ queue = [r \in Receivers |-> <<>>]
  /\ dropped = [r \in Receivers |-> FALSE]
  /\ lostKeys = [r \in Receivers |-> 0]
  /\ shown = [r \in Receivers |-> NoGrid]
  /\ desync = [r \in Receivers |-> 0]
  /\ at = [r \in Receivers |-> 0]
  /\ gap = [r \in Receivers |-> FALSE]

-----------------------------------------------------------------------------
(* The delta tracker and the send queues.                                   *)

Patch(g, p) == [c \in Cells |-> IF c \in DOMAIN p THEN p[c] ELSE g[c]]

\* Mutant: cells that were cleared are not reported.
ComputeDeltaSet(g) ==
  [c \in {x \in Cells : g[x] # prev[x] /\ g[x] # FirstGrid[x]} |-> g[c]]

ComputeDelta(g) == [c \in {x \in Cells : g[x] # prev[x]} |-> g[c]]

\* Mutant: only the first tick is a keyframe.
ShouldSendKeyframeFirst(t) == prev = NoGrid

\* The rule on the size of a delta never applies: it is asked for size 0.
ShouldSendKeyframe(t) == prev = NoGrid \/ t % KeyframeInterval = 0

\* Mutant: a delta leaves the last keyframe to compare with.
UpdateStateKeyframe(t, g) == prev' = IF ShouldSendKeyframe(t) THEN g ELSE prev

UpdateState(t, g) == prev' = g

\* Mutant: the message goes into the queue whether there is room or not.
SendAlways(R, m) ==
  /\ queue' = [r \in Receivers |-> IF r \in R THEN Append(queue[r], m) ELSE queue[r]]
  /\ UNCHANGED <<dropped, lostKeys>>

\* Every receiver in R is sent m; a queue that is full drops it.
Send(R, m) ==
  LET fits(r) == Len(queue[r]) < QueueCap
      lost    == {r \in R : ~fits(r)}
  IN  /\ queue' = [r \in Receivers |->
                     IF r \in R /\ fits(r) THEN Append(queue[r], m) ELSE queue[r]]
      /\ dropped' = [r \in Receivers |-> dropped[r] \/ r \in lost]
      /\ lostKeys' = [r \in Receivers |->
                        lostKeys[r] + IF r \in lost /\ m.kind = "tick" THEN 1 ELSE 0]

-----------------------------------------------------------------------------
(* The match's loop.                                                        *)

\* stepTick and the locked part of broadcastTick: one update of the board, the
\* message about it, and what the next one is compared with.
Tick(g) ==
  /\ running /\ msg = NoMsg /\ tick < MaxTick
  /\ tick' = tick + 1
  /\ boards' = [boards EXCEPT ![tick + 1] = g]
  /\ msg' = IF ShouldSendKeyframe(tick + 1)
            THEN [kind |-> "tick", tick |-> tick + 1, cells |-> g]
            ELSE [kind |-> "delta", tick |-> tick + 1, cells |-> ComputeDelta(g)]
  /\ UpdateState(tick + 1, g)
  /\ UNCHANGED <<running, handlerVars, sendVars, clientVars>>

\* The bridge sends it to its two clients, BroadcastToSpectators to whoever is
\* subscribed by then.  One receiver cannot tell that one step fills all queues.
Broadcast ==
  /\ msg # NoMsg
  /\ Send(Seated \cup subscribed, msg)
  /\ msg' = NoMsg
  /\ UNCHANGED <<running, tick, boards, prev, handlerVars, clientVars>>

-----------------------------------------------------------------------------
(* Handlers that send a game_start: two that start the match at once, and   *)
(* spectators.                                                              *)

Spectate(s) ==
  /\ s \notin subscribed
  /\ subscribed' = subscribed \cup {s}
  /\ todo' = [todo EXCEPT ![s] = <<s>>]
  /\ UNCHANGED <<loopVars, held, sendVars, clientVars>>

\* Mutant: the snapshot is of the board the last broadcast compared with.
GameStartStatePrev(h) ==
  /\ todo[h] # <<>> /\ held[h] = NoMsg
  /\ held' = [held EXCEPT ![h] = [kind |-> "start", tick |-> tick,
                                  cells |-> boards[IF tick = 0 THEN 0 ELSE tick - 1]]]
  /\ UNCHANGED <<loopVars, todo, subscribed, sendVars, clientVars>>

GameStartState(h) ==
  /\ todo[h] # <<>> /\ held[h] = NoMsg
  /\ held' = [held EXCEPT ![h] = [kind |-> "start", tick |-> tick, cells |-> boards[tick]]]
  /\ UNCHANGED <<loopVars, todo, subscribed, sendVars, clientVars>>

SendGameStart(h) ==
  /\ held[h] # NoMsg
  /\ Send({Head(todo[h])}, held[h])
  /\ held' = [held EXCEPT ![h] = NoMsg]
  /\ todo' = [todo EXCEPT ![h] = Tail(@)]
  /\ UNCHANGED <<loopVars, subscribed, clientVars>>

\* Mutant: the loop is started before the players are told.
StartFirst(h) ==
  /\ ~running
  /\ running' = TRUE
  /\ UNCHANGED <<tick, boards, prev, msg, handlerVars, sendVars, clientVars>>

\* MatchController.Start has an effect the first time only.
Start(h) ==
  /\ todo[h] = <<>> /\ ~running
  /\ running' = TRUE
  /\ UNCHANGED <<tick, boards, prev, msg, handlerVars, sendVars, clientVars>>

-----------------------------------------------------------------------------
(* The client.                                                              *)

\* ApplyGameStart and ApplyTick take the board over; ApplyTickDelta sets the
\* cells it is told, if there is a board.
Apply(r, m) ==
  LET full   == m.kind # "delta"
      nogrid == shown[r] = NoGrid
  IN  /\ shown' = [shown EXCEPT ![r] = IF full THEN m.cells
                                       ELSE IF nogrid THEN NoGrid ELSE Patch(@, m.cells)]
      /\ desync' = [desync EXCEPT ![r] = IF full THEN 0 ELSE @ + 1]
      /\ at' = [at EXCEPT ![r] = m.tick]
      /\ gap' = [gap EXCEPT ![r] = ~full /\ ~nogrid /\ (@ \/ m.tick \notin {at[r], at[r] + 1})]

Deliver(r) ==
  /\ queue[r] # <<>>
  /\ Apply(r, Head(queue[r]))
  /\ queue' = [queue EXCEPT ![r] = Tail(@)]
  /\ UNCHANGED <<loopVars, handlerVars, dropped, lostKeys>>

-----------------------------------------------------------------------------

LoopStep == (\E g \in Grids : Tick(g)) \/ Broadcast

HandlerStep ==
  \/ \E s \in Spectators : Spectate(s)
  \/ \E h \in Handlers : GameStartState(h) \/ SendGameStart(h)
  \/ \E h \in Starters : Start(h)

Next == LoopStep \/ HandlerStep \/ \E r \in Receivers : Deliver(r)

Spec == Init /\ [][Next]_vars

-----------------------------------------------------------------------------
(* Properties.                                                              *)

InStep == [r \in Receivers |-> shown[r] # NoGrid /\ ~gap[r]]

\* A client that has missed no tick since it last got a full board, whichever
\* message that came with, shows the board the server had at that tick.
InStepShows == \A r \in Receivers : InStep[r] => shown[r] = boards[at[r]]

\* The client counts deltas since the last full board, and warns of a desync
\* beyond two intervals: without lost keyframes it never gets to one.
DesyncBound ==
  \A r \in Receivers : desync[r] < KeyframeInterval * (1 + lostKeys[r])

\* A player has a board, or will get a game_start next, before any tick comes:
\* no delta goes to a player with no board to apply it to.
BoardFirst ==
  \A p \in Seated : running => \/ shown[p] # NoGrid
                               \/ queue[p] # <<>> /\ Head(queue[p]).kind = "start"

\* A client for which no message was dropped shows the board of the last tick it
\* was sent: a game_start that was queued late is followed by a full board.
FreshStart ==
  \A r \in Receivers : ~dropped[r] /\ shown[r] # NoGrid => shown[r] = boards[at[r]]

M == INSTANCE Mirror WITH inStep <- InStep

\* The stream implements Mirror.
MirrorSpec == M!Spec
=============================================================================
