-------------------------------- MODULE Play -------------------------------
(***************************************************************************)
(* A bot in a running match: the loop of the match (server/match.go), the  *)
(* queue of what it tells the bot, the bot that decides on a key at every  *)
(* tick it hears of and waits to see its effect (cmd/bot-go, bot-sdk-go),  *)
(* the queue of its key events, and the guard and the tracker that take    *)
(* them in (server/input_guard.go, input.go).                              *)
(*                                                                         *)
(* Each side has a goroutine of its own and a queue that drops what does   *)
(* not fit, so that the keys the bot holds and the keys the server thinks  *)
(* it holds are two states that only messages keep together.  Moments are  *)
(* kept as the number of ticks that have passed, or are left.              *)
(***************************************************************************)
EXTENDS Integers, Sequences, FiniteSets

CONSTANTS
  Moves,       \* the direction keys
  Stores,      \* the keys that use something up: "fire" and "mine"
  None,        \* no key, nothing to compare with
  Full,        \* shots (mines) of a tank that has just been put back
  MoveAck,     \* ticks the bot waits for the effect of a direction key
  StoreAck,    \* ... and of the other keys
  SendCap,     \* events the bot's send queue and connection hold
  QueueCap,    \* messages the server's send queue and connection hold
  MaxInputs,   \* events the guard lets through in a window
  Window,      \* ticks of a window of the guard
  MaxLosses    \* bound: events dropped, and game_starts that come late

Keys == Moves \cup Stores

ASSUME PlayAssumption ==
  /\ Moves # {} /\ "fire" \in Stores /\ Moves \cap Stores = {} /\ None \notin Keys
  /\ Full \in Nat /\ MaxLosses \in Nat /\ MaxInputs \in Nat
  /\ MoveAck \in Nat \ {0} /\ StoreAck \in 1 .. MoveAck
  /\ SendCap \in Nat \ {0} /\ QueueCap \in Nat \ {0} /\ Window \in Nat \ {0}

VARIABLES
  mstate,    \* MatchController.state
  phase,     \* what stepTick does next: "wait" for the ticker, or announce
  tank,      \* what the acknowledgements are read from in the engine's tank
  down,      \* InputTracker.held
  queue,     \* InputTracker.pending
  count,     \* InputGuard.count
  window,    \* ticks left of the guard's window
  asked,     \* Player.WantsRematch of the bot
  away,      \* the opponent's connection is lost (RoomWaitingReconnect)
  back,      \* messages on their way to the bot
  skipped,   \* ticks since the last one the bot will hear of
  out,       \* events on their way to the server
  bot,       \* the bot's process
  pend,      \* BotState.pending: the key whose effect the bot waits for
  before,    \* BotState.pending: its reading of the tank when it pressed the key
  age,       \* ticks since then
  holds,     \* BotState.heldMove, heldFire, heldMine
  losses     \* bound: what was dropped, or came late

matchVars == <<mstate, phase, tank>>
inputVars == <<down, queue, count, window>>
roomVars == <<asked, away>>
botVars == <<bot, pend, before, age, holds>>
vars == <<matchVars, inputVars, roomVars, back, skipped, out, botVars, losses>>

Tank == [pose : {0, 1}, stock : [Stores -> 0 .. Full]]
Event == [act : {"down", "up"}, key : Keys] \cup [act : {"again"}, key : {None}]
Told == {"start", "over", "ack", "error", "left"}
Untold == {"rematch", "player_disconnected", "spectator_left"}
Message == [kind : {"tick"}, dt : 1 .. MoveAck, tank : Tank] \cup [kind : Told \cup Untold]

Least(i, j) == IF i < j THEN i ELSE j

(* A tank at its start.                                                    *)
PutBack == [pose |-> 0, stock |-> [k \in Stores |-> Full]]

Init ==
  /\ mstate = "Running" /\ phase = "wait"
  /\ tank = PutBack
  /\ down = {} /\ queue = <<>> /\ count = 0 /\ window = 0
  /\ asked = FALSE /\ away = FALSE
  /\ back = <<>> /\ skipped = 0 /\ out = <<>>
  /\ bot = "playing" /\ pend = None /\ before = None /\ age = 0
  /\ holds = {}
  /\ losses = 0

----------------------------------------------------------------------------
(* The server tells the bot: ClientConn.send drops what does not fit.      *)

Send(msgs) == back' = SubSeq(back \o msgs, 1, Least(QueueCap, Len(back) + Len(msgs)))

(* The match loop.  stepTick holds the lock while it applies one action    *)
(* and updates the engine; it announces after it has let go of it.  What   *)
(* the engine makes of a key depends on delays and walls: it turns the     *)
(* tank or moves it (its pose is where it is and points), or does nothing; *)
(* and the tank may be hit and put back at its start in any tick.          *)
Moved(t) == [t EXCEPT !.pose = 1 - @]
Spent(t, k) == [t EXCEPT !.stock[k] = IF @ > 0 THEN @ - 1 ELSE @]
Updated(t, k) ==
  {t, PutBack}
    \cup (IF k \in Moves THEN {Moved(t)} ELSE {})
    \cup (IF k \in Stores THEN {Spent(t, k)} ELSE {})

(* The first key pressed since the last tick counts, the others are gone.  *)
ConsumeAction == IF queue = <<>> THEN None ELSE Head(queue)

StepTick ==
  /\ phase = "wait" /\ mstate = "Running"
  /\ queue' = <<>>
  /\ tank' \in Updated(tank, ConsumeAction)
  /\ \E over \in BOOLEAN :
       /\ phase' = IF over THEN "last" ELSE "tick"
       /\ mstate' = IF over THEN "GameOver" ELSE "Running"
  /\ window' = IF window = 0 THEN 0 ELSE window - 1
  /\ count' = IF window' = 0 THEN 0 ELSE count
  /\ UNCHANGED <<down, roomVars, back, skipped, out, botVars, losses>>

BroadcastTick ==
  /\ phase \in {"tick", "last"}
  /\ phase' = IF phase = "last" THEN "over" ELSE "wait"
  /\ Send(<<[kind |-> "tick", dt |-> skipped + 1, tank |-> tank]>>)
  /\ skipped' = IF Len(back) < QueueCap THEN 0 ELSE Least(skipped + 1, MoveAck - 1)
  /\ UNCHANGED <<mstate, tank, inputVars, roomVars, out, botVars, losses>>

EmitGameOver ==
  /\ phase = "over" /\ phase' = "wait"
  /\ Send(<<[kind |-> "over"]>>)
  /\ UNCHANGED <<mstate, tank, inputVars, roomVars, skipped, out, botVars, losses>>

(* At maxMatchTicks stepTick lets go of the lock and then stops the match. *)
MatchTimeout ==
  /\ phase = "wait" /\ mstate = "Running"
  /\ phase' = "timeout"
  /\ UNCHANGED <<mstate, tank, inputVars, roomVars, back, skipped, out, botVars, losses>>

\* Mutant: the loop is not stopped.
StopsItselfNot ==
  /\ phase = "timeout" /\ phase' = "over"
  /\ UNCHANGED <<mstate, tank, inputVars, roomVars, back, skipped, out, botVars, losses>>

StopsItself ==
  /\ phase = "timeout" /\ phase' = "over"
  /\ mstate' = "Stopped"
  /\ UNCHANGED <<tank, inputVars, roomVars, back, skipped, out, botVars, losses>>

(* The hub shuts down: it tells both players and stops the match, wherever *)
(* stepTick is.                                                            *)
Shutdown ==
  /\ mstate \in {"Running", "GameOver"} /\ mstate' = "Stopped"
  /\ Send(<<[kind |-> "left"]>>)
  /\ UNCHANGED <<phase, tank, inputVars, roomVars, skipped, out, botVars, losses>>

(* The opponent's connection is lost: two messages, and the match goes on. *)
OpponentDisconnects ==
  /\ ~away /\ away' = TRUE
  /\ Send(<<[kind |-> "player_disconnected"], [kind |-> "left"]>>)
  /\ UNCHANGED <<matchVars, inputVars, asked, skipped, out, botVars, losses>>

(* A spectator goes away: both players are told.                           *)
SpectatorLeaves ==
  /\ mstate = "Running"
  /\ Send(<<[kind |-> "spectator_left"]>>)
  /\ UNCHANGED <<matchVars, inputVars, roomVars, skipped, out, botVars, losses>>

(* The opponent asks to play again too, and another match takes the place  *)
(* of this one: the model ends there, but for the bot.                     *)
Rematch ==
  /\ asked /\ ~away
  /\ asked' = FALSE /\ mstate' = "Replaced"
  /\ Send(<<[kind |-> "rematch"], [kind |-> "start"]>>)
  /\ UNCHANGED <<phase, tank, inputVars, away, skipped, out, botVars, losses>>

(* Two handlers may start a match, and each sends a game_start; the second *)
(* may come when the bot has been playing for a while.                     *)
LateGameStart ==
  /\ mstate = "Running"
  /\ losses < MaxLosses /\ losses' = losses + 1
  /\ Send(<<[kind |-> "start"]>>)
  /\ UNCHANGED <<matchVars, inputVars, roomVars, skipped, out, botVars>>

----------------------------------------------------------------------------
(* The bot: its read loop hands every message to a callback.               *)

Fits(evs) == Least(SendCap, Len(out) + Len(evs))

\* Mutant: the queue grows.
OfferAlways(evs) == out' = out \o evs /\ losses' = losses

(* An event that finds the send queue full is dropped (sendRaw).           *)
Offer(evs) ==
  /\ out' = SubSeq(out \o evs, 1, Fits(evs))
  /\ losses + Len(out) + Len(evs) - Fits(evs) =< MaxLosses
  /\ losses' = losses + Len(out) + Len(evs) - Fits(evs)

OneEvent(act, key) == <<[act |-> act, key |-> key]>>
(* releaseAllHeld: at most one key is held (ClosedLoop).                   *)
Ups(keys) == IF keys = {} THEN <<>> ELSE OneEvent("up", CHOOSE k \in keys : TRUE)

Heard == Head(back)
Hears(kind) ==
  /\ bot \in {"playing", "asking"} /\ back # <<>> /\ Heard.kind = kind
  /\ back' = Tail(back)

(* What tells whether a key had its effect.                                *)
Reading(t, k) == IF k \in Moves THEN t.pose ELSE t.stock[k]
Effect ==
  \/ pend \in Moves /\ Reading(Heard.tank, pend) # before
  \/ pend \in Stores /\ Reading(Heard.tank, pend) < before
Aged == Least(age + Heard.dt, MoveAck)
\* Mutant: only the direction keys time out.
TimedOutMoves == pend \in Moves /\ Aged >= MoveAck
TimedOut == Aged >= IF pend \in Moves THEN MoveAck ELSE StoreAck
ClearPending == pend' = None /\ before' = None /\ age' = 0

(* Decide, in the order in which it looks: the effect is seen,             *)
Acknowledged ==
  /\ Hears("tick") /\ pend # None /\ Effect
  /\ ClearPending
  /\ holds' = holds \ {pend} /\ Offer(Ups(holds \cap {pend}))
  /\ UNCHANGED <<matchVars, inputVars, roomVars, skipped, bot>>

\* Mutant: the pending key is forgotten, not released.
GivesUpSilently ==
  /\ Hears("tick") /\ pend # None /\ ~Effect /\ TimedOut
  /\ ClearPending /\ holds' = {}
  /\ UNCHANGED <<matchVars, inputVars, roomVars, skipped, out, losses, bot>>

(* ... or it has not come in time,                                         *)
GivesUp ==
  /\ Hears("tick") /\ pend # None /\ ~Effect /\ TimedOut
  /\ ClearPending
  /\ holds' = {} /\ Offer(Ups(holds))
  /\ UNCHANGED <<matchVars, inputVars, roomVars, skipped, bot>>

\* Mutant: the key stays held.
InterruptsHolding ==
  /\ Hears("tick") /\ pend \in Moves /\ ~Effect /\ ~TimedOut
  /\ Heard.tank.stock["fire"] > 0
  /\ ClearPending
  /\ UNCHANGED <<matchVars, inputVars, roomVars, skipped, out, losses, bot, holds>>

\* Mutant: the server is not told.
InterruptsSilently ==
  /\ Hears("tick") /\ pend \in Moves /\ ~Effect /\ ~TimedOut
  /\ Heard.tank.stock["fire"] > 0
  /\ ClearPending /\ holds' = holds \ Moves
  /\ UNCHANGED <<matchVars, inputVars, roomVars, skipped, out, losses, bot>>

(* ... or a move stands in the way of a shot,                              *)
Interrupts ==
  /\ Hears("tick") /\ pend \in Moves /\ ~Effect /\ ~TimedOut
  /\ Heard.tank.stock["fire"] > 0
  /\ ClearPending
  /\ holds' = holds \ Moves /\ Offer(Ups(holds \cap Moves))
  /\ UNCHANGED <<matchVars, inputVars, roomVars, skipped, bot>>

(* ... or the bot goes on waiting.                                         *)
Waits ==
  /\ Hears("tick") /\ pend # None /\ ~Effect /\ ~TimedOut
  /\ age' = Aged
  /\ UNCHANGED <<matchVars, inputVars, roomVars, skipped, out, losses, bot, pend, before, holds>>

(* It waits for nothing: it presses a key, when it has thought long enough *)
(* (nextActionTick) and made up its mind, or it does nothing.  Which key   *)
(* depends on the board; only a mine is never tried without one.           *)
Starts ==
  /\ Hears("tick") /\ pend = None
  /\ \E k \in Moves \cup {"fire"} \cup {s \in Stores : Heard.tank.stock[s] > 0} :
       /\ pend' = k /\ before' = Reading(Heard.tank, k) /\ age' = 0
       /\ holds' = holds \cup {k} /\ Offer(OneEvent("down", k))
  /\ UNCHANGED <<matchVars, inputVars, roomVars, skipped, bot>>

Idles ==
  /\ Hears("tick") /\ pend = None
  /\ UNCHANGED <<matchVars, inputVars, roomVars, skipped, out, losses, bot, pend, before, age, holds>>

(* A game_start makes a new BotState.                                      *)
OnGameStart ==
  /\ Hears("start")
  /\ ClearPending /\ holds' = {}
  /\ UNCHANGED <<matchVars, inputVars, roomVars, skipped, out, losses, bot>>

OnGameOver ==
  /\ Hears("over")
  /\ bot' = "asking" /\ Offer(OneEvent("again", None))
  /\ UNCHANGED <<matchVars, inputVars, roomVars, skipped, pend, before, age, holds>>

OnPlayAgainAck ==
  /\ Hears("ack")
  /\ UNCHANGED <<matchVars, inputVars, roomVars, skipped, out, botVars, losses>>

(* OnOpponentLeft and OnError end the process.                             *)
Exits ==
  /\ Hears("left") \/ Hears("error")
  /\ bot' = "left"
  /\ UNCHANGED <<matchVars, inputVars, roomVars, skipped, out, losses, pend, before, age, holds>>

(* dispatchMessage has no case for these: Run returns with the error.      *)
UnknownType ==
  /\ \E kind \in Untold : Hears(kind)
  /\ bot' = "failed"
  /\ UNCHANGED <<matchVars, inputVars, roomVars, skipped, out, losses, pend, before, age, holds>>

Decide == Acknowledged \/ GivesUp \/ Interrupts \/ Waits \/ Starts \/ Idles
Receive == Decide \/ OnGameStart \/ OnGameOver \/ OnPlayAgainAck \/ Exits \/ UnknownType

----------------------------------------------------------------------------
(* The server takes the events in.                                         *)

Takes(acts) == out # <<>> /\ Head(out).act \in acts /\ out' = Tail(out)
Key == Head(out).key

(* The guard's windows are those of a clock that the ticks stand for; the  *)
(* code begins a new one, at 0, with the first event after the last.       *)
Counted == Least(count + 1, MaxInputs + 1)
Allow == Counted =< MaxInputs
Count == count' = Counted /\ window' = IF window = 0 THEN Window ELSE window

Rejected ==
  /\ Takes({"down", "up"}) /\ ~Allow /\ Count
  /\ losses < MaxLosses /\ losses' = losses + 1
  /\ UNCHANGED <<matchVars, down, queue, roomVars, back, skipped, botVars>>

(* A key that is down already is not pressed again.                        *)
KeyDown ==
  /\ Takes({"down"}) /\ Allow /\ Count
  /\ down' = down \cup {Key}
  /\ queue' = IF Key \in down THEN queue ELSE Append(queue, Key)
  /\ UNCHANGED <<matchVars, roomVars, back, skipped, botVars, losses>>

KeyUp ==
  /\ Takes({"up"}) /\ Allow /\ Count
  /\ down' = down \ {Key}
  /\ UNCHANGED <<matchVars, queue, roomVars, back, skipped, botVars, losses>>

HandlePlayAgain ==
  /\ Takes({"again"})
  /\ asked' = ~away
  /\ Send(<<[kind |-> IF away THEN "error" ELSE "ack"]>>)
  /\ UNCHANGED <<matchVars, inputVars, away, skipped, botVars, losses>>

HandleInput == Rejected \/ KeyDown \/ KeyUp \/ HandlePlayAgain

----------------------------------------------------------------------------
Loop == StepTick \/ BroadcastTick \/ EmitGameOver \/ MatchTimeout \/ StopsItself
Others == Shutdown \/ OpponentDisconnects \/ SpectatorLeaves \/ Rematch \/ LateGameStart
Next == Loop \/ Others \/ Receive \/ HandleInput
Spec == Init /\ [][Next]_vars

(* The ticker, the bot's read loop and the connection's read loop go on.   *)
Fairness == WF_vars(Loop) /\ WF_vars(Receive) /\ WF_vars(HandleInput)
FairSpec == Spec /\ Fairness

----------------------------------------------------------------------------
(* Both queues keep to their size, and every variable to its type.         *)
TypeOK ==
  /\ mstate \in {"Running", "GameOver", "Stopped", "Replaced"}
  /\ phase \in {"wait", "tick", "last", "over", "timeout"}
  /\ tank \in Tank
  /\ down \in SUBSET Keys /\ queue \in Seq(Keys)
  /\ count \in 0 .. MaxInputs + 1 /\ window \in 0 .. Window
  /\ asked \in BOOLEAN /\ away \in BOOLEAN
  /\ back \in Seq(Message) /\ Len(back) =< QueueCap /\ skipped \in 0 .. MoveAck - 1
  /\ out \in Seq(Event) /\ Len(out) =< SendCap
  /\ bot \in {"playing", "asking", "left", "failed"}
  /\ pend \in Keys \cup {None} /\ before \in Nat \cup {None}
  /\ age \in 0 .. MoveAck /\ holds \in SUBSET Keys
  /\ losses \in 0 .. MaxLosses

(* The loop is closed: the bot holds the key whose effect it waits for and *)
(* no other, whatever was lost on the way (Decide: "never emitting more    *)
(* than one event per tick").  So there is never a second key to release,  *)
(* nor one left to release before the next is pressed.                     *)
ClosedLoop == holds = IF pend = None THEN {} ELSE {pend}

(* As long as nothing was dropped and no game_start came late, no key is   *)
(* stuck: what InputTracker.held has, the bot holds or has released by an  *)
(* event that is on its way.                                               *)
NoKeyStuck ==
  losses = 0 =>
    \A k \in down : k \in holds \/ \E i \in 1 .. Len(out) : out[i] = [act |-> "up", key |-> k]

(* The bot asks to play again when it hears game_over: nothing of the      *)
(* match follows it, and a match that timed out sends no second one, even  *)
(* if somebody else stops it between its unlock and its own Stop.          *)
OfMatch(m) == m.kind \in {"tick", "over"}
OverLast ==
  \A i \in 1 .. Len(back) :
    OfMatch(back[i]) => bot # "asking" /\ \A j \in 1 .. i - 1 : back[j].kind # "over"

Ended == mstate # "Running" \/ bot \notin {"playing", "asking"}

(* The bot does not wait for ever for the effect of a key (checkAck).      *)
NeverWaits == \A k \in Keys : (pend = k) ~> (pend # k \/ Ended)

(* A key whose release was lost comes free again if the bot goes on        *)
(* pressing it: no key is dead for the rest of a match (KeyDown, KeyUp).   *)
KeyHeals == \A k \in Keys : []<>(pend = k) => []<>(k \notin down \/ Ended)
============================================================================
