------------------------------ MODULE Session ------------------------------
(***************************************************************************)
(* The session layer of the TANK! server: how websocket connections and    *)
(* HTTP requests create, join, rejoin, start, rematch and leave ONE room.  *)
(*                                                                         *)
(* Every websocket connection has a reader goroutine that handles one      *)
(* message at a time; connections run concurrently and share the room, the *)
(* connection registry, the hub and the token store, each behind a mutex   *)
(* of its own that is held for one method call only.  So a handler is a    *)
(* sequence of critical sections, and between two of them any other        *)
(* goroutine may run.  An action below is one such critical section, or a  *)
(* run of them that no other goroutine can tell apart; pc[c] is the        *)
(* section connection c executes next.                                     *)
(***************************************************************************)
EXTENDS Naturals, FiniteSets

CONSTANTS
  Conns,     \* websocket connections (a reconnect is a new connection)
  Reqs,      \* HTTP create / join requests
  Matches,   \* match controllers that may be created: bounds the rematches
  Timers,    \* reconnect timers that may be started: bounds the disconnects
  Kinds,     \* the messages the clients of this instance send
  NoConn, NoMatch, NoTimer

ASSUME SessionAssumption ==
  /\ NoConn \notin Conns
  /\ Matches \subseteq Nat \ {0}  /\ NoMatch = 0
  /\ Timers \subseteq Nat \ {0}   /\ NoTimer = 0
  /\ Kinds \subseteq {"create", "join", "ready", "play_again", "rejoin"}

Seats == {1, 2}
NoSeat == 0
Other(s) == 3 - s

VARIABLES
  rstate,    \* Room.State ("none" until the hub creates the room)
  player,    \* Room.Players: per seat, the flags of the Player record
  rtimer,    \* Room.reconnectTimer
  tphase,    \* what each reconnect timer and its goroutine are doing
  inHub,     \* Hub.rooms holds the room
  tokens,    \* seats whose token is in the token store
  regConn,   \* ConnRegistry: per seat, the registered connection
  regMatch,  \* ConnRegistry: the room's match controller
  mstate,    \* MatchController.state
  loop,      \* MatchController.runLoop: is its goroutine alive
  bridge,    \* RoomBridge.clients, fixed when the controller is created
  pc,        \* per connection, the next critical section of its goroutine
  seat,      \* ClientConn.room and playerID (NoSeat: c.room is nil)
  entry,     \* the seat of the token a handleRejoin has validated
  cmatch,    \* ClientConn.mc
  got,       \* the conns that startMatchForRoom read from the registry
  mine,      \* the controller startMatchForRoom is going to start
  api        \* per HTTP request, its next critical section

roomVars  == <<rstate, player, rtimer, tphase>>
regVars   == <<regConn, regMatch>>
matchVars == <<mstate, loop, bridge>>
connVars  == <<seat, entry, cmatch, got, mine>>
vars == <<roomVars, inHub, tokens, regVars, matchVars, pc, connVars, api>>

-----------------------------------------------------------------------------
(* Values.                                                                  *)

RoomStates == {"none", "Waiting", "Ready", "Playing", "GameOver", "Closed",
               "WaitingReconnect"}

Player == [seated : BOOLEAN, connected : BOOLEAN, ready : BOOLEAN,
           rematch : BOOLEAN]

NoPlayer  == [seated |-> FALSE, connected |-> FALSE, ready |-> FALSE,
              rematch |-> FALSE]
NewPlayer == [NoPlayer EXCEPT !.seated = TRUE, !.connected = TRUE]

\* "armed" counts down; "fired" has delivered to its goroutine; "closing" is
\* the goroutine after it closed the room; "blocked" is a goroutine waiting
\* for ever on the channel of a timer that was stopped.
TimerPhases == {"unused", "armed", "fired", "closing", "done", "blocked"}

MatchStates == {"unused", "Idle", "Running", "GameOver", "Stopped"}

NobodyGot == [s \in Seats |-> NoConn]

StartSteps   == {"startClients", "startExisting", "startPublish",
                 "startReload", "startPlaying", "startAttach1",
                 "startAttach2", "startRun"}
JoinSteps    == {"createAdd", "createRegister", "joinAdd", "joinRegister",
                 "joinCheck"}
RejoinSteps  == {"rejoinRemoveToken", "rejoinClosed", "rejoinWaiting",
                 "resumeRegister", "resume", "rejoinRegister", "rejoinMatch",
                 "rejoinClients"}
ReadySteps   == {"readySet", "readyBoth"}
AgainSteps   == {"againSet", "againBoth", "againReset", "againClients",
                 "againRemove"}
CleanupSteps == {"cleanup", "leaveMark", "leaveWait", "leaveTimer",
                 "leaveForce", "leaveStop", "leaveRemove", "awayForce",
                 "awayStop", "awayRemove", "quitRemove", "quitStop",
                 "quitEmptyStop", "unregister", "unregisterEmpty"}
Labels == {"idle", "closed"} \cup StartSteps \cup JoinSteps \cup RejoinSteps
            \cup ReadySteps \cup AgainSteps \cup CleanupSteps

TypeOK ==
  /\ rstate \in RoomStates
  /\ player \in [Seats -> Player]
  /\ rtimer \in Timers \cup {NoTimer}
  /\ tphase \in [Timers -> TimerPhases]
  /\ inHub \in BOOLEAN
  /\ tokens \in SUBSET Seats
  /\ regConn \in [Seats -> Conns \cup {NoConn}]
  /\ regMatch \in Matches \cup {NoMatch}
  /\ mstate \in [Matches -> MatchStates]
  /\ loop \in [Matches -> {"none", "live", "exited"}]
  /\ bridge \in [Matches -> [Seats -> Conns \cup {NoConn}]]
  /\ pc \in [Conns -> Labels]
  /\ seat \in [Conns -> Seats \cup {NoSeat}]
  /\ entry \in [Conns -> Seats \cup {NoSeat}]
  /\ cmatch \in [Conns -> Matches \cup {NoMatch}]
  /\ got \in [Conns -> [Seats -> Conns \cup {NoConn}]]
  /\ mine \in [Conns -> Matches \cup {NoMatch}]
  /\ api \in [Reqs -> {"idle", "add", "done"}]

Init ==
  /\ rstate = "none"
  /\ player = [s \in Seats |-> NoPlayer]
  /\ rtimer = NoTimer
  /\ tphase = [t \in Timers |-> "unused"]
  /\ inHub = FALSE
  /\ tokens = {}
  /\ regConn = NobodyGot
  /\ regMatch = NoMatch
  /\ mstate = [m \in Matches |-> "unused"]
  /\ loop = [m \in Matches |-> "none"]
  /\ bridge = [m \in Matches |-> NobodyGot]
  /\ pc = [c \in Conns |-> "idle"]
  /\ seat = [c \in Conns |-> NoSeat]
  /\ entry = [c \in Conns |-> NoSeat]
  /\ cmatch = [c \in Conns |-> NoMatch]
  /\ got = [c \in Conns |-> NobodyGot]
  /\ mine = [c \in Conns |-> NoMatch]
  /\ api = [r \in Reqs |-> "idle"]

Goto(c, from, to) == pc[c] = from /\ pc' = [pc EXCEPT ![c] = to]

\* A critical section that only reads, and picks the next one.
Look(c, from, to) ==
  /\ Goto(c, from, to)
  /\ UNCHANGED <<roomVars, inHub, tokens, regVars, matchVars, connVars, api>>

-----------------------------------------------------------------------------
(* Room methods, each one critical section on Room.mu.                      *)

\* The seat AddPlayer hands out: the first empty one.
FreeSeat(s) == ~player[s].seated /\ (s = 2 => player[1].seated)
Full == \A s \in Seats : player[s].seated

\* Mutant: a full room gives its second seat away again.
AddPlayerOverwrite(s) ==
  /\ s = 1 => ~player[1].seated
  /\ s = 2 => player[1].seated
  /\ player' = [player EXCEPT ![s] = NewPlayer]
  /\ rstate' = IF s = 2 /\ rstate = "Waiting" THEN "Ready" ELSE rstate

AddPlayer(s) ==
  /\ FreeSeat(s)
  /\ player' = [player EXCEPT ![s] = NewPlayer]
  /\ rstate' = IF s = 2 /\ rstate = "Waiting" THEN "Ready" ELSE rstate

BothConnected == \A s \in Seats : player[s].seated /\ player[s].connected
BothReady     == BothConnected /\ \A s \in Seats : player[s].ready
BothWantRematch == BothConnected /\ \A s \in Seats : player[s].rematch

\* Nobody is connected once seat s has been marked disconnected.
EmptyWithout(s) == ~player[Other(s)].connected

\* Mutant: a match state where the room's state belongs.
RemovePlayerStopped(s) ==
  /\ player' = [player EXCEPT ![s].connected = FALSE]
  /\ rstate' = IF rstate \in {"Waiting", "Ready", "Playing"} THEN "Stopped"
               ELSE rstate

RemovePlayer(s) ==
  /\ player' = [player EXCEPT ![s].connected = FALSE]
  /\ rstate' = IF rstate \in {"Waiting", "Ready", "Playing"} THEN "Closed"
               ELSE rstate

\* StopReconnectTimer: Timer.Stop keeps a pending timer from firing, and the
\* goroutine that waits on its channel is never woken.
StopReconnectTimer ==
  /\ rtimer' = NoTimer
  /\ tphase' = IF rtimer # NoTimer /\ tphase[rtimer] = "armed"
               THEN [tphase EXCEPT ![rtimer] = "blocked"] ELSE tphase

FreshTimer(t) == tphase[t] = "unused"
                 /\ \A u \in Timers : u < t => tphase[u] # "unused"

-----------------------------------------------------------------------------
(* The hub and the HTTP API.                                                *)

\* Hub.CreateRoom puts the empty room into the hub before its creator is in.
CreateRoom ==
  /\ rstate = "none"
  /\ rstate' = "Waiting"
  /\ inHub' = TRUE
  /\ UNCHANGED <<player, rtimer, tphase>>

ApiCreateRoom(r) ==
  /\ "rejoin" \in Kinds
  /\ api[r] = "idle"
  /\ CreateRoom
  /\ api' = [api EXCEPT ![r] = "add"]
  /\ UNCHANGED <<tokens, regVars, matchVars, pc, connVars>>

\* handleJoinRoom of the API looks the room up and checks that it is neither
\* full nor closed, and adds the player in a later critical section.
ApiJoinCheck(r) ==
  /\ "rejoin" \in Kinds
  /\ api[r] = "idle"
  /\ inHub /\ ~Full /\ rstate # "Closed"
  /\ api' = [api EXCEPT ![r] = "add"]
  /\ UNCHANGED <<roomVars, inHub, tokens, regVars, matchVars, pc, connVars>>

\* AddPlayer and, for the seat it returns, GenerateToken: nobody can use the
\* token before the response that carries it.
ApiAddPlayer(r) ==
  /\ api[r] = "add"
  /\ api' = [api EXCEPT ![r] = "done"]
  /\ \/ \E s \in Seats : AddPlayer(s) /\ tokens' = tokens \cup {s}
     \/ Full /\ UNCHANGED <<player, rstate, tokens>>
  /\ UNCHANGED <<rtimer, tphase, inHub, regVars, matchVars, pc, connVars>>

\* The 60 s janitor: a closed room, or a waiting one that is old enough,
\* leaves the hub; the registry and the match are not touched.
CleanupStaleRooms ==
  /\ inHub /\ rstate \in {"Closed", "Waiting", "GameOver"}
  /\ inHub' = FALSE
  /\ UNCHANGED <<roomVars, tokens, regVars, matchVars, pc, connVars, api>>

CleanupStaleTokens ==
  /\ tokens # {}
  /\ \E s \in tokens : tokens' = tokens \ {s}
  /\ UNCHANGED <<roomVars, inHub, regVars, matchVars, pc, connVars, api>>

-----------------------------------------------------------------------------
(* create_room and join_room on a websocket.                                *)

WSCreateRoom(c) ==
  /\ "create" \in Kinds /\ seat[c] = NoSeat
  /\ Goto(c, "idle", "createAdd")
  /\ CreateRoom
  /\ UNCHANGED <<tokens, regVars, matchVars, connVars, api>>

\* Hub.GetRoom; an unknown code leaves the connection idle.
WSJoinRoom(c) ==
  /\ "join" \in Kinds /\ seat[c] = NoSeat /\ inHub
  /\ Look(c, "idle", "joinAdd")

\* AddPlayer, then setRoomAndPlayer, which only this goroutine reads.
WSAddPlayer(c) ==
  /\ \/ /\ \E s \in Seats : AddPlayer(s) /\ seat' = [seat EXCEPT ![c] = s]
        /\ \/ Goto(c, "createAdd", "createRegister")
           \/ Goto(c, "joinAdd", "joinRegister")
     \/ /\ Full
        /\ Goto(c, "createAdd", "idle") \/ Goto(c, "joinAdd", "idle")
        /\ UNCHANGED <<player, rstate, seat>>
  /\ UNCHANGED <<rtimer, tphase, inHub, tokens, regVars, matchVars, entry,
                 cmatch, got, mine, api>>

\* Mutant: the first empty slot instead of the player's own.
SetConnFirstFree(c, s) ==
  regConn' = [regConn EXCEPT ![IF regConn[1] = NoConn THEN 1 ELSE s] = c]

SetConn(c, s) == regConn' = [regConn EXCEPT ![s] = c]

WSRegister(c) ==
  /\ Goto(c, "createRegister", "idle") \/ Goto(c, "joinRegister", "joinCheck")
  /\ SetConn(c, seat[c])
  /\ UNCHANGED <<roomVars, inHub, tokens, regMatch, matchVars, connVars, api>>

\* The auto-start: only the joiner looks whether both players are there.
JoinCheck(c) ==
  Look(c, "joinCheck", IF BothConnected THEN "startClients" ELSE "idle")

-----------------------------------------------------------------------------
(* rejoin: how the browser and the bots enter with the token of their seat, *)
(* and how they are meant to resume after a disconnect.                     *)

\* ValidateToken.  An unknown token closes the connection.  That the connection
\* has no seat yet is an assumption about clients, not a check of the handler:
\* the browser and the SDK send rejoin as the first message of a connection.
Rejoin(c, s) ==
  /\ "rejoin" \in Kinds /\ seat[c] = NoSeat
  /\ IF s \in tokens
     THEN Goto(c, "idle", "rejoinRemoveToken") /\ entry' = [entry EXCEPT ![c] = s]
     ELSE Goto(c, "idle", "cleanup") /\ UNCHANGED entry
  /\ UNCHANGED <<roomVars, inHub, tokens, regVars, matchVars, seat, cmatch,
                 got, mine, api>>

\* RemoveToken and Hub.GetRoom.
RejoinRemoveToken(c) ==
  /\ Goto(c, "rejoinRemoveToken", IF inHub THEN "rejoinClosed" ELSE "cleanup")
  /\ tokens' = tokens \ {entry[c]}
  /\ UNCHANGED <<roomVars, inHub, regVars, matchVars, connVars, api>>

\* GetState is called twice, in two critical sections.
RejoinClosed(c) ==
  Look(c, "rejoinClosed", IF rstate = "Closed" THEN "cleanup" ELSE "rejoinWaiting")

RejoinWaiting(c) ==
  Look(c, "rejoinWaiting", IF rstate = "WaitingReconnect"
                           THEN "resumeRegister" ELSE "rejoinRegister")

\* setRoomAndPlayer and SetConn.
RejoinRegister(c) ==
  /\ \/ Goto(c, "resumeRegister", "resume")
     \/ Goto(c, "rejoinRegister", "rejoinMatch")
  /\ seat' = [seat EXCEPT ![c] = entry[c]]
  /\ SetConn(c, entry[c])
  /\ UNCHANGED <<roomVars, inHub, tokens, regMatch, matchVars, entry, cmatch,
                 got, mine, api>>

\* TryResumeMatch: the room is Playing whatever happened to it meanwhile.
\* Player.Connected stays as MarkDisconnected left it.
TryResumeMatch(c) ==
  /\ Goto(c, "resume", "rejoinMatch")
  /\ StopReconnectTimer
  /\ rstate' = "Playing"
  /\ UNCHANGED <<player, inHub, tokens, regVars, matchVars, connVars, api>>

RejoinMatch(c) ==
  /\ Goto(c, "rejoinMatch", IF regMatch # NoMatch THEN "idle" ELSE "rejoinClients")
  /\ cmatch' = [cmatch EXCEPT ![c] = IF regMatch # NoMatch THEN regMatch ELSE @]
  /\ UNCHANGED <<roomVars, inHub, tokens, regVars, matchVars, seat, entry, got,
                 mine, api>>

BothRegistered == \A s \in Seats : regConn[s] # NoConn

\* Mutant: as with join_room, only the second player looks.
RejoinClientsSecond(c) ==
  Look(c, "rejoinClients",
       IF BothRegistered /\ entry[c] = 2 THEN "startClients" ELSE "idle")

RejoinClients(c) ==
  Look(c, "rejoinClients", IF BothRegistered THEN "startClients" ELSE "idle")

-----------------------------------------------------------------------------
(* startMatchForRoom, the tail of every handler that may start a match.     *)

\* GetClients; with a player missing the handler only reports an error.
StartClients(c) ==
  /\ Goto(c, "startClients", IF BothRegistered THEN "startExisting" ELSE "idle")
  /\ got' = [got EXCEPT ![c] = IF BothRegistered THEN regConn ELSE NobodyGot]
  /\ UNCHANGED <<roomVars, inHub, tokens, regVars, matchVars, seat, entry,
                 cmatch, mine, api>>

\* GetMatch: somebody else has started the match already.
StartExisting(c) ==
  /\ Goto(c, "startExisting", IF regMatch # NoMatch THEN "idle" ELSE "startPublish")
  /\ got' = [got EXCEPT ![c] = IF regMatch # NoMatch THEN NobodyGot ELSE @]
  /\ UNCHANGED <<roomVars, inHub, tokens, regVars, matchVars, seat, entry,
                 cmatch, mine, api>>

FreshMatch(m) == mstate[m] = "unused"
                 /\ \A n \in Matches : n < m => mstate[n] # "unused"

\* Mutant: SetMatch instead of SetMatchIfEmpty, so the last starter wins.
StartPublishAlways(c) ==
  /\ Goto(c, "startPublish", "startPlaying")
  /\ \E m \in Matches :
       /\ FreshMatch(m)
       /\ mstate' = [mstate EXCEPT ![m] = "Idle"]
       /\ bridge' = [bridge EXCEPT ![m] = got[c]]
       /\ mine' = [mine EXCEPT ![c] = m]
       /\ regMatch' = m
  /\ UNCHANGED <<roomVars, inHub, tokens, regConn, loop, seat, entry, cmatch,
                 got, api>>

\* NewMatchController with a bridge to the two conns, then SetMatchIfEmpty.
StartPublish(c) ==
  /\ Goto(c, "startPublish", IF regMatch = NoMatch THEN "startPlaying" ELSE "startReload")
  /\ \E m \in Matches :
       /\ FreshMatch(m)
       /\ mstate' = [mstate EXCEPT ![m] = "Idle"]
       /\ bridge' = [bridge EXCEPT ![m] = got[c]]
       /\ mine' = [mine EXCEPT ![c] = m]
       /\ regMatch' = IF regMatch = NoMatch THEN m ELSE regMatch
  /\ UNCHANGED <<roomVars, inHub, tokens, regConn, loop, seat, entry, cmatch,
                 got, api>>

\* Mutant: the loser goes on with the controller it created.
StartReloadOwn(c) == Look(c, "startReload", "startPlaying")

\* The loser of SetMatchIfEmpty goes on with the winner's controller.
StartReload(c) ==
  /\ Goto(c, "startReload", IF regMatch = NoMatch THEN "idle" ELSE "startPlaying")
  /\ mine' = [mine EXCEPT ![c] = regMatch]
  /\ got' = [got EXCEPT ![c] = IF regMatch = NoMatch THEN NobodyGot ELSE @]
  /\ UNCHANGED <<roomVars, inHub, tokens, regVars, matchVars, seat, entry,
                 cmatch, api>>

\* SetState(RoomPlaying), with no look at the state it overwrites.
StartPlaying(c) ==
  /\ Goto(c, "startPlaying", "startAttach1")
  /\ rstate' = "Playing"
  /\ UNCHANGED <<player, rtimer, tphase, inHub, tokens, regVars, matchVars,
                 connVars, api>>

\* conns[0].setMatch, then conns[1].setMatch.
SetMatch(c, s) == cmatch' = [cmatch EXCEPT ![got[c][s]] = mine[c]]

StartAttach(c) ==
  /\ \/ Goto(c, "startAttach1", "startAttach2") /\ SetMatch(c, 1)
     \/ Goto(c, "startAttach2", "startRun") /\ SetMatch(c, 2)
  /\ UNCHANGED <<roomVars, inHub, tokens, regVars, matchVars, seat, entry, got,
                 mine, api>>

\* MatchController.Start, guarded by startOnce: a controller that was stopped
\* first keeps its state, but its loop goroutine is created all the same.
Start(m) ==
  IF loop[m] = "none"
  THEN /\ loop' = [loop EXCEPT ![m] = "live"]
       /\ mstate' = [mstate EXCEPT ![m] = IF @ = "Idle" THEN "Running" ELSE @]
  ELSE UNCHANGED <<loop, mstate>>

StartRun(c) ==
  /\ Goto(c, "startRun", "idle")
  /\ Start(mine[c])
  /\ mine' = [mine EXCEPT ![c] = NoMatch]
  /\ got' = [got EXCEPT ![c] = NobodyGot]
  /\ UNCHANGED <<roomVars, inHub, tokens, regVars, bridge, seat, entry, cmatch,
                 api>>

-----------------------------------------------------------------------------
(* ready and play_again.                                                    *)

Ready(c) ==
  /\ "ready" \in Kinds /\ seat[c] # NoSeat
  /\ rstate \notin {"Playing", "GameOver"}
  /\ Look(c, "idle", "readySet")

\* SetReady answers only a player it knows, in a room that is Ready.
SetReady(c) ==
  LET accepted == rstate = "Ready" /\ player[seat[c]].connected
  IN  /\ Goto(c, "readySet", IF accepted THEN "readyBoth" ELSE "idle")
      /\ player' = IF accepted THEN [player EXCEPT ![seat[c]].ready = TRUE]
                               ELSE player
      /\ UNCHANGED <<rstate, rtimer, tphase, inHub, tokens, regVars, matchVars,
                     connVars, api>>

ReadyBoth(c) ==
  Look(c, "readyBoth", IF BothReady THEN "startClients" ELSE "idle")

\* play_again is accepted in the middle of a match too: nothing ever sets
\* RoomGameOver, so a room whose game is over is still Playing.
PlayAgain(c) ==
  /\ "play_again" \in Kinds /\ seat[c] # NoSeat
  /\ rstate \in {"GameOver", "Playing"}
  /\ Look(c, "idle", "againSet")

SetRematch(c) ==
  /\ Goto(c, "againSet", "againBoth")
  /\ player' = [player EXCEPT ![seat[c]].rematch = TRUE]
  /\ UNCHANGED <<rstate, rtimer, tphase, inHub, tokens, regVars, matchVars,
                 connVars, api>>

\* Mutant: only the player who created the room takes the rematch up.
AgainBothHost(c) ==
  Look(c, "againBoth",
       IF BothWantRematch /\ seat[c] = 1 THEN "againReset" ELSE "idle")

AgainBoth(c) ==
  Look(c, "againBoth", IF BothWantRematch THEN "againReset" ELSE "idle")

ResetForRematch(c) ==
  /\ Goto(c, "againReset", "againClients")
  /\ player' = [s \in Seats |-> [player[s] EXCEPT !.rematch = FALSE, !.ready = FALSE]]
  /\ rstate' = "Ready"
  /\ UNCHANGED <<rtimer, tphase, inHub, tokens, regVars, matchVars, connVars, api>>

AgainClients(c) ==
  Look(c, "againClients", IF BothRegistered THEN "againRemove" ELSE "idle")

\* RemoveMatch only forgets the old controller: nobody stops it.
RemoveMatch(c) ==
  /\ Goto(c, "againRemove", "startClients")
  /\ regMatch' = NoMatch
  /\ UNCHANGED <<roomVars, inHub, tokens, regConn, matchVars, connVars, api>>

-----------------------------------------------------------------------------
(* cleanupAndClose, the end of every connection.                            *)

\* The read fails: the client went away, or was silent for too long.
Drop(c) ==
  Look(c, "idle", "cleanup")

\* GetState picks one of the three ways to leave; the state may change before
\* the next critical section of the way that was picked.
Cleanup(c) ==
  Look(c, "cleanup",
       IF seat[c] = NoSeat THEN "closed"
       ELSE CASE rstate = "Playing"          -> "leaveMark"
              [] rstate = "WaitingReconnect" -> "awayForce"
              [] OTHER                       -> "quitRemove")

\* Leaving a room that plays.  MarkDisconnected, and SetWaitingReconnect,
\* which says whether there is anybody left to wait for the reconnect.
MarkDisconnected(c) ==
  /\ Goto(c, "leaveMark", "leaveWait")
  /\ player' = [player EXCEPT ![seat[c]].connected = FALSE]
  /\ UNCHANGED <<rstate, rtimer, tphase, inHub, tokens, regVars, matchVars,
                 connVars, api>>

SetWaitingReconnect(c) ==
  /\ Goto(c, "leaveWait", IF EmptyWithout(seat[c]) THEN "leaveForce" ELSE "leaveTimer")
  /\ rstate' = "WaitingReconnect"
  /\ UNCHANGED <<player, rtimer, tphase, inHub, tokens, regVars, matchVars,
                 connVars, api>>

\* Mutant: only the first player's departure starts the timer.
StartReconnectTimerFirst(c) ==
  /\ Goto(c, "leaveTimer", "unregister")
  /\ IF seat[c] = 2 THEN UNCHANGED <<rtimer, tphase>>
     ELSE \E t \in Timers : /\ FreshTimer(t)
                            /\ rtimer' = t
                            /\ tphase' = [tphase EXCEPT ![t] = "armed"]
  /\ UNCHANGED <<rstate, player, inHub, tokens, regVars, matchVars, connVars, api>>

StartReconnectTimer(c) ==
  /\ Goto(c, "leaveTimer", "unregister")
  /\ IF rtimer # NoTimer THEN UNCHANGED <<rtimer, tphase>>
     ELSE \E t \in Timers : /\ FreshTimer(t)
                            /\ rtimer' = t
                            /\ tphase' = [tphase EXCEPT ![t] = "armed"]
  /\ UNCHANGED <<rstate, player, inHub, tokens, regVars, matchVars, connVars, api>>

\* ForceSecondDisconnect, from a room that plays or one that waits already.
ForceSecondDisconnect(c) ==
  /\ Goto(c, "leaveForce", "leaveStop") \/ Goto(c, "awayForce", "awayStop")
  /\ StopReconnectTimer
  /\ rstate' = "Closed"
  /\ UNCHANGED <<player, inHub, tokens, regVars, matchVars, connVars, api>>

\* The connection's own controller, or else the registered one, is stopped.
Stop(c) ==
  LET m == IF cmatch[c] # NoMatch THEN cmatch[c] ELSE regMatch
  IN  mstate' = IF m = NoMatch THEN mstate ELSE [mstate EXCEPT ![m] = "Stopped"]

StopMatch(c) ==
  /\ \/ Goto(c, "leaveStop", "leaveRemove") \/ Goto(c, "awayStop", "awayRemove")
     \/ Goto(c, "quitStop", "unregister")
     \/ Goto(c, "quitEmptyStop", "unregisterEmpty")
  /\ Stop(c)
  /\ UNCHANGED <<roomVars, inHub, tokens, regVars, loop, bridge, connVars, api>>

LeaveRoom(c) ==
  /\ LET empty == EmptyWithout(seat[c])
         next  == IF empty THEN "unregisterEmpty" ELSE "unregister"
     IN  \/ Goto(c, "leaveRemove", next) \/ Goto(c, "awayRemove", next)
         \/ Goto(c, "quitRemove", IF empty THEN "quitEmptyStop" ELSE "quitStop")
  /\ RemovePlayer(seat[c])
  /\ UNCHANGED <<rtimer, tphase, inHub, tokens, regVars, matchVars, connVars, api>>

\* Mutant: the last one out leaves the room's registry entry behind.
UnregisterKeepsRoom(c) ==
  /\ Goto(c, "unregister", "closed") \/ Goto(c, "unregisterEmpty", "closed")
  /\ regConn' = [regConn EXCEPT ![seat[c]] = NoConn]
  /\ UNCHANGED <<roomVars, inHub, tokens, regMatch, matchVars, connVars, api>>

\* ConnRegistry.RemoveConn forgets whatever connection holds the seat; the
\* last one out also takes the room out of the hub and the registry.
Unregister(c) ==
  /\ \/ /\ Goto(c, "unregister", "closed")
        /\ regConn' = [regConn EXCEPT ![seat[c]] = NoConn]
        /\ UNCHANGED <<inHub, regMatch>>
     \/ /\ Goto(c, "unregisterEmpty", "closed")
        /\ regConn' = NobodyGot
        /\ regMatch' = NoMatch
        /\ inHub' = FALSE
  /\ UNCHANGED <<roomVars, tokens, matchVars, connVars, api>>

-----------------------------------------------------------------------------
(* The reconnect timer's goroutine and the match loop.                      *)

TimerFires(t) ==
  /\ tphase[t] = "armed"
  /\ tphase' = [tphase EXCEPT ![t] = "fired"]
  /\ UNCHANGED <<rstate, player, rtimer, inHub, tokens, regVars, matchVars, pc,
                 connVars, api>>

ReconnectExpires(t) ==
  /\ tphase[t] = "fired"
  /\ IF rstate = "WaitingReconnect"
     THEN rstate' = "Closed" /\ tphase' = [tphase EXCEPT ![t] = "closing"]
     ELSE UNCHANGED rstate /\ tphase' = [tphase EXCEPT ![t] = "done"]
  /\ UNCHANGED <<player, rtimer, inHub, tokens, regVars, matchVars, pc, connVars, api>>

\* The goroutine ends with StopReconnectTimer, on whatever timer is set then.
TimerCloses(t) ==
  /\ tphase[t] = "closing"
  /\ rtimer' = NoTimer
  /\ tphase' = [u \in Timers |->
                  IF u = t THEN "done"
                  ELSE IF u = rtimer /\ tphase[u] = "armed" THEN "blocked"
                  ELSE tphase[u]]
  /\ UNCHANGED <<rstate, player, inHub, tokens, regVars, matchVars, pc, connVars, api>>

\* A player runs out of tanks; the room is not told.
MatchGameOver(m) ==
  /\ loop[m] = "live" /\ mstate[m] = "Running"
  /\ mstate' = [mstate EXCEPT ![m] = "GameOver"]
  /\ UNCHANGED <<roomVars, inHub, tokens, regVars, loop, bridge, pc, connVars, api>>

\* The 36000th tick: the loop stops its own controller.
MatchTimeout(m) ==
  /\ loop[m] = "live" /\ mstate[m] = "Running"
  /\ mstate' = [mstate EXCEPT ![m] = "Stopped"]
  /\ UNCHANGED <<roomVars, inHub, tokens, regVars, loop, bridge, pc, connVars, api>>

LoopExits(m) ==
  /\ loop[m] = "live" /\ mstate[m] = "Stopped"
  /\ loop' = [loop EXCEPT ![m] = "exited"]
  /\ UNCHANGED <<roomVars, inHub, tokens, regVars, mstate, bridge, pc, connVars, api>>

-----------------------------------------------------------------------------
(* The specification.                                                       *)

JoinStep(c) == WSAddPlayer(c) \/ WSRegister(c) \/ JoinCheck(c)

RejoinStep(c) ==
  \/ RejoinRemoveToken(c) \/ RejoinClosed(c) \/ RejoinWaiting(c)
  \/ RejoinRegister(c) \/ TryResumeMatch(c) \/ RejoinMatch(c) \/ RejoinClients(c)

StartStep(c) ==
  \/ StartClients(c) \/ StartExisting(c) \/ StartPublish(c) \/ StartReload(c)
  \/ StartPlaying(c) \/ StartAttach(c) \/ StartRun(c)

ReadyStep(c) == SetReady(c) \/ ReadyBoth(c)

AgainStep(c) ==
  SetRematch(c) \/ AgainBoth(c) \/ ResetForRematch(c) \/ AgainClients(c) \/ RemoveMatch(c)

CleanupStep(c) ==
  \/ Cleanup(c) \/ MarkDisconnected(c) \/ SetWaitingReconnect(c)
  \/ StartReconnectTimer(c) \/ ForceSecondDisconnect(c) \/ StopMatch(c)
  \/ LeaveRoom(c) \/ Unregister(c)

\* What a connection's goroutine does once it has begun a handler.
HandlerStep(c) ==
  JoinStep(c) \/ RejoinStep(c) \/ StartStep(c) \/ ReadyStep(c) \/ AgainStep(c)
  \/ CleanupStep(c)

\* What a client sends, or does to its connection.
ClientStep(c) ==
  \/ WSCreateRoom(c) \/ WSJoinRoom(c) \/ Ready(c) \/ PlayAgain(c) \/ Drop(c)
  \/ \E s \in Seats : Rejoin(c, s)

TimerStep(t) == TimerFires(t) \/ ReconnectExpires(t) \/ TimerCloses(t)
MatchStep(m) == MatchGameOver(m) \/ MatchTimeout(m) \/ LoopExits(m)
ApiStep(r) == ApiCreateRoom(r) \/ ApiJoinCheck(r) \/ ApiAddPlayer(r)

Next ==
  \/ \E c \in Conns : ClientStep(c) \/ HandlerStep(c)
  \/ \E t \in Timers : TimerStep(t)
  \/ \E m \in Matches : MatchStep(m)
  \/ \E r \in Reqs : ApiStep(r)
  \/ CleanupStaleRooms
  \/ CleanupStaleTokens

\* Goroutines are scheduled and timers fire; clients owe the server nothing.
Fairness ==
  /\ \A c \in Conns : WF_vars(HandlerStep(c))
  /\ \A t \in Timers : WF_vars(TimerStep(t))
  /\ \A m \in Matches : WF_vars(LoopExits(m))
  /\ \A r \in Reqs : WF_vars(ApiAddPlayer(r))
  /\ WF_vars(CleanupStaleRooms)

Spec == Init /\ [][Next]_vars
FairSpec == Spec /\ Fairness

-----------------------------------------------------------------------------
(* Properties.                                                              *)

\* No handler, HTTP request or reconnect goroutine is half way through.
Quiet == /\ \A c \in Conns : pc[c] \in {"idle", "closed"}
         /\ \A r \in Reqs : api[r] # "add"
         /\ \A t \in Timers : tphase[t] \notin {"fired", "closing"}

\* Whatever the order in which joins, rejoins, starts and departures
\* interleave, the registry, and the bridge of every match, address each seat's
\* ticks and messages to a connection that entered on that seat.  A connection
\* is taken to enter once (see Rejoin): create and join check that it has not.
AddressedBySeat ==
  \A s \in Seats :
    /\ regConn[s] # NoConn => seat[regConn[s]] = s
    /\ \A m \in Matches : bridge[m][s] # NoConn => seat[bridge[m][s]] = s

\* What AddressedBySeat rests on: a handler that is going to seat its connection
\* has one that sits nowhere yet, and the conns it read sit where it read them.
Entering == {"createAdd", "joinAdd", "rejoinRemoveToken", "rejoinClosed",
             "rejoinWaiting", "resumeRegister", "rejoinRegister"}
EnteringUnseated == \A c \in Conns : pc[c] \in Entering => seat[c] = NoSeat
GotBySeat == \A c \in Conns, s \in Seats :
               got[c][s] # NoConn => seat[got[c][s]] = s
SeatInv == TypeOK /\ EnteringUnseated /\ GotBySeat /\ AddressedBySeat

\* AddPlayer and SetMatchIfEmpty decide races: two connections that joined
\* over the websocket never sit on the same seat.
SeatExclusive ==
  \A c, d \in Conns : c # d /\ seat[c] # NoSeat => seat[c] # seat[d]

\* What SeatExclusive rests on: nobody sits on a seat the room calls empty, and
\* without rejoin messages no connection takes a seat over.
SittingOnSeat == \A c \in Conns : seat[c] # NoSeat => player[seat[c]].seated
NoRejoining == \A c \in Conns : pc[c] \notin RejoinSteps
ExclusiveInv == SeatInv /\ NoRejoining /\ SittingOnSeat /\ SeatExclusive

\* A controller that lost SetMatchIfEmpty is dropped, not started: there is
\* never more than one game advancing and sending ticks to the two players.
Ticking(m) == loop[m] = "live" /\ mstate[m] = "Running"
OneGame == \A m, n \in Matches : Ticking(m) /\ Ticking(n) => m = n

\* When every connection is gone and every goroutine has had its turn, neither
\* a match loop nor a registered match nor a registered connection is left.
NothingLeftBehind ==
  Quiet /\ (\A c \in Conns : pc[c] = "closed") =>
    /\ \A m \in Matches : loop[m] = "live" => mstate[m] = "Stopped"
    /\ regMatch = NoMatch
    /\ regConn = NobodyGot

\* The same of a room that is entered with tokens, as the browser and the bots
\* enter it, as long as no two connections have got in with the same token.  A
\* departure is recorded per seat: where one connection has replaced another, the
\* room may otherwise be taken for empty under a handler that starts the match.
TokensUsedOnce ==
  \A c, d \in Conns : c # d /\ entry[c] # NoSeat => entry[c] # entry[d]
UsedOnceNothingLeft == TokensUsedOnce => NothingLeftBehind

\* Between handlers, the controller that a registered player's input goes to
\* is the registered one, and its ticks go to that player.
PlayersFollowMatch ==
  Quiet /\ regMatch # NoMatch =>
    \A s \in Seats : regConn[s] # NoConn =>
      /\ cmatch[regConn[s]] = regMatch
      /\ bridge[regMatch][s] = regConn[s]

\* Two registered players never wait for each other with no match started.
AutoStart ==
  Quiet /\ BothRegistered /\ rstate \in {"Waiting", "Ready"} => regMatch # NoMatch

\* A room that waits for a reconnect, which here nobody attempts, does not wait
\* for ever, whatever starts and departures race with its timer.
ReconnectDecided == rstate = "WaitingReconnect" ~> rstate # "WaitingReconnect"

\* Two players who both ask for another game are not left waiting for each
\* other: whichever handler looks last sees both requests and takes them up.
RematchAgreed == BothWantRematch ~> ~BothWantRematch
=============================================================================
