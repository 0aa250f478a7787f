------------------------- MODULE SessionMatchProofs -------------------------
(***************************************************************************)
(* What TLAPS proves of Session about the match of the room: at most one   *)
(* game advances, its players follow it, whoever leaves last takes it      *)
(* down, and two registered players do not wait for nothing.               *)
(*                                                                         *)
(* The difficulty is that a controller is published, attached and started  *)
(* by one handler in five critical sections, while other handlers may      *)
(* start one too, stop it, or take it out of the registry.                 *)
(*                                                                         *)
(*  - A starter runs the controller the registry had when it published or  *)
(*    reloaded it.  Unless somebody unregisters, it is the one the         *)
(*    registry has when it runs it, and no other has a loop: LaunchInv.    *)
(*  - The registry is cleared by the last one out only.  In a room that    *)
(*    is entered by create_room and join_room, one seat has one            *)
(*    connection, so the last one out knows that nobody is half way        *)
(*    through a start and that nobody will begin one (Finished): a new     *)
(*    start needs both players connected, and one that has left stays      *)
(*    disconnected.  That is ClearedFinished, and with it Started.         *)
(*  - Whoever leaves, the stop of the match and the cleaning of the        *)
(*    registry are still ahead of some connection, for a connection hands  *)
(*    them on only to one that it has seen connected: StopsDue, ClearDue.  *)
(*                                                                         *)
(* All this is MatchInv.  AutoInv, for rooms entered with tokens, says     *)
(* that while the room is open a registered pair has somebody between      *)
(* RejoinRegister and StartPublish.                                        *)
(***************************************************************************)
EXTENDS SessionProofs

\* No handler of play_again is running.
NoAgain == \A c \in Conns : pc[c] \notin AgainSteps

\* Whoever leaves the room has a seat in it.
LeavingSeated ==
  \A c \in Conns : pc[c] \in CleanupSteps \ {"cleanup"} => seat[c] # NoSeat

\* The steps of a handler whose connection has a seat.
SeatedSteps ==
  StartSteps \cup ReadySteps \cup {"createRegister", "joinRegister", "joinCheck"}

\* They do.
HandlersSeated == \A c \in Conns : pc[c] \in SeatedSteps => seat[c] # NoSeat

\* No variable names a controller that has not been created.
MatchesUsed ==
  /\ regMatch # NoMatch => mstate[regMatch] # "unused"
  /\ \A m \in Matches : loop[m] # "none" => mstate[m] # "unused"
  /\ \A c \in Conns : cmatch[c] # NoMatch => mstate[cmatch[c]] # "unused"
  /\ \A c \in Conns : mine[c] # NoMatch => mstate[mine[c]] # "unused"

\* A starter between publishing its controller and running it.
Launching == {"startPlaying", "startAttach1", "startAttach2", "startRun"}

\* What a starter is going to run is what the registry has.
LaunchesRegistered ==
  \A c \in Conns : pc[c] \in Launching => regMatch # NoMatch /\ mine[c] = regMatch

\* Only the registered controller has ever been run.
OnlyRegistered == \A m \in Matches : loop[m] # "none" => m = regMatch

\* Nobody who had a seat has finished leaving.
NobodyLeft == \A c \in Conns : seat[c] # NoSeat => pc[c] # "closed"

\* The invariant behind OneGameWhileNobodyLeft.
LaunchInv ==
  /\ TypeOK /\ EnteringUnseated /\ NoAgain /\ LeavingSeated /\ MatchesUsed
  /\ NobodyLeft => LaunchesRegistered /\ OnlyRegistered

\* Who leaves is marked disconnected, by MarkDisconnected or RemovePlayer.
Marked == {"leaveWait", "leaveTimer", "leaveForce", "leaveStop", "leaveRemove",
           "quitStop", "quitEmptyStop", "unregister", "unregisterEmpty", "closed"}

\* Who leaves has seen nobody else connected, or a room that waits already.
Alone == {"leaveForce", "leaveStop", "leaveRemove", "awayForce", "awayStop",
          "awayRemove", "quitEmptyStop", "unregisterEmpty"}

\* Who leaves has stopped the match, and will clear the registry if it is the last.
PastStop == {"leaveRemove", "awayRemove", "unregisterEmpty"}

\* Who leaves has left the rest to the other player.
OthersWork == {"leaveTimer", "quitStop", "unregister", "closed"}

\* No HTTP request is being handled.
NoRequests == \A r \in Reqs : api[r] = "idle"

\* A player is connected exactly as long as its connection has not been marked.
ConnectedSits ==
  /\ \A c \in Conns : seat[c] # NoSeat =>
       (player[seat[c]].connected <=> pc[c] \notin Marked)
  /\ \A s \in Seats : player[s].connected => \E c \in Conns : seat[c] = s

\* No handler is inside startMatchForRoom.
NobodyStarts == \A c \in Conns : pc[c] \notin StartSteps

\* A seat is taken and its player is disconnected.
SomebodyGone == \E s \in Seats : player[s].seated /\ ~player[s].connected

\* Nothing starts, and nothing can: both players would have to be connected.
Finished == NobodyStarts /\ SomebodyGone

\* A room waits for a reconnect of somebody.
WaitsForSomebody == rstate = "WaitingReconnect" => SomebodyGone

\* Who leaves as the last one leaves a room where nothing starts.
LeavesAlone == \A c \in Conns : pc[c] \in Alone => Finished

\* A controller has been created.
Used == \E m \in Matches : mstate[m] # "unused"

\* Once created, a controller is forgotten only when nothing can start.
ClearedFinished == regMatch = NoMatch /\ Used => Finished

\* A controller that was forgotten has been stopped.
ClearedStopped ==
  regMatch = NoMatch =>
    \A m \in Matches : loop[m] = "live" => mstate[m] = "Stopped"

\* One controller has been run at most: the registered one, while there is one.
Started ==
  /\ \A m \in Matches : loop[m] # "none" /\ regMatch # NoMatch => m = regMatch
  /\ \A m, n \in Matches : loop[m] # "none" /\ loop[n] # "none" => m = n

\* A connection that has a controller has the registered one.
OwnMatch == regMatch # NoMatch => \A c \in Conns : cmatch[c] \in {NoMatch, regMatch}

\* Who is past StopMatch has stopped the registered controller.
StoppedBehind ==
  \A c \in Conns : pc[c] \in PastStop /\ regMatch # NoMatch => mstate[regMatch] = "Stopped"

\* While the match is not stopped, a connection is there that will see to it.
StopsDue ==
  regMatch # NoMatch /\ mstate[regMatch] # "Stopped" =>
    \E c \in Conns : seat[c] # NoSeat /\ pc[c] \notin OthersWork \cup PastStop

\* While a match is registered, a connection is there that will see to it.
ClearDue ==
  regMatch # NoMatch => \E c \in Conns : seat[c] # NoSeat /\ pc[c] \notin OthersWork

\* The registry holds no connection that is closed.
RegisteredOpen == \A s \in Seats : regConn[s] # NoConn => pc[regConn[s]] # "closed"

\* A starter has read the connections of both players.
GotBoth ==
  \A c \in Conns : pc[c] \in StartSteps \ {"startClients"} =>
    \A s \in Seats : got[c][s] # NoConn

\* The bridge of the registered match has both players.
BridgeBoth ==
  regMatch # NoMatch => \A s \in Seats : bridge[regMatch][s] # NoConn

\* A starter has yet to attach the match to the player of seat s.
BeforeAttach(s) ==
  {"startPlaying", "startAttach1"} \cup IF s = 2 THEN {"startAttach2"} ELSE {}

\* The match is attached to the players of its bridge, or is going to be.
Attached ==
  regMatch # NoMatch =>
    \A s \in Seats : \/ cmatch[bridge[regMatch][s]] = regMatch
                     \/ \E c \in Conns : pc[c] \in BeforeAttach(s)

\* The invariant behind OneGameJoined, NothingStays and PlayersFollow.
MatchInv ==
  /\ ExclusiveInv /\ NoAgain /\ NoRequests /\ LeavingSeated /\ HandlersSeated
  /\ MatchesUsed /\ ConnectedSits
  /\ WaitsForSomebody /\ LeavesAlone
  /\ ClearedFinished /\ ClearedStopped
  /\ Started /\ LaunchesRegistered /\ OwnMatch /\ StoppedBehind
  /\ StopsDue /\ ClearDue /\ RegisteredOpen
  /\ GotBoth /\ BridgeBoth /\ Attached

\* A rejoin handler between SetConn and SetMatchIfEmpty.
Registering == {"rejoinMatch", "rejoinClients", "startClients", "startExisting",
                "startPublish"}

\* The states of a room that has not begun to play.
OpenStates == {"none", "Waiting", "Ready"}

\* There are listings, tokens and seats only of a room that was created.
EnteredRoom ==
  (\/ inHub \/ tokens # {}
   \/ \E r \in Reqs : api[r] = "add"
   \/ \E c \in Conns : entry[c] # NoSeat \/ seat[c] # NoSeat)
  => rstate # "none"

\* Steps taken after the room was seen to play, to wait or to be closed.
AfterOpen == (CleanupSteps \ {"cleanup", "quitRemove"}) \cup {"resumeRegister"}

\* Who leaves, or resumes, does so in a room that is open no more.
LeavingClosed ==
  \A c \in Conns :
    pc[c] \in AfterOpen \/ (pc[c] = "closed" /\ seat[c] # NoSeat)
    => rstate \notin OpenStates

\* No handler of create_room or join_room is running.
NoJoining == \A c \in Conns : pc[c] \notin JoinSteps

\* A registered pair without a match in an open room has somebody to start it.
PairStarts ==
  rstate \in OpenStates /\ BothRegistered /\ regMatch = NoMatch =>
    \E c \in Conns : pc[c] \in Registering

\* The invariant behind AutoStarts.
AutoInv == TypeOK /\ EnteringUnseated /\ NoAgain /\ NoJoining /\ LeavingSeated
           /\ EnteredRoom /\ LeavingClosed /\ PairStarts

-----------------------------------------------------------------------------
\* Which steps write the shared and the starters' variables.
LEMMA Writers ==
  ASSUME [Next]_vars
  PROVE  /\ UNCHANGED seat
            \/ \E c \in Conns : WSAddPlayer(c) \/ RejoinRegister(c)
         /\ UNCHANGED regConn
            \/ \E c \in Conns : WSRegister(c) \/ RejoinRegister(c) \/ Unregister(c)
         /\ UNCHANGED regMatch
            \/ \E c \in Conns : StartPublish(c) \/ RemoveMatch(c) \/ Unregister(c)
         /\ UNCHANGED bridge \/ \E c \in Conns : StartPublish(c)
         /\ UNCHANGED cmatch \/ \E c \in Conns : RejoinMatch(c) \/ StartAttach(c)
         /\ UNCHANGED got
            \/ \E c \in Conns : \/ StartClients(c) \/ StartExisting(c)
                                \/ StartReload(c) \/ StartRun(c)
         /\ UNCHANGED mine
            \/ \E c \in Conns : StartPublish(c) \/ StartReload(c) \/ StartRun(c)
         /\ \/ UNCHANGED <<mstate, loop>>
            \/ \E c \in Conns : StartPublish(c) \/ StartRun(c) \/ StopMatch(c)
            \/ \E m \in Matches : MatchStep(m)
<1>1. CASE UNCHANGED vars
  BY <1>1 DEF vars, connVars, regVars, matchVars
<1>2. ASSUME NEW c \in Conns, ClientStep(c)
      PROVE  UNCHANGED <<seat, regVars, matchVars, cmatch, got, mine>>
  BY <1>2 DEF ClientStep, WSCreateRoom, WSJoinRoom, Ready, PlayAgain, Drop, Rejoin, Look,
     connVars
<1>3. ASSUME NEW c \in Conns, JoinStep(c)
      PROVE  /\ UNCHANGED <<regMatch, matchVars, cmatch, got, mine>>
             /\ UNCHANGED seat \/ WSAddPlayer(c)
             /\ UNCHANGED regConn \/ WSRegister(c)
  BY <1>3 DEF JoinStep, WSAddPlayer, WSRegister, JoinCheck, Look, connVars, regVars
<1>4. ASSUME NEW c \in Conns, RejoinStep(c)
      PROVE  /\ UNCHANGED <<regMatch, matchVars, got, mine>>
             /\ UNCHANGED <<seat, regConn>> \/ RejoinRegister(c)
             /\ UNCHANGED cmatch \/ RejoinMatch(c)
  BY <1>4 DEF RejoinStep, RejoinRemoveToken, RejoinClosed, RejoinWaiting, RejoinRegister,
     TryResumeMatch, RejoinMatch, RejoinClients, Look, connVars, regVars
<1>5. ASSUME NEW c \in Conns, StartStep(c)
      PROVE  /\ UNCHANGED <<seat, regConn>>
             /\ UNCHANGED <<regMatch, bridge>> \/ StartPublish(c)
             /\ UNCHANGED cmatch \/ StartAttach(c)
             /\ UNCHANGED got \/ StartClients(c) \/ StartExisting(c) \/ StartReload(c)
                \/ StartRun(c)
             /\ UNCHANGED mine \/ StartPublish(c) \/ StartReload(c) \/ StartRun(c)
             /\ UNCHANGED <<mstate, loop>> \/ StartPublish(c) \/ StartRun(c)
  BY <1>5 DEF StartStep, StartClients, StartExisting, StartPublish, StartReload,
     StartPlaying, StartAttach, StartRun, connVars, regVars, matchVars
<1>6. ASSUME NEW c \in Conns, ReadyStep(c) \/ AgainStep(c)
      PROVE  /\ UNCHANGED <<seat, regConn, matchVars, cmatch, got, mine>>
             /\ UNCHANGED regMatch \/ RemoveMatch(c)
  BY <1>6 DEF ReadyStep, SetReady, ReadyBoth, AgainStep, SetRematch, AgainBoth,
     ResetForRematch, AgainClients, RemoveMatch, Look, connVars, regVars
<1>7. ASSUME NEW c \in Conns, CleanupStep(c)
      PROVE  /\ UNCHANGED <<seat, loop, bridge, cmatch, got, mine>>
             /\ UNCHANGED regVars \/ Unregister(c)
             /\ UNCHANGED mstate \/ StopMatch(c)
  BY <1>7 DEF CleanupStep, Cleanup, MarkDisconnected, SetWaitingReconnect,
     StartReconnectTimer, ForceSecondDisconnect, StopMatch, LeaveRoom, Unregister, Look,
     connVars, matchVars
<1>8. ASSUME NEW m \in Matches, MatchStep(m)
      PROVE  UNCHANGED <<seat, regVars, bridge, cmatch, got, mine>>
  BY <1>8 DEF MatchStep, MatchGameOver, MatchTimeout, LoopExits, connVars
<1>9. ASSUME \/ \E t \in Timers : TimerStep(t)
             \/ \E r \in Reqs : ApiStep(r)
             \/ CleanupStaleRooms \/ CleanupStaleTokens
      PROVE  UNCHANGED <<seat, regVars, matchVars, cmatch, got, mine>>
  BY <1>9 DEF TimerStep, TimerFires, ReconnectExpires, TimerCloses, ApiStep, ApiCreateRoom,
     ApiJoinCheck, ApiAddPlayer, CleanupStaleRooms, CleanupStaleTokens, connVars
<1> QED
  BY <1>1, <1>2, <1>3, <1>4, <1>5, <1>6, <1>7, <1>8, <1>9 DEF Next, HandlerStep, regVars,
     matchVars

\* Which steps write the players' flags, and how the room's state moves.
LEMMA RoomWriters ==
  ASSUME [Next]_vars
  PROVE  /\ \/ UNCHANGED player
            \/ \E s \in Seats : AddPlayer(s)
            \/ \E c \in Conns : \/ SetReady(c) \/ SetRematch(c) \/ ResetForRematch(c)
                                \/ MarkDisconnected(c) \/ LeaveRoom(c)
         /\ \/ UNCHANGED rstate
            \/ rstate = "none" /\ rstate' = "Waiting"
            \/ rstate = "Waiting" /\ rstate' = "Ready"
            \/ rstate' \in {"Playing", "Closed"}
            \/ \E c \in Conns : ResetForRematch(c) \/ SetWaitingReconnect(c)
<1>1. CASE UNCHANGED vars
  BY <1>1 DEF vars, roomVars
<1>2. ASSUME NEW c \in Conns, ClientStep(c)
      PROVE  UNCHANGED player /\ (UNCHANGED rstate \/ (rstate = "none" /\ rstate' = "Waiting"))
  BY <1>2 DEF ClientStep, WSCreateRoom, CreateRoom, WSJoinRoom, Ready, PlayAgain, Drop, Rejoin,
     Look, roomVars
<1>3. ASSUME NEW c \in Conns, JoinStep(c)
      PROVE  UNCHANGED <<player, rstate>> \/ \E s \in Seats : AddPlayer(s)
  BY <1>3 DEF JoinStep, WSAddPlayer, WSRegister, JoinCheck, Look, roomVars
<1>4. ASSUME NEW c \in Conns, RejoinStep(c) \/ StartStep(c)
      PROVE  UNCHANGED player /\ (UNCHANGED rstate \/ rstate' = "Playing")
  BY <1>4 DEF RejoinStep, RejoinRemoveToken, RejoinClosed, RejoinWaiting, RejoinRegister,
     TryResumeMatch, RejoinMatch, RejoinClients, StartStep, StartClients, StartExisting,
     StartPublish, StartReload, StartPlaying, StartAttach, StartRun, Look, roomVars
<1>5. ASSUME NEW c \in Conns, ReadyStep(c) \/ AgainStep(c)
      PROVE  /\ UNCHANGED player \/ SetReady(c) \/ SetRematch(c) \/ ResetForRematch(c)
             /\ UNCHANGED rstate \/ ResetForRematch(c)
  BY <1>5 DEF ReadyStep, SetReady, ReadyBoth, AgainStep, SetRematch, AgainBoth,
     AgainClients, RemoveMatch, Look, roomVars
<1>6. ASSUME NEW c \in Conns, CleanupStep(c)
      PROVE  /\ UNCHANGED player \/ MarkDisconnected(c) \/ LeaveRoom(c)
             /\ UNCHANGED rstate \/ rstate' = "Closed" \/ SetWaitingReconnect(c)
  BY <1>6 DEF CleanupStep, Cleanup, MarkDisconnected, SetWaitingReconnect, StartReconnectTimer,
     ForceSecondDisconnect, StopMatch, LeaveRoom, RemovePlayer, Unregister, Look, roomVars
<1>7. ASSUME NEW r \in Reqs, ApiStep(r)
      PROVE  \/ UNCHANGED player /\ (UNCHANGED rstate \/ (rstate = "none" /\ rstate' = "Waiting"))
             \/ \E s \in Seats : AddPlayer(s)
  BY <1>7 DEF ApiStep, ApiCreateRoom, CreateRoom, ApiJoinCheck, ApiAddPlayer, roomVars
<1>8. ASSUME \/ \E t \in Timers : TimerStep(t)
             \/ \E m \in Matches : MatchStep(m)
             \/ CleanupStaleRooms \/ CleanupStaleTokens
      PROVE  UNCHANGED player /\ (UNCHANGED rstate \/ rstate' = "Closed")
  BY <1>8 DEF TimerStep, TimerFires, ReconnectExpires, TimerCloses, MatchStep,
     MatchGameOver, MatchTimeout, LoopExits, CleanupStaleRooms, CleanupStaleTokens, roomVars
<1>9. ASSUME NEW s \in Seats, AddPlayer(s)
      PROVE  UNCHANGED rstate \/ (rstate = "Waiting" /\ rstate' = "Ready")
  BY <1>9 DEF AddPlayer
<1> QED
  BY <1>1, <1>2, <1>3, <1>4, <1>5, <1>6, <1>7, <1>8, <1>9 DEF Next, HandlerStep

-----------------------------------------------------------------------------
\* A controller is created once, and once stopped stays stopped.
LEMMA UsedStays ==
  ASSUME TypeOK, [Next]_vars, NEW m \in Matches
  PROVE  /\ mstate[m] # "unused" => mstate'[m] # "unused"
         /\ mstate[m] = "Stopped" => mstate'[m] = "Stopped"
<1>1. CASE UNCHANGED mstate
  BY <1>1
<1>2. ASSUME NEW c \in Conns, StartPublish(c) \/ StartRun(c) \/ StopMatch(c)
      PROVE  /\ mstate[m] # "unused" => mstate'[m] # "unused"
             /\ mstate[m] = "Stopped" => mstate'[m] = "Stopped"
  BY <1>2 DEF StartPublish, FreshMatch, StartRun, Start, StopMatch, Stop, TypeOK
<1>3. ASSUME NEW n \in Matches, MatchStep(n)
      PROVE  /\ mstate[m] # "unused" => mstate'[m] # "unused"
             /\ mstate[m] = "Stopped" => mstate'[m] = "Stopped"
  BY <1>3 DEF MatchStep, MatchGameOver, MatchTimeout, LoopExits, TypeOK
<1> QED BY <1>1, <1>2, <1>3, Writers

\* Controllers are named only after they were created.
LEMMA NextUsed ==
  ASSUME TypeOK, MatchesUsed, [Next]_vars
  PROVE  MatchesUsed'
<1> USE DEF MatchesUsed
<1>0. TypeOK'
  BY NextType
<1>1. regMatch' # NoMatch => mstate'[regMatch'] # "unused"
  <2>1. CASE UNCHANGED regMatch
    BY <2>1, UsedStays DEF TypeOK
  <2>2. ASSUME NEW c \in Conns, StartPublish(c)
        PROVE  regMatch' # NoMatch => mstate'[regMatch'] # "unused"
    BY <2>2, UsedStays DEF StartPublish, TypeOK
  <2>3. ASSUME NEW c \in Conns, RemoveMatch(c) \/ Unregister(c), ~UNCHANGED regMatch
        PROVE  regMatch' = NoMatch
    BY <2>3 DEF RemoveMatch, Unregister
  <2> QED BY <2>1, <2>2, <2>3, Writers
<1>2. ASSUME NEW m \in Matches, loop'[m] # "none" PROVE mstate'[m] # "unused"
  <2>1. CASE UNCHANGED loop
    BY <1>2, <2>1, UsedStays
  <2>2. ASSUME NEW c \in Conns, StartRun(c) PROVE mstate'[m] # "unused"
    BY <1>2, <2>2, UsedStays, SessionAssumption DEF StartRun, Start, TypeOK
  <2>3. ASSUME NEW n \in Matches, MatchStep(n) PROVE mstate'[m] # "unused"
    BY <1>2, <2>3, UsedStays DEF MatchStep, MatchGameOver, MatchTimeout, LoopExits, TypeOK
  <2>4. ASSUME NEW c \in Conns, StartPublish(c) \/ StopMatch(c) PROVE UNCHANGED loop
    BY <2>4 DEF StartPublish, StopMatch
  <2> QED BY <2>1, <2>2, <2>3, <2>4, Writers
<1>3. ASSUME NEW c \in Conns, cmatch'[c] # NoMatch PROVE mstate'[cmatch'[c]] # "unused"
  <2>1. cmatch'[c] \in {cmatch[c], regMatch} \/ \E d \in Conns : cmatch'[c] = mine[d]
    BY Writers DEF RejoinMatch, StartAttach, SetMatch, TypeOK
  <2> QED BY <1>3, <2>1, UsedStays DEF TypeOK
<1>4. ASSUME NEW c \in Conns, mine'[c] # NoMatch PROVE mstate'[mine'[c]] # "unused"
  <2>1. CASE mine'[c] \in {mine[c], regMatch}
    BY <1>4, <2>1, UsedStays DEF TypeOK
  <2>2. CASE ~(mine'[c] \in {mine[c], regMatch})
    <3>1. PICK d \in Conns : StartPublish(d)
      BY <1>4, <2>2, Writers DEF StartReload, StartRun, TypeOK
    <3> QED BY <1>4, <2>2, <3>1 DEF StartPublish, TypeOK
  <2> QED BY <2>1, <2>2
<1> QED BY <1>1, <1>2, <1>3, <1>4

\* Where the steps of a handler may lead.
LEMMA Targets ==
  ASSUME NEW c \in Conns
  PROVE  /\ ClientStep(c) =>
              /\ pc[c] = "idle"
              /\ \E to \in {"createAdd", "joinAdd", "readySet", "againSet",
                           "rejoinRemoveToken", "cleanup"} :
                   /\ pc' = [pc EXCEPT ![c] = to]
                   /\ to \in {"createAdd", "joinAdd"} => {"create", "join"} \cap Kinds # {}
                   /\ to = "againSet" => "play_again" \in Kinds
         /\ JoinStep(c) =>
              /\ pc[c] \in JoinSteps
              /\ \E to \in JoinSteps \cup {"idle", "startClients"} :
                   pc' = [pc EXCEPT ![c] = to]
         /\ RejoinStep(c) =>
              /\ pc[c] \in RejoinSteps
              /\ \E to \in RejoinSteps \cup {"cleanup", "idle", "startClients"} :
                   pc' = [pc EXCEPT ![c] = to]
         /\ StartStep(c) =>
              /\ pc[c] \in StartSteps
              /\ \E to \in StartSteps \cup {"idle"} : pc' = [pc EXCEPT ![c] = to]
         /\ ReadyStep(c) =>
              /\ pc[c] \in ReadySteps
              /\ \E to \in ReadySteps \cup {"idle", "startClients"} :
                   pc' = [pc EXCEPT ![c] = to]
         /\ AgainStep(c) =>
              /\ pc[c] \in AgainSteps
              /\ \E to \in AgainSteps \cup {"idle", "startClients"} :
                   pc' = [pc EXCEPT ![c] = to]
         /\ CleanupStep(c) =>
              /\ pc[c] \in CleanupSteps
              /\ \E to \in CleanupSteps \cup {"closed"} : pc' = [pc EXCEPT ![c] = to]
<1> USE DEF Goto, Look
<1>1. ClientStep(c) =>
        /\ pc[c] = "idle"
        /\ \E to \in {"createAdd", "joinAdd", "readySet", "againSet",
                     "rejoinRemoveToken", "cleanup"} :
             /\ pc' = [pc EXCEPT ![c] = to]
             /\ to \in {"createAdd", "joinAdd"} => {"create", "join"} \cap Kinds # {}
             /\ to = "againSet" => "play_again" \in Kinds
  BY DEF ClientStep, WSCreateRoom, WSJoinRoom, Ready, PlayAgain, Drop, Rejoin
<1>2. JoinStep(c) =>
        /\ pc[c] \in JoinSteps
        /\ \E to \in JoinSteps \cup {"idle", "startClients"} : pc' = [pc EXCEPT ![c] = to]
  BY DEF JoinSteps, JoinStep, WSAddPlayer, WSRegister, JoinCheck
<1>3. RejoinStep(c) =>
        /\ pc[c] \in RejoinSteps
        /\ \E to \in RejoinSteps \cup {"cleanup", "idle", "startClients"} :
             pc' = [pc EXCEPT ![c] = to]
  BY DEF RejoinSteps, RejoinStep, RejoinRemoveToken, RejoinClosed, RejoinWaiting,
     RejoinRegister, TryResumeMatch, RejoinMatch, RejoinClients
<1>4. StartStep(c) =>
        /\ pc[c] \in StartSteps
        /\ \E to \in StartSteps \cup {"idle"} : pc' = [pc EXCEPT ![c] = to]
  BY DEF StartSteps, StartStep, StartClients, StartExisting, StartPublish, StartReload,
     StartPlaying, StartAttach, StartRun
<1>5. ReadyStep(c) =>
        /\ pc[c] \in ReadySteps
        /\ \E to \in ReadySteps \cup {"idle", "startClients"} : pc' = [pc EXCEPT ![c] = to]
  BY DEF ReadySteps, ReadyStep, SetReady, ReadyBoth
<1>6. AgainStep(c) =>
        /\ pc[c] \in AgainSteps
        /\ \E to \in AgainSteps \cup {"idle", "startClients"} : pc' = [pc EXCEPT ![c] = to]
  BY DEF AgainSteps, AgainStep, SetRematch, AgainBoth, ResetForRematch, AgainClients,
     RemoveMatch
<1>7. CleanupStep(c) =>
        /\ pc[c] \in CleanupSteps
        /\ \E to \in CleanupSteps \cup {"closed"} : pc' = [pc EXCEPT ![c] = to]
  BY DEF CleanupSteps, CleanupStep, Cleanup, MarkDisconnected, SetWaitingReconnect,
     StartReconnectTimer, ForceSecondDisconnect, StopMatch, LeaveRoom, Unregister
<1> QED BY <1>1, <1>2, <1>3, <1>4, <1>5, <1>6, <1>7

\* The same as places: where a handler is before its step, and where it is after.
LEMMA Landings ==
  ASSUME TypeOK, NEW c \in Conns
  PROVE  /\ ClientStep(c) =>
              /\ pc[c] = "idle"
              /\ pc'[c] \in {"createAdd", "joinAdd", "readySet", "againSet",
                            "rejoinRemoveToken", "cleanup"}
         /\ JoinStep(c) =>
              pc[c] \in JoinSteps /\ pc'[c] \in JoinSteps \cup {"idle", "startClients"}
         /\ StartStep(c) => pc[c] \in StartSteps /\ pc'[c] \in StartSteps \cup {"idle"}
         /\ ReadyStep(c) =>
              pc[c] \in ReadySteps /\ pc'[c] \in ReadySteps \cup {"idle", "startClients"}
<1>1. \A to : pc' = [pc EXCEPT ![c] = to] => pc'[c] = to
  BY DEF TypeOK
<1>2. ClientStep(c) =>
        /\ pc[c] = "idle"
        /\ pc'[c] \in {"createAdd", "joinAdd", "readySet", "againSet",
                      "rejoinRemoveToken", "cleanup"}
  BY <1>1, Targets
<1>3. JoinStep(c) =>
        pc[c] \in JoinSteps /\ pc'[c] \in JoinSteps \cup {"idle", "startClients"}
  BY <1>1, Targets
<1>4. StartStep(c) => pc[c] \in StartSteps /\ pc'[c] \in StartSteps \cup {"idle"}
  BY <1>1, Targets
<1>5. ReadyStep(c) =>
        pc[c] \in ReadySteps /\ pc'[c] \in ReadySteps \cup {"idle", "startClients"}
  BY <1>1, Targets
<1> QED BY <1>2, <1>3, <1>4, <1>5

\* A connection moves, and is seated, only by a step of a connection.
LEMMA Movers ==
  ASSUME [Next]_vars
  PROVE  \/ UNCHANGED <<pc, seat>>
         \/ \E c \in Conns : \/ ClientStep(c) \/ JoinStep(c) \/ RejoinStep(c)
                             \/ StartStep(c) \/ ReadyStep(c) \/ AgainStep(c)
                             \/ CleanupStep(c)
BY DEF Next, HandlerStep, TimerStep, TimerFires, ReconnectExpires, TimerCloses, MatchStep,
   MatchGameOver, MatchTimeout, LoopExits, ApiStep, ApiCreateRoom, ApiJoinCheck,
   ApiAddPlayer, CleanupStaleRooms, CleanupStaleTokens, vars, connVars

\* Without play_again messages no handler of one ever runs.
LEMMA NobodyAgain ==
  ASSUME "play_again" \notin Kinds, TypeOK, NoAgain, [Next]_vars
  PROVE  NoAgain'
<1> USE DEF NoAgain
<1>1. ASSUME NEW c \in Conns, NEW to \in Labels \ AgainSteps, pc' = [pc EXCEPT ![c] = to]
      PROVE  NoAgain'
  BY <1>1 DEF TypeOK
<1>2. /\ {"createAdd", "joinAdd", "readySet", "rejoinRemoveToken", "cleanup"}
           \subseteq Labels \ AgainSteps
      /\ JoinSteps \cup RejoinSteps \cup StartSteps \cup ReadySteps \cup CleanupSteps
           \cup {"idle", "startClients", "cleanup", "closed"} \subseteq Labels \ AgainSteps
  BY DEF Labels, JoinSteps, RejoinSteps, StartSteps, ReadySteps, AgainSteps, CleanupSteps
<1>3. ASSUME NEW c \in Conns PROVE ~AgainStep(c)
  BY Targets
<1>4. ASSUME NEW c \in Conns, ClientStep(c) PROVE NoAgain'
  BY <1>1, <1>2, <1>4, Targets
<1>5. ASSUME NEW c \in Conns, JoinStep(c) \/ RejoinStep(c) \/ StartStep(c)
      PROVE  NoAgain'
  BY <1>1, <1>2, <1>5, Targets
<1>6. ASSUME NEW c \in Conns, ReadyStep(c) \/ CleanupStep(c)
      PROVE  NoAgain'
  BY <1>1, <1>2, <1>6, Targets
<1>7. CASE UNCHANGED pc
  BY <1>7
<1> QED BY <1>3, <1>4, <1>5, <1>6, <1>7, Movers

\* The steps of a connection that leaves the room.
Leaving == CleanupSteps \ {"cleanup"}

\* A connection without a seat closes at once.
LEMMA StaysLeaving ==
  ASSUME TypeOK, EnteringUnseated, LeavingSeated, [Next]_vars
  PROVE  LeavingSeated'
<1> USE DEF LeavingSeated
<1>1. ASSUME NEW c \in Conns, pc[c] \in Leaving, UNCHANGED seat PROVE seat'[c] # NoSeat
  BY <1>1 DEF Leaving
<1>2. ASSUME NEW c \in Conns, NEW d \in Conns, pc'[c] \in Leaving,
             WSAddPlayer(d) \/ RejoinRegister(d)
      PROVE  seat'[c] # NoSeat
  <2>1. c # d /\ pc'[c] = pc[c]
    BY <1>2 DEF WSAddPlayer, RejoinRegister, Goto, TypeOK, Leaving, CleanupSteps
  <2>2. seat'[c] = seat[c]
    BY <1>2, <2>1 DEF WSAddPlayer, RejoinRegister, TypeOK
  <2> QED BY <1>2, <2>1, <2>2 DEF Leaving
<1>3. ASSUME NEW c \in Conns, pc'[c] \in Leaving, pc[c] \notin Leaving
      PROVE  seat[c] # NoSeat
  <2>1. PICK d \in Conns : \/ ClientStep(d) \/ JoinStep(d) \/ RejoinStep(d) \/ StartStep(d)
                          \/ ReadyStep(d) \/ AgainStep(d) \/ CleanupStep(d)
    BY <1>3, Movers
  <2>2. ASSUME NEW to \in Labels \ Leaving, pc' = [pc EXCEPT ![d] = to] PROVE FALSE
    BY <1>3, <2>2 DEF TypeOK
  <2>3. /\ {"createAdd", "joinAdd", "readySet", "againSet", "rejoinRemoveToken", "cleanup"}
             \subseteq Labels \ Leaving
        /\ JoinSteps \cup RejoinSteps \cup StartSteps \cup ReadySteps \cup AgainSteps
             \cup {"idle", "startClients", "cleanup"} \subseteq Labels \ Leaving
    BY DEF Labels, Leaving, JoinSteps, RejoinSteps, StartSteps, ReadySteps, AgainSteps,
       CleanupSteps
  <2>4. ~ClientStep(d) /\ ~JoinStep(d) /\ ~RejoinStep(d)
    BY <2>2, <2>3, Targets
  <2>5. ~StartStep(d) /\ ~ReadyStep(d) /\ ~AgainStep(d)
    BY <2>2, <2>3, Targets
  <2>6. d = c /\ CleanupStep(c) /\ pc[c] = "cleanup"
    BY <1>3, <2>1, <2>4, <2>5, Targets DEF TypeOK, Leaving
  <2>7. Cleanup(c)
    BY <2>6 DEF CleanupStep, MarkDisconnected, SetWaitingReconnect, StartReconnectTimer,
       ForceSecondDisconnect, StopMatch, LeaveRoom, Unregister, Goto
  <2> QED
    BY <1>3, <2>7 DEF Cleanup, Look, Goto, Leaving, CleanupSteps, TypeOK
<1> QED
  BY <1>1, <1>2, <1>3, Writers DEF Leaving

-----------------------------------------------------------------------------
\* A closed connection stays closed.
LEMMA ClosedStays ==
  ASSUME TypeOK, [Next]_vars, NEW c \in Conns, pc[c] = "closed"
  PROVE  pc'[c] = "closed"
<1>1. ASSUME NEW d \in Conns, pc[d] # "closed", NEW to, pc' = [pc EXCEPT ![d] = to]
      PROVE  pc'[c] = "closed"
  BY <1>1 DEF TypeOK
<1>2. "closed" \notin JoinSteps \cup RejoinSteps \cup StartSteps \cup ReadySteps
                        \cup AgainSteps \cup CleanupSteps \cup {"idle"}
  BY DEF JoinSteps, RejoinSteps, StartSteps, ReadySteps, AgainSteps, CleanupSteps
<1>3. ASSUME NEW d \in Conns, ClientStep(d) \/ JoinStep(d) \/ RejoinStep(d)
      PROVE  pc'[c] = "closed"
  BY <1>1, <1>2, <1>3, Targets
<1>4. ASSUME NEW d \in Conns, StartStep(d) \/ ReadyStep(d)
      PROVE  pc'[c] = "closed"
  BY <1>1, <1>2, <1>4, Targets
<1>5. ASSUME NEW d \in Conns, AgainStep(d) \/ CleanupStep(d)
      PROVE  pc'[c] = "closed"
  BY <1>1, <1>2, <1>5, Targets
<1> QED BY <1>3, <1>4, <1>5, Movers

\* A connection keeps its seat.
LEMMA SeatStays ==
  ASSUME TypeOK, EnteringUnseated, [Next]_vars, NEW c \in Conns, seat[c] # NoSeat
  PROVE  seat'[c] = seat[c]
<1>1. ASSUME NEW d \in Conns, WSAddPlayer(d) \/ RejoinRegister(d) PROVE seat'[c] = seat[c]
  <2>1. seat[d] = NoSeat
    BY <1>1 DEF WSAddPlayer, RejoinRegister, Goto, EnteringUnseated, Entering
  <2> QED BY <1>1, <2>1 DEF WSAddPlayer, RejoinRegister, TypeOK
<1> QED BY <1>1, Writers

\* How a starter comes to have a controller to run: published by itself when the
\* registry was empty, or reloaded from the registry.
LEMMA EntersLaunch ==
  ASSUME TypeOK, [Next]_vars, NEW c \in Conns, pc'[c] \in Launching
  PROVE  \/ pc[c] \in Launching /\ mine'[c] = mine[c]
         \/ StartPublish(c) /\ regMatch = NoMatch
         \/ StartReload(c) /\ regMatch # NoMatch
<1>1. CASE pc'[c] = pc[c]
  <2>1. ASSUME NEW d \in Conns, StartPublish(d) \/ StartReload(d) \/ StartRun(d)
        PROVE  mine'[c] = mine[c]
    <3>1. pc'[d] # pc[d]
      BY <2>1 DEF StartPublish, StartReload, StartRun, Goto, TypeOK
    <3> QED BY <1>1, <2>1, <3>1 DEF StartPublish, StartReload, StartRun, TypeOK
  <2> QED BY <1>1, <2>1, Writers
<1>2. CASE pc'[c] # pc[c]
  <2>1. ASSUME NEW d \in Conns, NEW to \in Labels \ Launching, pc' = [pc EXCEPT ![d] = to]
        PROVE  FALSE
    BY <1>2, <2>1 DEF TypeOK
  <2>2. /\ {"createAdd", "joinAdd", "readySet", "againSet", "rejoinRemoveToken", "cleanup"}
             \subseteq Labels \ Launching
        /\ JoinSteps \cup RejoinSteps \cup ReadySteps \cup AgainSteps \cup CleanupSteps
             \cup {"idle", "startClients", "cleanup", "closed"} \subseteq Labels \ Launching
    BY DEF Labels, Launching, JoinSteps, RejoinSteps, StartSteps, ReadySteps, AgainSteps,
       CleanupSteps
  <2>3. ASSUME NEW d \in Conns PROVE ~ClientStep(d) /\ ~JoinStep(d) /\ ~RejoinStep(d)
    BY <2>1, <2>2, Targets
  <2>4. ASSUME NEW d \in Conns PROVE ~ReadyStep(d) /\ ~AgainStep(d) /\ ~CleanupStep(d)
    BY <2>1, <2>2, Targets
  <2>5. PICK d \in Conns : StartStep(d)
    BY <1>2, <2>3, <2>4, Movers
  <2>6. d = c
    BY <1>2, <2>5, Targets DEF TypeOK
  <2> QED
    BY <1>2, <2>5, <2>6 DEF StartStep, StartClients, StartExisting, StartPublish,
       StartReload, StartPlaying, StartAttach, StartRun, Goto, Launching, TypeOK, connVars
<1> QED BY <1>1, <1>2

\* While nobody has unregistered, starters run what the registry has.
LEMMA NextLaunch ==
  ASSUME "play_again" \notin Kinds, LaunchInv, [Next]_vars
  PROVE  LaunchInv'
<1> USE DEF LaunchInv
<1>1. TypeOK' /\ EnteringUnseated' /\ NoAgain' /\ LeavingSeated' /\ MatchesUsed'
  BY NextType, StaysUnseated, NobodyAgain, StaysLeaving, NextUsed
<1>2. SUFFICES ASSUME NobodyLeft' PROVE LaunchesRegistered' /\ OnlyRegistered'
  BY <1>1
<1>3. NobodyLeft
  BY <1>2, ClosedStays, SeatStays DEF NobodyLeft
<1>4. LaunchesRegistered /\ OnlyRegistered
  BY <1>3
<1>5. \/ regMatch' = regMatch
      \/ regMatch = NoMatch /\ \E c \in Conns : StartPublish(c)
  <2>1. ASSUME NEW c \in Conns, Unregister(c) PROVE regMatch' = regMatch
    <3>1. pc'[c] = "closed" /\ seat'[c] = seat[c] /\ seat[c] # NoSeat
      BY <2>1 DEF Unregister, Goto, LeavingSeated, CleanupSteps, TypeOK, connVars
    <3> QED BY <1>2, <3>1 DEF NobodyLeft
  <2>2. ASSUME NEW c \in Conns PROVE ~RemoveMatch(c)
    BY DEF RemoveMatch, Goto, NoAgain, AgainSteps
  <2>3. ASSUME NEW c \in Conns, StartPublish(c), regMatch # NoMatch
        PROVE  regMatch' = regMatch
    BY <2>3 DEF StartPublish
  <2> QED BY <2>1, <2>2, <2>3, Writers
<1>6. LaunchesRegistered'
  <2> SUFFICES ASSUME NEW c \in Conns, pc'[c] \in Launching
               PROVE  regMatch' # NoMatch /\ mine'[c] = regMatch'
    BY DEF LaunchesRegistered
  <2>1. CASE pc[c] \in Launching /\ mine'[c] = mine[c]
    BY <1>4, <1>5, <2>1 DEF LaunchesRegistered
  <2>2. CASE StartPublish(c) /\ regMatch = NoMatch
    BY <2>2, SessionAssumption DEF StartPublish, TypeOK
  <2>3. CASE StartReload(c) /\ regMatch # NoMatch
    BY <2>3 DEF StartReload, TypeOK, regVars
  <2> QED BY <2>1, <2>2, <2>3, EntersLaunch
<1>7. OnlyRegistered'
  <2> SUFFICES ASSUME NEW m \in Matches, loop'[m] # "none" PROVE m = regMatch'
    BY DEF OnlyRegistered
  <2>1. m # NoMatch
    BY SessionAssumption
  <2>2. CASE loop[m] # "none"
    BY <1>4, <1>5, <2>1, <2>2 DEF OnlyRegistered
  <2>3. CASE loop[m] = "none"
    <3>1. PICK c \in Conns : StartRun(c)
      BY <2>3, Writers DEF StartPublish, StopMatch, MatchStep, MatchGameOver, MatchTimeout,
         LoopExits, TypeOK
    <3>2. m = mine[c] /\ pc[c] \in Launching
      BY <2>3, <3>1 DEF StartRun, Start, Goto, Launching, TypeOK
    <3> QED BY <1>4, <1>5, <2>1, <3>2 DEF LaunchesRegistered
  <2> QED BY <2>2, <2>3
<1> QED BY <1>6, <1>7

\* However two players enter, with tokens too, and however many handlers start
\* the match at once: as long as nobody who had a seat has finished leaving, at
\* most one game advances.  SetMatchIfEmpty decides the race, and its loser goes
\* on with the winner's controller, which startOnce runs once.
THEOREM OneGameWhileNobodyLeft ==
  ASSUME "play_again" \notin Kinds
  PROVE  Spec => [](NobodyLeft => OneGame)
<1>1. Init => LaunchInv
  <2> SUFFICES ASSUME Init PROVE LaunchInv
    OBVIOUS
  <2>1. TypeOK /\ EnteringUnseated
    BY InitAddressed DEF SeatInv
  <2>2. NoAgain /\ LeavingSeated /\ LaunchesRegistered
    BY DEF Init, NoAgain, AgainSteps, LeavingSeated, CleanupSteps, LaunchesRegistered,
       Launching
  <2>3. MatchesUsed /\ OnlyRegistered
    BY DEF Init, MatchesUsed, OnlyRegistered
  <2> QED BY <2>1, <2>2, <2>3 DEF LaunchInv
<1>2. LaunchInv /\ [Next]_vars => LaunchInv'
  BY NextLaunch
<1>3. LaunchInv => (NobodyLeft => OneGame)
  BY DEF LaunchInv, OnlyRegistered, OneGame, Ticking
<1> QED BY <1>1, <1>2, <1>3, PTL DEF Spec

-----------------------------------------------------------------------------
\* The position of a connection is changed by a step of its own.
LEMMA OwnStep ==
  ASSUME TypeOK, [Next]_vars, NEW c \in Conns, pc'[c] # pc[c]
  PROVE  \/ ClientStep(c) \/ JoinStep(c) \/ RejoinStep(c) \/ StartStep(c)
         \/ ReadyStep(c) \/ AgainStep(c) \/ CleanupStep(c)
<1>1. PICK d \in Conns :
        \/ ClientStep(d) \/ JoinStep(d) \/ RejoinStep(d) \/ StartStep(d)
        \/ ReadyStep(d) \/ AgainStep(d) \/ CleanupStep(d)
  BY Movers
<1>2. \E to : pc' = [pc EXCEPT ![d] = to]
  BY <1>1, Targets
<1>3. d = c
  BY <1>2 DEF TypeOK
<1> QED BY <1>1, <1>3

\* Without rejoin messages no HTTP request is handled: nobody could use its token.
LEMMA NobodyRequests ==
  ASSUME "rejoin" \notin Kinds, NoRequests, [Next]_vars
  PROVE  NoRequests'
<1>1. ASSUME NEW r \in Reqs PROVE ~ApiStep(r)
  BY DEF NoRequests, ApiStep, ApiCreateRoom, ApiJoinCheck, ApiAddPlayer
<1>2. ASSUME NEW c \in Conns, ClientStep(c) \/ JoinStep(c) \/ RejoinStep(c) PROVE UNCHANGED api
  BY <1>2 DEF ClientStep, WSCreateRoom, WSJoinRoom, Ready, PlayAgain, Drop, Rejoin, JoinStep,
     WSAddPlayer, WSRegister, JoinCheck, RejoinStep, RejoinRemoveToken, RejoinClosed,
     RejoinWaiting, RejoinRegister, TryResumeMatch, RejoinMatch, RejoinClients, Look
<1>3. ASSUME NEW c \in Conns, StartStep(c) \/ ReadyStep(c) \/ AgainStep(c) PROVE UNCHANGED api
  BY <1>3 DEF StartStep, StartClients, StartExisting, StartPublish, StartReload, StartPlaying,
     StartAttach, StartRun, ReadyStep, SetReady, ReadyBoth, AgainStep, SetRematch, AgainBoth,
     ResetForRematch, AgainClients, RemoveMatch, Look
<1>4. ASSUME NEW c \in Conns, CleanupStep(c) PROVE UNCHANGED api
  BY <1>4 DEF CleanupStep, Cleanup, MarkDisconnected, SetWaitingReconnect,
     StartReconnectTimer, ForceSecondDisconnect, StopMatch, LeaveRoom, Unregister, Look
<1>5. ASSUME \/ \E t \in Timers : TimerStep(t)
             \/ \E m \in Matches : MatchStep(m)
             \/ CleanupStaleRooms \/ CleanupStaleTokens
             \/ UNCHANGED vars
      PROVE  UNCHANGED api
  BY <1>5 DEF TimerStep, TimerFires, ReconnectExpires, TimerCloses, MatchStep,
     MatchGameOver, MatchTimeout, LoopExits, CleanupStaleRooms, CleanupStaleTokens, vars
<1> QED BY <1>1, <1>2, <1>3, <1>4, <1>5 DEF Next, HandlerStep, NoRequests

\* Handlers that start a match, or get ready, have a seat.
LEMMA StaysSeated ==
  ASSUME TypeOK, EnteringUnseated, NoRejoining, NoAgain, HandlersSeated, [Next]_vars
  PROVE  HandlersSeated'
<1> SUFFICES ASSUME NEW c \in Conns, pc'[c] \in SeatedSteps PROVE seat'[c] # NoSeat
  BY DEF HandlersSeated
<1>1. CASE pc[c] \in SeatedSteps
  BY <1>1, SeatStays DEF HandlersSeated
<1>2. CASE pc[c] \notin SeatedSteps
  <2>1. ~StartStep(c) /\ ~ReadyStep(c)
    BY <1>2, Targets DEF SeatedSteps
  <2>2. ~RejoinStep(c) /\ ~AgainStep(c)
    BY Targets DEF NoRejoining, NoAgain
  <2>3. ~CleanupStep(c)
    BY Targets DEF SeatedSteps, StartSteps, ReadySteps, CleanupSteps, TypeOK
  <2>4. CASE ClientStep(c)
    <3>1. Ready(c)
      BY <2>4 DEF ClientStep, WSCreateRoom, WSJoinRoom, PlayAgain, Drop, Rejoin, Look, Goto,
         SeatedSteps, StartSteps, ReadySteps, TypeOK
    <3> QED BY <3>1 DEF Ready, Look, connVars
  <2>5. CASE JoinStep(c)
    <3>1. WSAddPlayer(c)
      BY <1>2, <2>5 DEF JoinStep, WSRegister, JoinCheck, Look, Goto, SeatedSteps
    <3> QED BY <3>1 DEF WSAddPlayer, Goto, SeatedSteps, StartSteps, ReadySteps, Seats, NoSeat, TypeOK
  <2> QED BY <1>2, <2>1, <2>2, <2>3, <2>4, <2>5, OwnStep
<1> QED BY <1>1, <1>2

\* A start is begun when both players were seen connected.
LEMMA EntersStart ==
  ASSUME TypeOK, NoRejoining, NoAgain, [Next]_vars,
         NEW c \in Conns, pc'[c] \in StartSteps, pc[c] \notin StartSteps
  PROVE  BothConnected
<1>1. ~StartStep(c) /\ ~RejoinStep(c) /\ ~AgainStep(c)
  BY Targets DEF NoRejoining, NoAgain
<1>2. ~ClientStep(c) /\ ~CleanupStep(c)
  <2>1. CleanupSteps \cup {"closed"} \subseteq Labels \ StartSteps
    BY DEF Labels, CleanupSteps, StartSteps
  <2>2. ~CleanupStep(c)
    BY <2>1, Targets DEF TypeOK
  <2>3. ~ClientStep(c)
    BY Targets DEF StartSteps, TypeOK
  <2> QED BY <2>2, <2>3
<1>3. JoinCheck(c) \/ ReadyBoth(c)
  BY <1>1, <1>2, OwnStep DEF JoinStep, ReadyStep, WSAddPlayer, WSRegister, SetReady, Goto,
     StartSteps, TypeOK
<1> QED BY <1>3 DEF JoinCheck, ReadyBoth, BothReady, Look, Goto, StartSteps, TypeOK

\* Which steps write the players' flags and seats, without rejoin and rematch.
LEMMA PlayerWriters ==
  ASSUME NoRejoining, NoAgain, NoRequests, [Next]_vars
  PROVE  \/ UNCHANGED <<player, seat>>
         \/ \E c \in Conns, s \in Seats :
              /\ AddPlayer(s) /\ seat' = [seat EXCEPT ![c] = s]
              /\ \E to \in {"createRegister", "joinRegister"} : pc' = [pc EXCEPT ![c] = to]
         \/ /\ UNCHANGED seat
            /\ \E c \in Conns : SetReady(c) \/ MarkDisconnected(c) \/ LeaveRoom(c)
<1>1. ASSUME NEW r \in Reqs PROVE ~ApiStep(r) \/ UNCHANGED <<player, seat>>
  BY DEF NoRequests, ApiStep, ApiCreateRoom, CreateRoom, ApiJoinCheck, ApiAddPlayer, connVars, roomVars
<1>2. ASSUME NEW c \in Conns PROVE ~RejoinStep(c) /\ ~AgainStep(c)
  BY Targets DEF NoRejoining, NoAgain
<1>3. ASSUME NEW c \in Conns, ClientStep(c) \/ StartStep(c) PROVE UNCHANGED <<player, seat>>
  BY <1>3 DEF ClientStep, WSCreateRoom, CreateRoom, WSJoinRoom, Ready, PlayAgain, Drop, Rejoin,
     StartStep, StartClients, StartExisting, StartPublish, StartReload, StartPlaying,
     StartAttach, StartRun, Look, connVars, roomVars
<1>4. ASSUME NEW c \in Conns, JoinStep(c)
      PROVE  \/ UNCHANGED <<player, seat>>
             \/ \E s \in Seats :
                  /\ AddPlayer(s) /\ seat' = [seat EXCEPT ![c] = s]
                  /\ \E to \in {"createRegister", "joinRegister"} : pc' = [pc EXCEPT ![c] = to]
  BY <1>4 DEF JoinStep, WSAddPlayer, WSRegister, JoinCheck, Look, Goto, connVars, roomVars
<1>5. ASSUME NEW c \in Conns, ReadyStep(c)
      PROVE  UNCHANGED seat /\ (UNCHANGED player \/ SetReady(c))
  BY <1>5 DEF ReadyStep, SetReady, ReadyBoth, Look, connVars, roomVars
<1>6. ASSUME NEW c \in Conns, CleanupStep(c)
      PROVE  UNCHANGED seat /\ (UNCHANGED player \/ MarkDisconnected(c) \/ LeaveRoom(c))
  BY <1>6 DEF CleanupStep, Cleanup, MarkDisconnected, SetWaitingReconnect,
     StartReconnectTimer, ForceSecondDisconnect, StopMatch, LeaveRoom, Unregister, Look,
     connVars, roomVars
<1>7. ASSUME \/ \E t \in Timers : TimerStep(t)
             \/ \E m \in Matches : MatchStep(m)
             \/ CleanupStaleRooms \/ CleanupStaleTokens
             \/ UNCHANGED vars
      PROVE  UNCHANGED <<player, seat>>
  BY <1>7 DEF TimerStep, TimerFires, ReconnectExpires, TimerCloses, MatchStep,
     MatchGameOver, MatchTimeout, LoopExits, CleanupStaleRooms, CleanupStaleTokens, vars,
     roomVars, connVars
<1>8. \/ UNCHANGED <<player, seat>>
      \/ \E c \in Conns : \/ ClientStep(c) \/ JoinStep(c) \/ RejoinStep(c) \/ StartStep(c)
                          \/ ReadyStep(c) \/ AgainStep(c) \/ CleanupStep(c)
  BY <1>1, <1>7 DEF Next, HandlerStep
<1> QED BY <1>2, <1>3, <1>4, <1>5, <1>6, <1>8

\* Who is marked stays so; MarkDisconnected and LeaveRoom mark.
LEMMA EntersMarked ==
  ASSUME TypeOK, NoRejoining, NoAgain, [Next]_vars, NEW c \in Conns, seat[c] # NoSeat
  PROVE  /\ pc[c] \in Marked => pc'[c] \in Marked
         /\ pc'[c] \in Marked /\ pc[c] \notin Marked => MarkDisconnected(c) \/ LeaveRoom(c)
<1> DEFINE Kept == /\ pc[c] \in Marked => pc'[c] \in Marked
                   /\ pc'[c] \in Marked /\ pc[c] \notin Marked =>
                        MarkDisconnected(c) \/ LeaveRoom(c)
<1>1. CASE pc'[c] = pc[c]
  BY <1>1
<1>2. ASSUME ClientStep(c) \/ JoinStep(c) PROVE Kept
  <2>1. pc[c] \notin Marked /\ pc'[c] \notin Marked
    BY <1>2, Landings DEF Marked, JoinSteps
  <2> QED BY <2>1
<1>3. ASSUME StartStep(c) \/ ReadyStep(c) PROVE Kept
  <2>1. pc[c] \notin Marked /\ pc'[c] \notin Marked
    BY <1>3, Landings DEF Marked, StartSteps, ReadySteps
  <2> QED BY <2>1
<1>4. ~RejoinStep(c) /\ ~AgainStep(c)
  BY Targets DEF NoRejoining, NoAgain
<1>5. ASSUME Cleanup(c) PROVE Kept
  BY <1>5 DEF Cleanup, Look, Goto, Marked, TypeOK
<1>6. ASSUME MarkDisconnected(c) \/ LeaveRoom(c) PROVE Kept
  BY <1>6 DEF MarkDisconnected, LeaveRoom, Goto, Marked, TypeOK
<1>7. ASSUME \/ SetWaitingReconnect(c) \/ StartReconnectTimer(c)
             \/ ForceSecondDisconnect(c) \/ StopMatch(c) \/ Unregister(c)
      PROVE  Kept
  BY <1>7 DEF SetWaitingReconnect, StartReconnectTimer, ForceSecondDisconnect, StopMatch,
     Unregister, Goto, Marked, TypeOK
<1> QED BY <1>1, <1>2, <1>3, <1>4, <1>5, <1>6, <1>7, OwnStep DEF CleanupStep

\* AddPlayer sets the flags of one seat.
LEMMA SeatFlags ==
  ASSUME TypeOK, NEW s \in Seats, NEW t \in Seats, AddPlayer(t)
  PROVE  /\ s # t => player'[s] = player[s]
         /\ s = t => player'[s].seated /\ player'[s].connected
BY DEF AddPlayer, NewPlayer, NoPlayer, TypeOK

\* SetReady changes neither who is seated nor who is connected.
LEMMA ReadyFlags ==
  ASSUME TypeOK, NEW s \in Seats, NEW c \in Conns, SetReady(c)
  PROVE  /\ player'[s].connected <=> player[s].connected
         /\ player'[s].seated <=> player[s].seated
<1>0. player[s] \in Player
  BY DEF TypeOK
<1>1. CASE UNCHANGED player
  BY <1>1
<1>2. CASE player' = [player EXCEPT ![seat[c]].ready = TRUE]
  BY <1>0, <1>2 DEF Player, TypeOK
<1> QED BY <1>1, <1>2 DEF SetReady

\* Leaving disconnects the player of one seat, and leaves the seats taken.
LEMMA LeaveFlags ==
  ASSUME TypeOK, NEW s \in Seats, NEW c \in Conns, MarkDisconnected(c) \/ LeaveRoom(c)
  PROVE  /\ player'[s].connected <=> player[s].connected /\ s # seat[c]
         /\ player'[s].seated <=> player[s].seated
<1>0. player[s] \in Player
  BY DEF TypeOK
<1>1. player' = [player EXCEPT ![seat[c]].connected = FALSE]
  BY DEF MarkDisconnected, LeaveRoom, RemovePlayer
<1> QED BY <1>0, <1>1 DEF Player, TypeOK

\* The connected flag tells whether the connection of the seat is leaving.
LEMMA NextConnected ==
  ASSUME "rejoin" \notin Kinds, "play_again" \notin Kinds,
         ExclusiveInv, NoAgain, NoRequests, LeavingSeated, ConnectedSits, [Next]_vars
  PROVE  ConnectedSits'
<1> USE DEF ExclusiveInv, SeatInv
<1>0. SeatExclusive'
  BY NextExclusive
<1>1. ASSUME NEW c \in Conns, seat'[c] # NoSeat
      PROVE  player'[seat'[c]].connected <=> pc'[c] \notin Marked
  <2>1. CASE UNCHANGED <<player, seat>>
    <3>1. seat[c] # NoSeat /\ seat[c] \in Seats
      BY <1>1, <2>1 DEF TypeOK
    <3>2. ASSUME MarkDisconnected(c) \/ LeaveRoom(c) PROVE ~player[seat[c]].connected
      <4>1. ~player'[seat[c]].connected
        BY <3>1, <3>2, LeaveFlags
      <4> QED BY <2>1, <4>1
    <3>3. pc[c] \in Marked => pc'[c] \in Marked
      BY <3>1, EntersMarked
    <3>4. pc'[c] \in Marked /\ pc[c] \notin Marked => ~player[seat[c]].connected
      BY <3>1, <3>2, EntersMarked
    <3>5. player[seat[c]].connected <=> pc[c] \notin Marked
      BY <3>1 DEF ConnectedSits
    <3>6. player'[seat'[c]] = player[seat[c]]
      BY <2>1
    <3> QED BY <3>3, <3>4, <3>5, <3>6
  <2>2. ASSUME NEW d \in Conns, NEW s \in Seats, AddPlayer(s), seat' = [seat EXCEPT ![d] = s],
               NEW to \in {"createRegister", "joinRegister"}, pc' = [pc EXCEPT ![d] = to]
        PROVE  player'[seat'[c]].connected <=> pc'[c] \notin Marked
    <3>1. CASE c = d
      <4>1. seat'[c] = s /\ pc'[c] = to
        BY <2>2, <3>1 DEF TypeOK
      <4>2. player'[s].connected
        BY <2>2, SeatFlags
      <4> QED BY <4>1, <4>2 DEF Marked
    <3>2. CASE c # d
      <4>1. seat'[c] = seat[c] /\ pc'[c] = pc[c] /\ seat'[d] = s
        BY <2>2, <3>2 DEF TypeOK
      <4>2. seat[c] # s /\ seat[c] \in Seats
        BY <1>0, <1>1, <3>2, <4>1 DEF TypeOK, SeatExclusive
      <4>3. player'[seat[c]] = player[seat[c]]
        BY <2>2, <4>2, SeatFlags
      <4>4. player[seat[c]].connected <=> pc[c] \notin Marked
        BY <4>2 DEF ConnectedSits, Seats, NoSeat
      <4> QED BY <4>1, <4>3, <4>4
    <3> QED BY <3>1, <3>2
  <2>3. ASSUME NEW d \in Conns, SetReady(d), UNCHANGED seat
        PROVE  player'[seat'[c]].connected <=> pc'[c] \notin Marked
    <3>1. pc'[c] \in Marked <=> pc[c] \in Marked
      BY <2>3 DEF SetReady, Goto, Marked, TypeOK
    <3>2. seat'[c] = seat[c] /\ seat[c] \in Seats
      BY <1>1, <2>3 DEF TypeOK
    <3>3. player'[seat[c]].connected <=> player[seat[c]].connected
      BY <2>3, <3>2, ReadyFlags
    <3>4. player[seat[c]].connected <=> pc[c] \notin Marked
      BY <3>2 DEF ConnectedSits, Seats, NoSeat
    <3> QED BY <3>1, <3>2, <3>3, <3>4
  <2>4. ASSUME NEW d \in Conns, MarkDisconnected(d) \/ LeaveRoom(d), UNCHANGED seat
        PROVE  player'[seat'[c]].connected <=> pc'[c] \notin Marked
    <3>0. seat'[c] = seat[c] /\ seat[c] \in Seats /\ seat[c] # NoSeat
      BY <1>1, <2>4 DEF TypeOK
    <3>1. player'[seat[c]].connected <=> player[seat[c]].connected /\ seat[c] # seat[d]
      BY <2>4, <3>0, LeaveFlags
    <3>2. CASE c = d
      <4>1. pc'[c] \in Marked
        BY <2>4, <3>2 DEF MarkDisconnected, LeaveRoom, Goto, Marked, TypeOK
      <4> QED BY <3>0, <3>1, <3>2, <4>1
    <3>3. CASE c # d
      <4>1. pc'[c] = pc[c]
        BY <2>4, <3>3 DEF MarkDisconnected, LeaveRoom, Goto, TypeOK
      <4>2. seat[c] # seat[d]
        BY <3>0, <3>3 DEF SeatExclusive
      <4>3. player[seat[c]].connected <=> pc[c] \notin Marked
        BY <3>0 DEF ConnectedSits
      <4> QED BY <3>0, <3>1, <4>1, <4>2, <4>3
    <3> QED BY <3>2, <3>3
  <2> QED BY <2>1, <2>2, <2>3, <2>4, PlayerWriters
<1>2. ASSUME NEW s \in Seats, player'[s].connected PROVE \E c \in Conns : seat'[c] = s
  <2>1. CASE player[s].connected
    <3>1. PICK c \in Conns : seat[c] = s
      BY <2>1 DEF ConnectedSits
    <3> QED BY <3>1, SeatStays DEF Seats, NoSeat
  <2>2. CASE ~player[s].connected
    <3>1. ASSUME NEW d \in Conns, SetReady(d) \/ MarkDisconnected(d) \/ LeaveRoom(d)
          PROVE  FALSE
      BY <1>2, <2>2, <3>1, ReadyFlags, LeaveFlags
    <3>2. PICK d \in Conns, t \in Seats : AddPlayer(t) /\ seat' = [seat EXCEPT ![d] = t]
      BY <1>2, <2>2, <3>1, PlayerWriters
    <3>3. s = t
      BY <1>2, <2>2, <3>2, SeatFlags
    <3> QED BY <3>2, <3>3 DEF TypeOK
  <2> QED BY <2>1, <2>2
<1> QED BY <1>1, <1>2 DEF ConnectedSits

\* A player who left stays disconnected: seats are not given out again.
LEMMA GoneStays ==
  ASSUME TypeOK, NoRejoining, NoAgain, NoRequests, [Next]_vars,
         NEW s \in Seats, player[s].seated, ~player[s].connected
  PROVE  player'[s].seated /\ ~player'[s].connected
<1>1. ASSUME NEW t \in Seats, AddPlayer(t) PROVE player'[s] = player[s]
  BY <1>1, SeatFlags DEF AddPlayer, FreeSeat
<1>2. ASSUME NEW c \in Conns, SetReady(c) \/ MarkDisconnected(c) \/ LeaveRoom(c)
      PROVE  player'[s].seated /\ ~player'[s].connected
  BY <1>2, ReadyFlags, LeaveFlags
<1> QED BY <1>1, <1>2, PlayerWriters

\* Once nothing can start, nothing ever starts.
LEMMA FinishedStays ==
  ASSUME TypeOK, NoRejoining, NoAgain, NoRequests, [Next]_vars
  PROVE  /\ SomebodyGone => SomebodyGone'
         /\ Finished => Finished'
<1>1. SomebodyGone => SomebodyGone'
  BY GoneStays DEF SomebodyGone
<1>2. ASSUME Finished PROVE NobodyStarts'
  <2>1. ~BothConnected
    BY <1>2 DEF Finished, SomebodyGone, BothConnected
  <2> QED BY <1>2, <2>1, EntersStart DEF Finished, NobodyStarts
<1> QED BY <1>1, <1>2 DEF Finished

-----------------------------------------------------------------------------
\* Who leaves and sees the other player disconnected knows that nobody starts.
LEMMA LastOne ==
  ASSUME MatchInv, NEW c \in Conns, seat[c] # NoSeat, pc[c] \notin StartSteps,
         ~player[Other(seat[c])].connected
  PROVE  NobodyStarts
<1> SUFFICES ASSUME NEW d \in Conns, pc[d] \in StartSteps PROVE FALSE
  BY DEF NobodyStarts
<1>1. seat[d] # NoSeat
  BY DEF MatchInv, HandlersSeated, SeatedSteps
<1>2. seat[d] \in {1, 2} /\ seat[c] \in {1, 2} /\ seat[d] # seat[c]
  BY <1>1 DEF MatchInv, ExclusiveInv, SeatInv, SeatExclusive, TypeOK, Seats, NoSeat
<1>3. seat[d] = Other(seat[c])
  BY <1>2 DEF Other
<1>4. pc[d] \notin Marked
  BY DEF StartSteps, Marked
<1> QED BY <1>1, <1>3, <1>4 DEF MatchInv, ConnectedSits

\* Who is marked leaves a seat with a disconnected player.
LEMMA GoneSeat ==
  ASSUME MatchInv, NEW c \in Conns, seat[c] # NoSeat, pc[c] \in Marked
  PROVE  SomebodyGone
<1>1. seat[c] \in Seats
  BY DEF MatchInv, ExclusiveInv, SeatInv, TypeOK
<1>2. player[seat[c]].seated
  BY DEF MatchInv, ExclusiveInv, SittingOnSeat
<1>3. ~player[seat[c]].connected
  BY DEF MatchInv, ConnectedSits
<1> QED BY <1>1, <1>2, <1>3 DEF SomebodyGone

\* Whatever makes the room wait, somebody is gone.
LEMMA NextWaits ==
  ASSUME MatchInv, [Next]_vars
  PROVE  WaitsForSomebody'
<1> SUFFICES ASSUME rstate' = "WaitingReconnect" PROVE SomebodyGone'
  BY DEF WaitsForSomebody
<1>1. SomebodyGone => SomebodyGone'
  BY FinishedStays DEF MatchInv, ExclusiveInv, SeatInv
<1>2. ASSUME NEW c \in Conns PROVE ~ResetForRematch(c)
  BY DEF ResetForRematch, Goto, MatchInv, NoAgain, AgainSteps
<1>3. ASSUME NEW c \in Conns, SetWaitingReconnect(c) PROVE SomebodyGone
  <2>1. pc[c] = "leaveWait" /\ seat[c] # NoSeat
    BY <1>3 DEF SetWaitingReconnect, Goto, MatchInv, LeavingSeated, CleanupSteps
  <2> QED BY <2>1, GoneSeat DEF Marked
<1> QED BY <1>1, <1>2, <1>3, RoomWriters DEF MatchInv, WaitsForSomebody

\* Who becomes the last one out leaves a room where nothing starts.
LEMMA NextAlone ==
  ASSUME MatchInv, [Next]_vars
  PROVE  LeavesAlone'
<1> SUFFICES ASSUME NEW c \in Conns, pc'[c] \in Alone PROVE Finished'
  BY DEF LeavesAlone
<1>0. TypeOK /\ NoRejoining /\ NoAgain
  BY DEF MatchInv, ExclusiveInv, SeatInv
<1>1. Finished => Finished'
  BY FinishedStays DEF MatchInv, ExclusiveInv, SeatInv
<1>2. CASE pc[c] \in Alone
  BY <1>1, <1>2 DEF MatchInv, LeavesAlone
<1>3. CASE pc[c] \notin Alone
  <2>1. ~ClientStep(c) /\ ~JoinStep(c) /\ ~StartStep(c) /\ ~ReadyStep(c)
    BY <1>0, <1>3, Landings DEF Alone, JoinSteps, StartSteps, ReadySteps
  <2>2. ~RejoinStep(c) /\ ~AgainStep(c)
    BY <1>0, Targets DEF NoRejoining, NoAgain
  <2>3. CleanupStep(c)
    BY <1>3, <1>0, <2>1, <2>2, OwnStep
  <2>4. CASE Cleanup(c)
    <3>1. seat[c] # NoSeat /\ rstate = "WaitingReconnect" /\ pc[c] = "cleanup"
      BY <1>0, <2>4 DEF Cleanup, Look, Goto, Alone, TypeOK
    <3>2. SomebodyGone
      BY <3>1 DEF MatchInv, WaitsForSomebody
    <3>3. player[seat[c]].connected /\ seat[c] \in {1, 2}
      BY <1>0, <3>1 DEF MatchInv, ConnectedSits, Marked, TypeOK, Seats, NoSeat
    <3>4. ~player[Other(seat[c])].connected
      BY <3>2, <3>3 DEF SomebodyGone, Other, Seats
    <3>5. NobodyStarts
      BY <3>1, <3>4, LastOne DEF StartSteps
    <3> QED BY <1>1, <3>2, <3>5 DEF Finished
  <2>5. CASE SetWaitingReconnect(c)
    <3>1. seat[c] # NoSeat /\ pc[c] = "leaveWait" /\ EmptyWithout(seat[c])
      BY <1>0, <2>5 DEF SetWaitingReconnect, Goto, Alone, TypeOK, MatchInv, LeavingSeated,
         CleanupSteps
    <3>2. NobodyStarts /\ SomebodyGone
      BY <3>1, LastOne, GoneSeat DEF EmptyWithout, StartSteps, Marked
    <3> QED BY <1>1, <3>2 DEF Finished
  <2>6. CASE LeaveRoom(c)
    <3>1. seat[c] # NoSeat /\ pc[c] = "quitRemove" /\ EmptyWithout(seat[c])
      BY <1>0, <1>3, <2>6 DEF LeaveRoom, Goto, Alone, TypeOK, MatchInv, LeavingSeated,
         CleanupSteps
    <3>2. NobodyStarts
      BY <3>1, LastOne DEF EmptyWithout, StartSteps
    <3>3. \A d \in Conns : pc'[d] \notin StartSteps
      BY <1>0, <2>6, <3>2 DEF LeaveRoom, Goto, NobodyStarts, StartSteps, TypeOK
    <3>4. seat[c] \in Seats /\ player[seat[c]].seated
      BY <1>0, <3>1 DEF TypeOK, MatchInv, ExclusiveInv, SittingOnSeat
    <3>5. player'[seat[c]].seated /\ ~player'[seat[c]].connected
      BY <1>0, <2>6, <3>4, LeaveFlags
    <3> QED BY <3>3, <3>4, <3>5 DEF Finished, NobodyStarts, SomebodyGone
  <2> QED
    BY <1>0, <1>3, <2>3, <2>4, <2>5, <2>6 DEF CleanupStep, MarkDisconnected,
       StartReconnectTimer, ForceSecondDisconnect, StopMatch, Unregister, Goto, Alone, TypeOK
<1> QED BY <1>2, <1>3

\* The registered controller is set once, by the first that is published, and
\* cleared once, by the last one out.
LEMMA RegisteredMatch ==
  ASSUME MatchInv, [Next]_vars
  PROVE  \/ regMatch' = regMatch
         \/ /\ regMatch = NoMatch /\ ~Used
            /\ \E c \in Conns : StartPublish(c) /\ regMatch' \in Matches /\ mine'[c] = regMatch'
         \/ /\ regMatch' = NoMatch /\ Finished
            /\ \E c \in Conns : Unregister(c) /\ pc[c] = "unregisterEmpty"
<1>1. ASSUME NEW c \in Conns PROVE ~RemoveMatch(c)
  BY DEF RemoveMatch, Goto, MatchInv, NoAgain, AgainSteps
<1>2. ASSUME NEW c \in Conns, StartPublish(c), regMatch' # regMatch
      PROVE  regMatch = NoMatch /\ ~Used /\ regMatch' \in Matches /\ mine'[c] = regMatch'
  <2>1. regMatch = NoMatch /\ regMatch' \in Matches /\ mine'[c] = regMatch'
    BY <1>2 DEF StartPublish, MatchInv, ExclusiveInv, SeatInv, TypeOK
  <2>2. ~NobodyStarts
    BY <1>2 DEF StartPublish, Goto, NobodyStarts, StartSteps
  <2> QED BY <2>1, <2>2 DEF MatchInv, ClearedFinished, Finished
<1>3. ASSUME NEW c \in Conns, Unregister(c), regMatch' # regMatch
      PROVE  regMatch' = NoMatch /\ Finished /\ pc[c] = "unregisterEmpty"
  BY <1>3 DEF Unregister, Goto, MatchInv, LeavesAlone, Alone
<1> QED BY <1>1, <1>2, <1>3, Writers

\* When nothing can start, no controller is created, registered or run.
LEMMA FinishedMatch ==
  ASSUME MatchInv, [Next]_vars, Finished
  PROVE  /\ Finished'
         /\ regMatch' \in {regMatch, NoMatch}
         /\ \A m \in Matches : mstate'[m] # "unused" => mstate[m] # "unused"
         /\ \A c \in Conns : ~StartRun(c)
<1>1. ASSUME NEW c \in Conns PROVE ~StartPublish(c) /\ ~StartRun(c)
  BY DEF StartPublish, StartRun, Goto, Finished, NobodyStarts, StartSteps
<1>2. Finished'
  BY FinishedStays DEF MatchInv, ExclusiveInv, SeatInv
<1>3. regMatch' \in {regMatch, NoMatch}
  BY <1>1, RegisteredMatch
<1>4. ASSUME NEW m \in Matches, mstate'[m] # "unused" PROVE mstate[m] # "unused"
  <2>1. ASSUME NEW c \in Conns, StopMatch(c) PROVE mstate[m] # "unused"
    BY <1>4, <2>1 DEF StopMatch, Stop, MatchInv, MatchesUsed, ExclusiveInv, SeatInv, TypeOK
  <2>2. ASSUME NEW n \in Matches, MatchStep(n) PROVE mstate[m] # "unused"
    BY <1>4, <2>2 DEF MatchStep, MatchGameOver, MatchTimeout, LoopExits, MatchInv,
       ExclusiveInv, SeatInv, TypeOK
  <2> QED BY <1>1, <1>4, <2>1, <2>2, Writers
<1> QED BY <1>1, <1>2, <1>3, <1>4

\* The registry is cleared only when nothing can start any more.
LEMMA NextCleared ==
  ASSUME MatchInv, [Next]_vars
  PROVE  ClearedFinished'
<1> SUFFICES ASSUME regMatch' = NoMatch, Used' PROVE Finished'
  BY DEF ClearedFinished
<1>1. CASE Finished
  BY <1>1, FinishedMatch
<1>2. CASE ~Finished
  <2>1. regMatch = NoMatch /\ ~Used
    BY <1>2, RegisteredMatch, SessionAssumption DEF MatchInv, ClearedFinished
  <2>2. PICK m \in Matches : mstate'[m] # "unused" /\ mstate[m] = "unused"
    BY <2>1 DEF Used
  <2>3. ASSUME NEW c \in Conns PROVE ~StartPublish(c)
    BY <2>1, SessionAssumption DEF StartPublish
  <2>4. ASSUME NEW c \in Conns PROVE ~StopMatch(c)
    BY <2>1, <2>2 DEF StopMatch, Stop, Used, MatchInv, MatchesUsed, ExclusiveInv, SeatInv,
       TypeOK
  <2>5. ASSUME NEW c \in Conns PROVE ~StartRun(c)
    BY <2>1 DEF StartRun, Goto, MatchInv, LaunchesRegistered, Launching
  <2>6. ASSUME NEW n \in Matches, MatchStep(n) PROVE FALSE
    BY <2>2, <2>6 DEF MatchStep, MatchGameOver, MatchTimeout, LoopExits, MatchInv,
       ExclusiveInv, SeatInv, TypeOK
  <2> QED BY <2>2, <2>3, <2>4, <2>5, <2>6, Writers
<1> QED BY <1>1, <1>2

\* The loop that a step begins is that of the registered controller.
LEMMA NewLoop ==
  ASSUME MatchInv, [Next]_vars, NEW m \in Matches, loop'[m] # "none"
  PROVE  \/ loop[m] # "none" /\ (loop'[m] = "live" => loop[m] = "live")
         \/ regMatch' = regMatch /\ regMatch = m
<1> USE DEF MatchInv, ExclusiveInv, SeatInv
<1>1. ASSUME NEW c \in Conns, StartRun(c), loop'[m] # loop[m]
      PROVE  regMatch' = regMatch /\ regMatch = m
  <2>1. m = mine[c] /\ pc[c] \in Launching
    BY <1>1 DEF StartRun, Start, Goto, Launching, TypeOK
  <2> QED BY <1>1, <2>1 DEF LaunchesRegistered, StartRun, regVars
<1>2. ASSUME NEW n \in Matches, MatchStep(n)
      PROVE  loop[m] # "none" /\ (loop'[m] = "live" => loop[m] = "live")
  BY <1>2 DEF MatchStep, MatchGameOver, MatchTimeout, LoopExits, TypeOK
<1>3. ASSUME NEW c \in Conns, StartPublish(c) \/ StopMatch(c) PROVE UNCHANGED loop
  BY <1>3 DEF StartPublish, StopMatch
<1> QED BY <1>1, <1>2, <1>3, Writers

\* One controller is run at most, and starters and connections have no other.
LEMMA NextStarted ==
  ASSUME MatchInv, [Next]_vars
  PROVE  Started' /\ ClearedStopped' /\ LaunchesRegistered' /\ OwnMatch'
<1> USE DEF MatchInv, ExclusiveInv, SeatInv
<1>0. \A m \in Matches : m # NoMatch
  BY SessionAssumption
<1>1. ASSUME NEW m \in Matches, loop'[m] # "none", regMatch' # NoMatch
      PROVE  m = regMatch'
  <2>1. CASE loop[m] # "none"
    <3>1. Used
      BY <2>1 DEF MatchesUsed, Used
    <3>2. regMatch' = regMatch
      BY <1>1, <3>1, RegisteredMatch
    <3> QED BY <1>1, <2>1, <3>2 DEF Started
  <2>2. CASE loop[m] = "none"
    BY <1>1, <2>2, NewLoop
  <2> QED BY <2>1, <2>2
<1>2. ASSUME NEW m \in Matches, NEW n \in Matches, loop'[m] # "none", loop'[n] # "none"
      PROVE  m = n
  <2>1. (loop[m] # "none" \/ regMatch = m) /\ (loop[n] # "none" \/ regMatch = n)
    BY <1>2, NewLoop
  <2> QED BY <1>0, <2>1 DEF Started
<1>3. ASSUME NEW m \in Matches, regMatch' = NoMatch, loop'[m] = "live"
      PROVE  mstate'[m] = "Stopped"
  <2>1. loop[m] = "live"
    BY <1>0, <1>3, NewLoop
  <2>2. CASE regMatch = NoMatch
    BY <2>1, <2>2, UsedStays DEF ClearedStopped
  <2>3. CASE regMatch # NoMatch
    <3>1. PICK c \in Conns : pc[c] = "unregisterEmpty"
      BY <1>3, <2>3, RegisteredMatch
    <3>2. m = regMatch /\ mstate[m] = "Stopped"
      BY <2>1, <2>3, <3>1 DEF Started, StoppedBehind, PastStop
    <3> QED BY <3>2, UsedStays
  <2> QED BY <2>2, <2>3
<1>4. ASSUME NEW c \in Conns, pc'[c] \in Launching
      PROVE  regMatch' # NoMatch /\ mine'[c] = regMatch'
  <2>0. ~NobodyStarts
    BY <1>4, EntersLaunch DEF StartPublish, StartReload, Goto, NobodyStarts, StartSteps,
       Launching
  <2>1. \/ regMatch' = regMatch
        \/ regMatch = NoMatch /\ \E d \in Conns : StartPublish(d)
    BY <2>0, RegisteredMatch DEF Finished
  <2>2. CASE pc[c] \in Launching /\ mine'[c] = mine[c]
    BY <2>1, <2>2 DEF LaunchesRegistered
  <2>3. CASE StartPublish(c) /\ regMatch = NoMatch
    BY <1>0, <2>3 DEF StartPublish, TypeOK
  <2>4. CASE StartReload(c) /\ regMatch # NoMatch
    BY <2>4 DEF StartReload, TypeOK, regVars
  <2> QED BY <1>4, <2>2, <2>3, <2>4, EntersLaunch
<1>5. ASSUME NEW c \in Conns, regMatch' # NoMatch PROVE cmatch'[c] \in {NoMatch, regMatch'}
  <2>1. cmatch'[c] = cmatch[c] \/ (UNCHANGED regMatch /\ cmatch'[c] = regMatch)
    <3>1. ASSUME NEW d \in Conns, StartAttach(d)
          PROVE  cmatch'[c] = cmatch[c] \/ (UNCHANGED regMatch /\ cmatch'[c] = regMatch)
      <4>1. UNCHANGED regMatch /\ mine[d] = regMatch
        BY <3>1 DEF StartAttach, Goto, LaunchesRegistered, Launching, regVars
      <4> QED BY <3>1, <4>1 DEF StartAttach, SetMatch, TypeOK
    <3>2. ASSUME NEW d \in Conns PROVE ~RejoinMatch(d)
      BY DEF RejoinMatch, Goto, NoRejoining, RejoinSteps
    <3> QED BY <3>1, <3>2, Writers
  <2>2. CASE regMatch' = regMatch
    BY <1>5, <2>1, <2>2 DEF OwnMatch
  <2>3. CASE regMatch' # regMatch
    <3>1. ~Used
      BY <1>5, <2>3, RegisteredMatch
    <3>2. cmatch[c] = NoMatch
      BY <3>1 DEF Used, MatchesUsed, TypeOK
    <3> QED BY <2>1, <2>3, <3>2
  <2> QED BY <2>2, <2>3
<1> QED BY <1>1, <1>2, <1>3, <1>4, <1>5 DEF Started, ClearedStopped, LaunchesRegistered, OwnMatch

\* Stop stops the registered controller, whether it is the connection's own or not.
LEMMA NextBehind ==
  ASSUME MatchInv, [Next]_vars
  PROVE  StoppedBehind'
<1> USE DEF MatchInv, ExclusiveInv, SeatInv
<1> SUFFICES ASSUME NEW c \in Conns, pc'[c] \in PastStop, regMatch' # NoMatch
             PROVE  mstate'[regMatch'] = "Stopped"
  BY DEF StoppedBehind
<1>1. CASE pc[c] \in PastStop
  <2>1. regMatch' = regMatch
    BY <1>1, FinishedMatch DEF LeavesAlone, Alone, PastStop
  <2>2. mstate[regMatch] = "Stopped" /\ regMatch \in Matches
    BY <1>1, <2>1 DEF StoppedBehind, TypeOK
  <2> QED BY <2>1, <2>2, UsedStays
<1>2. CASE pc[c] \notin PastStop
  <2>1. ~ClientStep(c) /\ ~JoinStep(c) /\ ~StartStep(c) /\ ~ReadyStep(c)
    BY Landings DEF PastStop, JoinSteps, StartSteps, ReadySteps
  <2>2. ~RejoinStep(c) /\ ~AgainStep(c)
    BY Targets DEF NoRejoining, NoAgain
  <2>3. CleanupStep(c)
    BY <1>2, <2>1, <2>2, OwnStep
  <2>4. StopMatch(c)
    BY <1>2, <2>3 DEF CleanupStep, Cleanup, MarkDisconnected, SetWaitingReconnect,
       StartReconnectTimer, ForceSecondDisconnect, LeaveRoom, Unregister, Look, Goto,
       PastStop, TypeOK
  <2>5. regMatch' = regMatch /\ regMatch \in Matches
    BY <2>4 DEF StopMatch, regVars, TypeOK
  <2>6. cmatch[c] \in {NoMatch, regMatch}
    BY <2>5 DEF OwnMatch
  <2> QED BY <2>4, <2>5, <2>6 DEF StopMatch, Stop, TypeOK
<1> QED BY <1>1, <1>2

\* How a connection comes to have nothing left to do for the match.
LEMMA EntersOthers ==
  ASSUME MatchInv, [Next]_vars, NEW c \in Conns, seat[c] # NoSeat,
         pc[c] \notin OthersWork, pc'[c] \in OthersWork \cup PastStop
  PROVE  \/ pc[c] \in PastStop
         \/ StopMatch(c)
         \/ (SetWaitingReconnect(c) \/ LeaveRoom(c)) /\ player[Other(seat[c])].connected
<1> USE DEF MatchInv, ExclusiveInv, SeatInv
<1>1. SUFFICES ASSUME pc[c] \notin PastStop
               PROVE  \/ StopMatch(c)
                      \/ /\ SetWaitingReconnect(c) \/ LeaveRoom(c)
                         /\ player[Other(seat[c])].connected
  OBVIOUS
<1>2. ~ClientStep(c) /\ ~JoinStep(c) /\ ~StartStep(c) /\ ~ReadyStep(c)
  BY Landings DEF OthersWork, PastStop, JoinSteps, StartSteps, ReadySteps
<1>3. ~RejoinStep(c) /\ ~AgainStep(c)
  BY Targets DEF NoRejoining, NoAgain
<1>4. CleanupStep(c)
  BY <1>1, <1>2, <1>3, OwnStep
<1>5. \/ StopMatch(c) \/ SetWaitingReconnect(c) \/ LeaveRoom(c)
  BY <1>1, <1>4 DEF CleanupStep, Cleanup, MarkDisconnected, StartReconnectTimer,
     ForceSecondDisconnect, Unregister, Look, Goto, OthersWork, PastStop, TypeOK
<1>6. CASE SetWaitingReconnect(c)
  BY <1>1, <1>6 DEF SetWaitingReconnect, EmptyWithout, Goto, OthersWork, PastStop, TypeOK
<1>7. CASE LeaveRoom(c)
  BY <1>1, <1>7 DEF LeaveRoom, EmptyWithout, Goto, OthersWork, PastStop, TypeOK
<1> QED BY <1>5, <1>6, <1>7

\* The other player that was seen connected has a connection that has not left.
LEMMA OtherSits ==
  ASSUME MatchInv, [Next]_vars, NEW c \in Conns, seat[c] # NoSeat,
         SetWaitingReconnect(c) \/ LeaveRoom(c), player[Other(seat[c])].connected
  PROVE  \E d \in Conns : seat'[d] # NoSeat /\ pc'[d] = pc[d] /\ pc[d] \notin Marked
<1> USE DEF MatchInv, ExclusiveInv, SeatInv
<1>1. seat[c] \in {1, 2}
  BY DEF TypeOK, Seats, NoSeat
<1>2. Other(seat[c]) \in Seats /\ Other(seat[c]) # seat[c]
  BY <1>1 DEF Other, Seats
<1>3. PICK d \in Conns : seat[d] = Other(seat[c])
  BY <1>2 DEF ConnectedSits
<1>4. d # c /\ seat[d] # NoSeat
  BY <1>2, <1>3 DEF Seats, NoSeat
<1>5. pc[d] \notin Marked
  BY <1>3, <1>4 DEF ConnectedSits
<1>6. pc'[d] = pc[d]
  BY <1>4 DEF SetWaitingReconnect, LeaveRoom, Goto, TypeOK
<1>7. seat'[d] # NoSeat
  BY <1>4, SeatStays
<1> QED BY <1>5, <1>6, <1>7

\* The stop and the clearing stay ahead of some connection.
LEMMA NextDue ==
  ASSUME MatchInv, [Next]_vars
  PROVE  StopsDue' /\ ClearDue'
<1> USE DEF MatchInv, ExclusiveInv, SeatInv
<1>0. OthersWork \subseteq Marked
  BY DEF OthersWork, Marked
<1>1. ASSUME NEW c \in Conns, StartPublish(c)
      PROVE  seat'[c] # NoSeat /\ pc'[c] \notin OthersWork \cup PastStop
  <2>1. seat[c] # NoSeat
    BY <1>1 DEF StartPublish, Goto, HandlersSeated, SeatedSteps, StartSteps
  <2>2. pc'[c] \in {"startPlaying", "startReload"}
    BY <1>1 DEF StartPublish, Goto, TypeOK
  <2> QED BY <2>1, <2>2, SeatStays DEF OthersWork, PastStop
<1>2. ASSUME regMatch' # NoMatch, mstate'[regMatch'] # "Stopped", regMatch' = regMatch
      PROVE  \E c \in Conns : seat'[c] # NoSeat /\ pc'[c] \notin OthersWork \cup PastStop
  <2>1. mstate[regMatch] # "Stopped" /\ regMatch \in Matches
    BY <1>2, UsedStays DEF TypeOK
  <2>2. PICK c \in Conns : seat[c] # NoSeat /\ pc[c] \notin OthersWork \cup PastStop
    BY <1>2, <2>1 DEF StopsDue
  <2>3. CASE pc'[c] \notin OthersWork \cup PastStop
    BY <2>2, <2>3, SeatStays
  <2>4. CASE pc'[c] \in OthersWork \cup PastStop
    <3>1. ASSUME StopMatch(c) PROVE FALSE
      <4>1. cmatch[c] \in {NoMatch, regMatch}
        BY <1>2 DEF OwnMatch
      <4> QED BY <1>2, <2>1, <3>1, <4>1 DEF StopMatch, Stop, TypeOK
    <3>2. (SetWaitingReconnect(c) \/ LeaveRoom(c)) /\ player[Other(seat[c])].connected
      BY <2>2, <2>4, <3>1, EntersOthers
    <3>3. PICK d \in Conns : seat'[d] # NoSeat /\ pc'[d] = pc[d] /\ pc[d] \notin Marked
      BY <2>2, <3>2, OtherSits
    <3>4. pc[d] \notin PastStop
      BY <1>2, <2>1 DEF StoppedBehind
    <3> QED BY <1>0, <3>3, <3>4
  <2> QED BY <2>3, <2>4
<1>3. ASSUME regMatch' # NoMatch, regMatch' = regMatch
      PROVE  \E c \in Conns : seat'[c] # NoSeat /\ pc'[c] \notin OthersWork
  <2>1. PICK c \in Conns : seat[c] # NoSeat /\ pc[c] \notin OthersWork
    BY <1>3 DEF ClearDue
  <2>2. CASE pc'[c] \notin OthersWork
    BY <2>1, <2>2, SeatStays
  <2>3. CASE pc'[c] \in OthersWork
    <3>1. (SetWaitingReconnect(c) \/ LeaveRoom(c)) /\ player[Other(seat[c])].connected
      <4>1. CASE pc[c] \in PastStop
        <5>1. CleanupStep(c)
          BY <2>1, <2>3, <4>1, OwnStep, Targets DEF PastStop, OthersWork, JoinSteps,
             RejoinSteps, StartSteps, ReadySteps, AgainSteps
        <5>2. ~Unregister(c) \/ pc[c] # "unregisterEmpty"
          BY <1>3 DEF Unregister, Goto
        <5> QED
          BY <2>1, <2>3, <4>1, <5>1, <5>2 DEF CleanupStep, Cleanup, MarkDisconnected,
             SetWaitingReconnect, StartReconnectTimer, ForceSecondDisconnect, StopMatch,
             LeaveRoom, EmptyWithout, Unregister, Look, Goto, OthersWork, PastStop, TypeOK
      <4>2. ASSUME StopMatch(c) PROVE FALSE
        BY <2>1, <2>3, <4>2 DEF StopMatch, Goto, OthersWork, TypeOK
      <4> QED BY <2>1, <2>3, <4>1, <4>2, EntersOthers
    <3>2. PICK d \in Conns : seat'[d] # NoSeat /\ pc'[d] = pc[d] /\ pc[d] \notin Marked
      BY <2>1, <3>1, OtherSits
    <3> QED BY <1>0, <3>2
  <2> QED BY <2>2, <2>3
<1> QED BY <1>1, <1>2, <1>3, RegisteredMatch DEF StopsDue, ClearDue

\* Whoever closes has unregistered its seat.
LEMMA NextOpen ==
  ASSUME TypeOK, EnteringUnseated, AddressedBySeat, LeavingSeated, RegisteredOpen, [Next]_vars
  PROVE  RegisteredOpen'
<1> SUFFICES ASSUME NEW s \in Seats, regConn'[s] # NoConn, pc'[regConn'[s]] = "closed"
             PROVE  FALSE
  BY DEF RegisteredOpen
<1>0. regConn'[s] \in Conns
  BY NextType DEF TypeOK
<1>1. CASE regConn'[s] = regConn[s]
  <2>1. PICK d \in Conns : d = regConn[s]
    BY <1>0, <1>1
  <2>2. seat[d] = s /\ pc[d] # "closed" /\ pc'[d] = "closed"
    BY <1>0, <1>1, <2>1, SessionAssumption DEF AddressedBySeat, RegisteredOpen
  <2>3. JoinSteps \cup RejoinSteps \cup StartSteps \cup ReadySteps \cup AgainSteps
          \cup {"idle", "startClients", "cleanup"} \subseteq Labels \ {"closed"}
    BY DEF Labels, JoinSteps, RejoinSteps, StartSteps, ReadySteps, AgainSteps, CleanupSteps
  <2>4. ASSUME NEW to, to # "closed", pc' = [pc EXCEPT ![d] = to] PROVE FALSE
    BY <2>2, <2>4 DEF TypeOK
  <2>5. ~ClientStep(d) /\ ~JoinStep(d) /\ ~RejoinStep(d)
    BY <2>3, <2>4, Targets
  <2>6. ~StartStep(d) /\ ~ReadyStep(d) /\ ~AgainStep(d)
    BY <2>3, <2>4, Targets
  <2>7. CleanupStep(d)
    BY <2>2, <2>5, <2>6, OwnStep
  <2>8. Unregister(d)
    BY <2>2, <2>7 DEF CleanupStep, Cleanup, MarkDisconnected, SetWaitingReconnect,
       StartReconnectTimer, ForceSecondDisconnect, StopMatch, LeaveRoom, Look, Goto, TypeOK,
       Seats, NoSeat
  <2> QED BY <1>0, <1>1, <2>1, <2>2, <2>8, SessionAssumption DEF Unregister, NobodyGot, TypeOK
<1>2. CASE regConn'[s] # regConn[s]
  <2>1. ASSUME NEW c \in Conns, WSRegister(c) \/ RejoinRegister(c) PROVE FALSE
    <3>1. regConn'[s] = c
      BY <1>2, <2>1 DEF WSRegister, RejoinRegister, SetConn, TypeOK
    <3> QED BY <2>1, <3>1 DEF WSRegister, RejoinRegister, Goto, TypeOK
  <2>2. ASSUME NEW c \in Conns, Unregister(c) PROVE FALSE
    BY <1>0, <1>2, <2>2, SessionAssumption DEF Unregister, NobodyGot, TypeOK
  <2> QED BY <1>2, <2>1, <2>2, Writers
<1> QED BY <1>1, <1>2

\* A starter keeps the pair of connections it has read.
LEMMA NextGot ==
  ASSUME TypeOK, GotBoth, [Next]_vars
  PROVE  GotBoth'
<1> DEFINE After == StartSteps \ {"startClients"}
<1> SUFFICES ASSUME NEW c \in Conns, pc'[c] \in After, NEW s \in Seats
             PROVE  got'[c][s] # NoConn
  BY DEF GotBoth
<1>1. CASE pc[c] \in After
  <2>1. got[c][s] # NoConn
    BY <1>1 DEF GotBoth
  <2>2. got'[c] = got[c]
    <3>1. ASSUME NEW d \in Conns, d # c,
                 StartClients(d) \/ StartExisting(d) \/ StartReload(d) \/ StartRun(d)
          PROVE  got'[c] = got[c]
      BY <3>1 DEF StartClients, StartExisting, StartReload, StartRun, TypeOK
    <3>2. ~StartClients(c)
      BY <1>1 DEF StartClients, Goto
    <3>3. StartExisting(c) \/ StartReload(c) \/ StartRun(c) => got'[c] = got[c]
      BY DEF StartExisting, StartReload, StartRun, Goto, StartSteps, TypeOK
    <3> QED BY <3>1, <3>2, <3>3, Writers
  <2> QED BY <2>1, <2>2
<1>2. CASE pc[c] \notin After
  <2>1. JoinSteps \cup RejoinSteps \cup ReadySteps \cup AgainSteps \cup CleanupSteps
          \cup {"idle", "startClients", "cleanup", "closed"} \subseteq Labels \ After
    BY DEF Labels, JoinSteps, RejoinSteps, StartSteps, ReadySteps, AgainSteps, CleanupSteps
  <2>2. ASSUME NEW to \in Labels \ After, pc' = [pc EXCEPT ![c] = to] PROVE FALSE
    BY <2>2 DEF TypeOK
  <2>3. ~JoinStep(c) /\ ~RejoinStep(c) /\ ~ReadyStep(c)
    BY <2>1, <2>2, Targets
  <2>4. ~AgainStep(c) /\ ~CleanupStep(c)
    BY <2>1, <2>2, Targets
  <2>5. ~ClientStep(c)
    BY Targets DEF StartSteps, TypeOK
  <2>6. StartStep(c)
    BY <1>2, <2>3, <2>4, <2>5, OwnStep
  <2>7. StartClients(c)
    BY <1>2, <2>6 DEF StartStep, StartExisting, StartPublish, StartReload, StartPlaying,
       StartAttach, StartRun, Goto, StartSteps
  <2> QED BY <2>7 DEF StartClients, BothRegistered, Goto, StartSteps, TypeOK
<1> QED BY <1>1, <1>2

\* The bridge of the registered match stays, and has both players.
LEMMA NextBridge ==
  ASSUME MatchInv, [Next]_vars
  PROVE  /\ BridgeBoth'
         /\ regMatch' # NoMatch /\ regMatch # NoMatch =>
              regMatch' = regMatch /\ bridge'[regMatch] = bridge[regMatch]
<1> USE DEF MatchInv, ExclusiveInv, SeatInv
<1>1. ASSUME regMatch # NoMatch, regMatch' # NoMatch
      PROVE  regMatch' = regMatch /\ bridge'[regMatch] = bridge[regMatch]
  <2>1. regMatch' = regMatch
    BY <1>1, RegisteredMatch
  <2>2. ASSUME NEW c \in Conns, StartPublish(c) PROVE bridge'[regMatch] = bridge[regMatch]
    <3>1. PICK m \in Matches : FreshMatch(m) /\ bridge' = [bridge EXCEPT ![m] = got[c]]
      BY <2>2 DEF StartPublish
    <3>2. m # regMatch
      BY <1>1, <3>1 DEF FreshMatch, MatchesUsed
    <3> QED BY <1>1, <3>1, <3>2 DEF TypeOK
  <2> QED BY <2>1, <2>2, Writers
<1>2. ASSUME regMatch = NoMatch, regMatch' # NoMatch, NEW s \in Seats
      PROVE  bridge'[regMatch'][s] # NoConn
  <2>1. PICK c \in Conns : StartPublish(c)
    BY <1>2, RegisteredMatch
  <2>2. bridge'[regMatch'] = got[c]
    BY <1>2, <2>1 DEF StartPublish, TypeOK
  <2> QED BY <2>1, <2>2 DEF GotBoth, StartPublish, Goto, StartSteps
<1> QED BY <1>1, <1>2 DEF BridgeBoth

\* The two setMatch calls attach the match to the connections of its bridge.
LEMMA NextAttached ==
  ASSUME MatchInv, [Next]_vars
  PROVE  Attached'
<1> USE DEF MatchInv, ExclusiveInv, SeatInv
<1> SUFFICES ASSUME regMatch' # NoMatch, NEW s \in Seats
             PROVE  \/ cmatch'[bridge'[regMatch'][s]] = regMatch'
                    \/ \E c \in Conns : pc'[c] \in BeforeAttach(s)
  BY DEF Attached
<1>1. CASE regMatch = NoMatch
  <2>1. PICK c \in Conns : StartPublish(c)
    BY <1>1, RegisteredMatch
  <2>2. pc'[c] = "startPlaying"
    BY <1>1, <2>1 DEF StartPublish, Goto, TypeOK
  <2> QED BY <2>2 DEF BeforeAttach
<1>2. CASE regMatch # NoMatch
  <2>1. PICK d : d = bridge[regMatch][s]
    OBVIOUS
  <2>2. regMatch' = regMatch /\ bridge'[regMatch'][s] = d /\ regMatch \in Matches
    BY <1>2, <2>1, NextBridge DEF TypeOK
  <2>3. d \in Conns /\ seat[d] = s
    BY <1>2, <2>1, <2>2 DEF BridgeBoth, AddressedBySeat, TypeOK
  <2>4. ASSUME NEW c \in Conns, StartAttach(c)
        PROVE  cmatch'[d] \in {cmatch[d], regMatch}
    BY <2>3, <2>4 DEF StartAttach, SetMatch, Goto, LaunchesRegistered, Launching, TypeOK
  <2>5. ASSUME NEW c \in Conns PROVE ~RejoinMatch(c)
    BY DEF RejoinMatch, Goto, NoRejoining, RejoinSteps
  <2>6. CASE cmatch[d] = regMatch
    BY <2>2, <2>4, <2>5, <2>6, Writers
  <2>7. ASSUME NEW c \in Conns, pc[c] \in BeforeAttach(s), pc'[c] \notin BeforeAttach(s)
        PROVE  cmatch'[d] = regMatch
    <3>1. pc[c] \in {"startPlaying", "startAttach1", "startAttach2"}
      BY <2>7 DEF BeforeAttach
    <3>2. StartStep(c)
      BY <2>7, <3>1, OwnStep, Targets DEF JoinSteps, RejoinSteps, ReadySteps, AgainSteps,
         CleanupSteps
    <3>3. StartPlaying(c) \/ StartAttach(c)
      BY <3>1, <3>2 DEF StartStep, StartClients, StartExisting, StartPublish, StartReload,
         StartRun, Goto
    <3>4. StartAttach(c) /\ SetMatch(c, s)
      <4>1. s = 1 \/ s = 2
        BY DEF Seats
      <4>2. pc'[c] # "startAttach1" /\ ~StartPlaying(c)
        BY <2>7 DEF StartPlaying, BeforeAttach, Goto, TypeOK
      <4>3. CASE s = 1
        BY <2>7, <3>3, <4>2, <4>3 DEF StartAttach, BeforeAttach, Goto
      <4>4. CASE s = 2
        <5>1. pc'[c] # "startAttach2"
          BY <2>7, <4>4 DEF BeforeAttach
        <5> QED BY <3>3, <4>2, <4>4, <5>1 DEF StartAttach, Goto, TypeOK
      <4> QED BY <4>1, <4>3, <4>4
    <3>5. got[c][s] \in Conns /\ seat[got[c][s]] = s
      <4>1. got[c][s] # NoConn
        BY <3>1 DEF GotBoth, StartSteps
      <4>2. got[c][s] \in Conns \cup {NoConn}
        BY DEF TypeOK
      <4> QED BY <4>1, <4>2 DEF GotBySeat
    <3>6. got[c][s] = d
      BY <2>3, <3>5 DEF SeatExclusive, Seats, NoSeat
    <3>7. mine[c] = regMatch
      BY <3>1 DEF LaunchesRegistered, Launching
    <3> QED BY <2>3, <3>4, <3>6, <3>7 DEF SetMatch, TypeOK
  <2> QED BY <1>2, <2>1, <2>2, <2>6, <2>7 DEF Attached
<1> QED BY <1>1, <1>2

\* Every step keeps the invariant.
LEMMA NextMatch ==
  ASSUME "rejoin" \notin Kinds, "play_again" \notin Kinds, MatchInv, [Next]_vars
  PROVE  MatchInv'
<1>1. ExclusiveInv' /\ NoAgain' /\ NoRequests' /\ LeavingSeated'
  BY NextExclusive, NobodyAgain, NobodyRequests, StaysLeaving DEF MatchInv, ExclusiveInv, SeatInv
<1>2. HandlersSeated' /\ MatchesUsed' /\ ConnectedSits'
  BY StaysSeated, NextUsed, NextConnected DEF MatchInv, ExclusiveInv, SeatInv
<1>3. WaitsForSomebody' /\ LeavesAlone' /\ ClearedFinished' /\ ClearedStopped'
  BY NextWaits, NextAlone, NextCleared, NextStarted
<1>4. Started' /\ LaunchesRegistered' /\ OwnMatch' /\ StoppedBehind'
  BY NextStarted, NextBehind
<1>5. StopsDue' /\ ClearDue' /\ RegisteredOpen'
  BY NextDue, NextOpen DEF MatchInv, ExclusiveInv, SeatInv
<1>6. GotBoth' /\ BridgeBoth' /\ Attached'
  BY NextGot, NextBridge, NextAttached DEF MatchInv, ExclusiveInv, SeatInv
<1> QED BY <1>1, <1>2, <1>3, <1>4, <1>5, <1>6 DEF MatchInv

\* The invariant holds before anybody connects.
LEMMA InitMatch == Init => MatchInv
<1> SUFFICES ASSUME Init PROVE MatchInv
  OBVIOUS
<1>1. ExclusiveInv
  BY InitAddressed
  DEF Init, ExclusiveInv, NoRejoining, RejoinSteps, SittingOnSeat, SeatExclusive
<1>2. NoAgain /\ NoRequests /\ LeavingSeated /\ HandlersSeated /\ LaunchesRegistered
  BY DEF Init, NoAgain, AgainSteps, NoRequests, LeavingSeated, CleanupSteps, HandlersSeated,
     SeatedSteps, StartSteps, ReadySteps, LaunchesRegistered, Launching
<1>3. MatchesUsed /\ ConnectedSits /\ WaitsForSomebody
  BY DEF Init, MatchesUsed, ConnectedSits, NoPlayer, WaitsForSomebody
<1>4. LeavesAlone /\ StoppedBehind /\ RegisteredOpen /\ GotBoth
  BY DEF Init, LeavesAlone, Alone, StoppedBehind, PastStop, RegisteredOpen, NobodyGot, GotBoth,
     StartSteps
<1>5. ClearedFinished /\ ClearedStopped /\ Started
  BY DEF Init, ClearedFinished, Used, ClearedStopped, Started
<1>6. OwnMatch /\ StopsDue /\ ClearDue /\ BridgeBoth /\ Attached
  BY DEF Init, OwnMatch, StopsDue, ClearDue, BridgeBoth, Attached
<1> QED BY <1>1, <1>2, <1>3, <1>4, <1>5, <1>6 DEF MatchInv

\* In a room entered over the websocket, whatever the order of joins, starts and
\* departures, never more than one game advances: a late starter does not run a
\* second controller, because the registry is cleared only when nothing can start.
THEOREM OneGameJoined ==
  ASSUME "rejoin" \notin Kinds, "play_again" \notin Kinds
  PROVE  Spec => []OneGame
<1>1. Init => MatchInv
  BY InitMatch
<1>2. MatchInv /\ [Next]_vars => MatchInv'
  BY NextMatch
<1>3. MatchInv => OneGame
  BY DEF MatchInv, Started, OneGame, Ticking
<1> QED BY <1>1, <1>2, <1>3, PTL DEF Spec

\* In a room entered over the websocket, when every connection is gone no match
\* loop runs on, and no match and no connection stays registered.
THEOREM NothingStays ==
  ASSUME "rejoin" \notin Kinds, "play_again" \notin Kinds
  PROVE  Spec => []NothingLeftBehind
<1>1. Init => MatchInv
  BY InitMatch
<1>2. MatchInv /\ [Next]_vars => MatchInv'
  BY NextMatch
<1>3. MatchInv => NothingLeftBehind
  <2> SUFFICES ASSUME MatchInv, \A c \in Conns : pc[c] = "closed"
               PROVE  /\ \A m \in Matches : loop[m] = "live" => mstate[m] = "Stopped"
                      /\ regMatch = NoMatch
                      /\ regConn = NobodyGot
    BY DEF NothingLeftBehind
  <2>1. regMatch = NoMatch
    BY DEF MatchInv, ClearDue, OthersWork
  <2>2. \A m \in Matches : loop[m] = "live" => mstate[m] = "Stopped"
    BY <2>1 DEF MatchInv, ClearedStopped
  <2>3. regConn \in [Seats -> Conns \cup {NoConn}]
    BY DEF MatchInv, ExclusiveInv, SeatInv, TypeOK
  <2>4. \A s \in Seats : regConn[s] = NoConn
    BY <2>3 DEF MatchInv, RegisteredOpen
  <2> QED BY <2>1, <2>2, <2>3, <2>4 DEF NobodyGot
<1> QED BY <1>1, <1>2, <1>3, PTL DEF Spec

\* In a room entered over the websocket, once no handler is half way through, a
\* registered player's input goes to the registered match and gets its ticks.
THEOREM PlayersFollow ==
  ASSUME "rejoin" \notin Kinds, "play_again" \notin Kinds
  PROVE  Spec => []PlayersFollowMatch
<1>1. Init => MatchInv
  BY InitMatch
<1>2. MatchInv /\ [Next]_vars => MatchInv'
  BY NextMatch
<1>3. MatchInv => PlayersFollowMatch
  <2> SUFFICES ASSUME MatchInv, Quiet, regMatch # NoMatch, NEW s \in Seats, regConn[s] # NoConn
               PROVE  /\ cmatch[regConn[s]] = regMatch
                      /\ bridge[regMatch][s] = regConn[s]
    BY DEF PlayersFollowMatch
  <2>0. regMatch \in Matches /\ regConn[s] \in Conns /\ bridge[regMatch][s] \in Conns
    BY DEF MatchInv, ExclusiveInv, SeatInv, TypeOK, BridgeBoth
  <2>1. seat[regConn[s]] = s /\ seat[bridge[regMatch][s]] = s
    BY <2>0 DEF MatchInv, ExclusiveInv, SeatInv, AddressedBySeat, BridgeBoth
  <2>2. bridge[regMatch][s] = regConn[s]
    BY <2>0, <2>1 DEF MatchInv, ExclusiveInv, SeatExclusive, Seats, NoSeat
  <2>3. \A c \in Conns : pc[c] \notin BeforeAttach(s)
    BY DEF Quiet, BeforeAttach
  <2>4. cmatch[bridge[regMatch][s]] = regMatch
    BY <2>3 DEF MatchInv, Attached
  <2> QED BY <2>2, <2>4
<1> QED BY <1>1, <1>2, <1>3, PTL DEF Spec

-----------------------------------------------------------------------------
\* Without create_room and join_room messages no handler of one ever runs.
LEMMA NobodyJoins ==
  ASSUME "create" \notin Kinds, "join" \notin Kinds, TypeOK, NoJoining, [Next]_vars
  PROVE  NoJoining'
<1> SUFFICES ASSUME NEW c \in Conns, pc'[c] \in JoinSteps PROVE FALSE
  BY DEF NoJoining
<1>1. RejoinSteps \cup StartSteps \cup ReadySteps \cup AgainSteps \cup CleanupSteps
        \cup {"idle", "startClients", "cleanup", "closed", "readySet", "againSet",
              "rejoinRemoveToken"} \subseteq Labels \ JoinSteps
  BY DEF Labels, JoinSteps, RejoinSteps, StartSteps, ReadySteps, AgainSteps, CleanupSteps
<1>2. ASSUME NEW to \in Labels \ JoinSteps, pc' = [pc EXCEPT ![c] = to] PROVE FALSE
  BY <1>2 DEF TypeOK
<1>3. ~ClientStep(c)
  <2>1. ASSUME ClientStep(c) PROVE FALSE
    <3>1. PICK to \in {"createAdd", "joinAdd", "readySet", "againSet",
                       "rejoinRemoveToken", "cleanup"} :
            /\ pc' = [pc EXCEPT ![c] = to]
            /\ to \in {"createAdd", "joinAdd"} => {"create", "join"} \cap Kinds # {}
      BY <2>1, Targets
    <3>2. to \notin {"createAdd", "joinAdd"}
      BY <3>1
    <3> QED BY <1>1, <1>2, <3>1, <3>2
  <2> QED BY <2>1
<1>4. ~JoinStep(c)
  BY Targets DEF NoJoining
<1>5. ~RejoinStep(c) /\ ~StartStep(c) /\ ~ReadyStep(c)
  BY <1>1, <1>2, Targets
<1>6. ~AgainStep(c) /\ ~CleanupStep(c)
  BY <1>1, <1>2, Targets
<1>7. pc[c] \notin JoinSteps
  BY DEF NoJoining
<1> QED BY <1>3, <1>4, <1>5, <1>6, <1>7, OwnStep

\* A room that is open no more does not become open again, except by a rematch.
LEMMA OpenStays ==
  ASSUME NoAgain, [Next]_vars
  PROVE  /\ rstate # "none" => rstate' # "none"
         /\ rstate \notin OpenStates => rstate' \notin OpenStates
<1>1. ASSUME NEW c \in Conns PROVE ~ResetForRematch(c)
  BY DEF ResetForRematch, Goto, NoAgain, AgainSteps
<1>2. ASSUME NEW c \in Conns, SetWaitingReconnect(c) PROVE rstate' = "WaitingReconnect"
  BY <1>2 DEF SetWaitingReconnect
<1> QED BY <1>1, <1>2, RoomWriters DEF OpenStates

\* Listings, requests, tokens, entries and seats each come from one another, and
\* the first of them from a room that is created.
LEMMA EntranceWriters ==
  ASSUME NoJoining, [Next]_vars
  PROVE  \/ UNCHANGED <<api, tokens, entry, seat>> /\ (inHub' => inHub)
         \/ rstate' = "Waiting"
         \/ inHub
         \/ \E r \in Reqs : api[r] = "add"
         \/ tokens # {}
         \/ \E c \in Conns : entry[c] # NoSeat
         \/ \E c \in Conns, s \in tokens : entry' = [entry EXCEPT ![c] = s]
         \/ \E c \in Conns : seat' = [seat EXCEPT ![c] = entry[c]]
              /\ UNCHANGED <<api, tokens, entry, inHub>>
<1>1. ASSUME NEW c \in Conns PROVE ~JoinStep(c)
  BY Targets DEF NoJoining
<1>2. ASSUME NEW r \in Reqs, ApiStep(r)
      PROVE  inHub \/ rstate' = "Waiting" \/ api[r] = "add"
  BY <1>2 DEF ApiStep, ApiCreateRoom, CreateRoom, ApiJoinCheck, ApiAddPlayer
<1>3. ASSUME NEW c \in Conns, ClientStep(c)
      PROVE  \/ UNCHANGED <<api, tokens, entry, seat, inHub>>
             \/ rstate' = "Waiting"
             \/ \E s \in tokens : entry' = [entry EXCEPT ![c] = s]
  BY <1>3 DEF ClientStep, WSCreateRoom, CreateRoom, WSJoinRoom, Ready, PlayAgain, Drop,
     Rejoin, Look, connVars
<1>4. ASSUME NEW c \in Conns, RejoinStep(c)
      PROVE  \/ UNCHANGED <<api, entry, seat, inHub>> /\ (UNCHANGED tokens \/ tokens # {})
             \/ seat' = [seat EXCEPT ![c] = entry[c]] /\ UNCHANGED <<api, tokens, entry, inHub>>
  BY <1>4 DEF RejoinStep, RejoinRemoveToken, RejoinClosed, RejoinWaiting, RejoinRegister,
     TryResumeMatch, RejoinMatch, RejoinClients, Look, connVars
<1>5. ASSUME NEW c \in Conns, StartStep(c) \/ ReadyStep(c) \/ AgainStep(c)
      PROVE  UNCHANGED <<api, tokens, entry, seat, inHub>>
  BY <1>5 DEF StartStep, StartClients, StartExisting, StartPublish, StartReload, StartPlaying,
     StartAttach, StartRun, ReadyStep, SetReady, ReadyBoth, AgainStep, SetRematch, AgainBoth,
     ResetForRematch, AgainClients, RemoveMatch, Look, connVars
<1>6. ASSUME NEW c \in Conns, CleanupStep(c)
      PROVE  UNCHANGED <<api, tokens, entry, seat>> /\ (inHub' => inHub)
  BY <1>6 DEF CleanupStep, Cleanup, MarkDisconnected, SetWaitingReconnect,
     StartReconnectTimer, ForceSecondDisconnect, StopMatch, LeaveRoom, Unregister, Look,
     connVars
<1>7. ASSUME \/ \E t \in Timers : TimerStep(t)
             \/ \E m \in Matches : MatchStep(m)
             \/ UNCHANGED vars
      PROVE  UNCHANGED <<api, tokens, entry, seat, inHub>>
  BY <1>7 DEF TimerStep, TimerFires, ReconnectExpires, TimerCloses, MatchStep,
     MatchGameOver, MatchTimeout, LoopExits, vars, connVars
<1>8. ASSUME CleanupStaleRooms \/ CleanupStaleTokens PROVE inHub \/ tokens # {}
  BY <1>8 DEF CleanupStaleRooms, CleanupStaleTokens
<1> QED BY <1>1, <1>2, <1>3, <1>4, <1>5, <1>6, <1>7, <1>8 DEF Next, HandlerStep

\* What is there of the room, is there of a room that was created.
LEMMA NextEntered ==
  ASSUME TypeOK, NoAgain, NoJoining, EnteredRoom, [Next]_vars
  PROVE  EnteredRoom'
<1>1. CASE rstate # "none"
  BY <1>1, OpenStays DEF EnteredRoom
<1>2. CASE rstate = "none"
  <2>1. /\ ~inHub /\ tokens = {}
        /\ \A r \in Reqs : api[r] # "add"
        /\ \A c \in Conns : entry[c] = NoSeat /\ seat[c] = NoSeat
    BY <1>2 DEF EnteredRoom
  <2>2. CASE rstate' = "Waiting"
    BY <2>2 DEF EnteredRoom
  <2>3. CASE UNCHANGED <<api, tokens, entry, seat>> /\ (inHub' => inHub)
    BY <2>1, <2>3 DEF EnteredRoom
  <2>4. ASSUME NEW c \in Conns, seat' = [seat EXCEPT ![c] = entry[c]],
               UNCHANGED <<api, tokens, entry, inHub>>
        PROVE  EnteredRoom'
    BY <2>1, <2>4 DEF EnteredRoom, TypeOK
  <2> QED BY <2>1, <2>2, <2>3, <2>4, EntranceWriters
<1> QED BY <1>1, <1>2

\* Who leaves closes the room first, or has found it open no more.
LEMMA NextLeaving ==
  ASSUME TypeOK, EnteringUnseated, NoAgain, NoJoining, LeavingSeated, EnteredRoom,
         LeavingClosed, [Next]_vars
  PROVE  LeavingClosed'
<1> SUFFICES ASSUME NEW c \in Conns,
                    pc'[c] \in AfterOpen \/ (pc'[c] = "closed" /\ seat'[c] # NoSeat)
             PROVE  rstate' \notin OpenStates
  BY DEF LeavingClosed
<1>1. CASE pc[c] \in AfterOpen
  BY <1>1, OpenStays DEF LeavingClosed
<1>2. CASE pc[c] = "closed"
  <2>1. seat'[c] = seat[c] /\ pc'[c] = "closed"
    <3>1. ASSUME NEW d \in Conns, WSAddPlayer(d) \/ RejoinRegister(d)
          PROVE  d # c /\ seat'[c] = seat[c]
      BY <1>2, <3>1 DEF WSAddPlayer, RejoinRegister, Goto, TypeOK
    <3> QED BY <1>2, <3>1, Writers, ClosedStays
  <2>2. "closed" \notin AfterOpen
    BY DEF AfterOpen, CleanupSteps
  <2> QED BY <1>2, <2>1, <2>2, OpenStays DEF LeavingClosed
<1>3. CASE pc[c] \notin AfterOpen \cup {"closed"}
  <2>1. JoinSteps \cup StartSteps \cup ReadySteps \cup AgainSteps \cup {"idle", "startClients",
          "cleanup", "createAdd", "joinAdd", "readySet", "againSet", "rejoinRemoveToken"}
          \subseteq Labels \ (AfterOpen \cup {"closed"})
    BY DEF Labels, AfterOpen, JoinSteps, RejoinSteps, StartSteps, ReadySteps, AgainSteps,
       CleanupSteps
  <2>2. ASSUME NEW to \in Labels \ (AfterOpen \cup {"closed"}), pc' = [pc EXCEPT ![c] = to]
        PROVE  FALSE
    BY <2>2 DEF TypeOK
  <2>3. ~ClientStep(c) /\ ~JoinStep(c) /\ ~StartStep(c)
    BY <2>1, <2>2, Targets
  <2>4. ~ReadyStep(c) /\ ~AgainStep(c)
    BY <2>1, <2>2, Targets
  <2>5. CASE RejoinStep(c)
    <3>1. RejoinWaiting(c)
      BY <1>3, <2>5 DEF RejoinStep, RejoinRemoveToken, RejoinClosed, RejoinRegister,
         TryResumeMatch, RejoinMatch, RejoinClients, Look, Goto, AfterOpen, CleanupSteps,
         TypeOK
    <3> QED BY <1>3, <3>1 DEF RejoinWaiting, Look, Goto, AfterOpen, CleanupSteps, OpenStates,
       TypeOK, roomVars
  <2>6. CASE CleanupStep(c)
    <3>1. Cleanup(c) \/ LeaveRoom(c)
      BY <1>3, <2>6 DEF CleanupStep, MarkDisconnected, SetWaitingReconnect,
         StartReconnectTimer, ForceSecondDisconnect, StopMatch, Unregister, Goto, AfterOpen,
         CleanupSteps
    <3>2. CASE Cleanup(c)
      BY <1>3, <3>2 DEF Cleanup, Look, Goto, AfterOpen, CleanupSteps, OpenStates, TypeOK,
         roomVars, connVars
    <3>3. CASE LeaveRoom(c)
      <4>1. pc[c] = "quitRemove"
        BY <1>3, <3>3 DEF LeaveRoom, Goto, AfterOpen, CleanupSteps
      <4>2. rstate # "none"
        BY <4>1 DEF LeavingSeated, CleanupSteps, EnteredRoom
      <4> QED BY <3>3, <4>2 DEF LeaveRoom, RemovePlayer, OpenStates
    <3> QED BY <3>1, <3>2, <3>3
  <2>7. pc'[c] # pc[c]
    BY <1>3
  <2> QED BY <2>3, <2>4, <2>5, <2>6, <2>7, OwnStep
<1> QED BY <1>1, <1>2, <1>3

\* The rejoin handler that completes the pair, or another that is on its way,
\* goes on to publish a match while the room is open.
LEMMA NextPair ==
  ASSUME TypeOK, EnteringUnseated, NoAgain, NoJoining, LeavingSeated, LeavingClosed,
         PairStarts, [Next]_vars
  PROVE  PairStarts'
<1> SUFFICES ASSUME rstate' \in OpenStates, BothRegistered', regMatch' = NoMatch
             PROVE  \E c \in Conns : pc'[c] \in Registering
  BY DEF PairStarts
<1>1. rstate \in OpenStates
  BY OpenStays
<1>2. ASSUME NEW c \in Conns PROVE ~Unregister(c) /\ ~WSRegister(c) /\ ~RemoveMatch(c)
  BY <1>1 DEF Unregister, WSRegister, RemoveMatch, Goto, LeavingClosed, AfterOpen,
     CleanupSteps, NoJoining, JoinSteps, NoAgain, AgainSteps
<1>3. ASSUME NEW c \in Conns, RejoinRegister(c) PROVE pc'[c] \in Registering
  BY <1>1, <1>3 DEF RejoinRegister, Goto, LeavingClosed, AfterOpen, Registering, TypeOK
<1>4. CASE UNCHANGED regConn
  <2>1. ASSUME NEW c \in Conns PROVE ~(StartPublish(c) /\ regMatch = NoMatch)
    BY SessionAssumption DEF StartPublish
  <2>2. regMatch = NoMatch
    BY <1>2, <2>1, Writers DEF StartPublish
  <2>3. BothRegistered
    BY <1>4 DEF BothRegistered
  <2>4. PICK c \in Conns : pc[c] \in Registering
    BY <1>1, <2>2, <2>3 DEF PairStarts
  <2>5. CASE pc'[c] = pc[c]
    BY <2>4, <2>5
  <2>6. CASE pc'[c] # pc[c]
    <3>1. CASE RejoinStep(c)
      <4>1. RejoinMatch(c) \/ RejoinClients(c)
        BY <2>4, <3>1 DEF RejoinStep, RejoinRemoveToken, RejoinClosed, RejoinWaiting,
           RejoinRegister, TryResumeMatch, Look, Goto, Registering
      <4> QED BY <2>2, <2>3, <4>1 DEF RejoinMatch, RejoinClients, Look, Goto, Registering,
         TypeOK
    <3>2. CASE StartStep(c)
      <4>1. StartClients(c) \/ StartExisting(c)
        BY <2>1, <2>2, <2>4, <3>2 DEF StartStep, StartPublish, StartReload, StartPlaying,
           StartAttach, StartRun, Goto, Registering
      <4> QED BY <2>2, <2>3, <4>1 DEF StartClients, StartExisting, Goto, Registering, TypeOK
    <3>3. ~ClientStep(c) /\ ~JoinStep(c) /\ ~ReadyStep(c) /\ ~AgainStep(c) /\ ~CleanupStep(c)
      BY <2>4, Targets DEF Registering, JoinSteps, ReadySteps, AgainSteps, CleanupSteps
    <3> QED BY <2>6, <3>1, <3>2, <3>3, OwnStep
  <2> QED BY <2>5, <2>6
<1> QED BY <1>2, <1>3, <1>4, Writers

\* Two players who entered with their tokens do not wait for each other: as soon
\* as nobody is half way through, a pair that is registered in an open room has a
\* match, whatever got ready, left or rejoined meanwhile.
THEOREM AutoStarts ==
  ASSUME "create" \notin Kinds, "join" \notin Kinds, "play_again" \notin Kinds
  PROVE  Spec => []AutoStart
<1>1. Init => AutoInv
  <2> SUFFICES ASSUME Init PROVE AutoInv
    OBVIOUS
  <2>1. TypeOK /\ EnteringUnseated
    BY InitAddressed DEF SeatInv
  <2>2. NoAgain /\ NoJoining /\ LeavingSeated /\ LeavingClosed
    BY DEF Init, NoAgain, AgainSteps, NoJoining, JoinSteps, LeavingSeated, LeavingClosed,
       AfterOpen, CleanupSteps
  <2>3. EnteredRoom /\ PairStarts
    BY DEF Init, EnteredRoom, PairStarts, BothRegistered, NobodyGot, Seats
  <2> QED BY <2>1, <2>2, <2>3 DEF AutoInv
<1>2. AutoInv /\ [Next]_vars => AutoInv'
  <2> SUFFICES ASSUME AutoInv, [Next]_vars PROVE AutoInv'
    OBVIOUS
  <2>1. TypeOK' /\ EnteringUnseated' /\ NoAgain' /\ NoJoining' /\ LeavingSeated'
    BY NextType, StaysUnseated, NobodyAgain, NobodyJoins, StaysLeaving DEF AutoInv
  <2>2. EnteredRoom' /\ LeavingClosed' /\ PairStarts'
    BY NextEntered, NextLeaving, NextPair DEF AutoInv
  <2> QED BY <2>1, <2>2 DEF AutoInv
<1>3. AutoInv => AutoStart
  <2> SUFFICES ASSUME AutoInv, Quiet, BothRegistered, rstate \in {"Waiting", "Ready"},
                      regMatch = NoMatch
               PROVE  FALSE
    BY DEF AutoStart
  <2>1. PICK c \in Conns : pc[c] \in Registering
    BY DEF AutoInv, PairStarts, OpenStates
  <2> QED BY <2>1 DEF Quiet, Registering
<1> QED BY <1>1, <1>2, <1>3, PTL DEF Spec
=============================================================================
