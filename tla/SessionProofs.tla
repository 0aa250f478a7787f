--------------------------- MODULE SessionProofs ---------------------------
(***************************************************************************)
(* What TLAPS proves of Session, for any number of connections, requests,  *)
(* matches and timers.                                                     *)
(*                                                                         *)
(* TypeCorrect is proved with one lemma per kind of step.  AddressedBySeat *)
(* is not inductive: a handler writes the registry with the seat it set    *)
(* two critical sections before, and StartPublish builds a bridge of what  *)
(* StartClients read.  SeatInv adds that a handler which will seat its     *)
(* connection runs on one without a seat (so a seat, once given, stays),   *)
(* and that the conns a handler has read sit where it read them.           *)
(* SeatExclusive needs in addition that nobody sits on a seat the room     *)
(* thinks empty, for AddPlayer hands those out.                            *)
(***************************************************************************)
EXTENDS Session, TLAPS

\* A player record stays one when the flags a room method sets are set.
LEMMA FlagUpdates ==
  ASSUME NEW p \in Player, NEW b \in BOOLEAN
  PROVE  /\ [p EXCEPT !.seated = b, !.connected = b] \in Player
         /\ [p EXCEPT !.connected = b] \in Player
         /\ [p EXCEPT !.ready = b] \in Player
         /\ [p EXCEPT !.rematch = b] \in Player
         /\ [p EXCEPT !.rematch = b, !.ready = b] \in Player
BY DEF Player

\* The two values AddPlayer and an empty seat give Room.Players.
LEMMA PlayerValues ==
  /\ NoPlayer \in Player
  /\ NewPlayer \in Player
<1>1. NoPlayer \in Player
  BY DEF NoPlayer, Player
<1>2. NewPlayer \in Player
  BY <1>1, FlagUpdates, TRUE \in BOOLEAN DEF NewPlayer
<1> QED BY <1>1, <1>2

\* Every step name of a handler is a value of pc.
LEMMA LabelNames ==
  /\ {"idle", "closed"} \subseteq Labels
  /\ StartSteps \subseteq Labels /\ JoinSteps \subseteq Labels
  /\ RejoinSteps \subseteq Labels /\ ReadySteps \subseteq Labels
  /\ AgainSteps \subseteq Labels /\ CleanupSteps \subseteq Labels
BY DEF Labels

\* The server starts with every variable in its type.
LEMMA InitType == Init => TypeOK
<1> SUFFICES ASSUME Init PROVE TypeOK
  OBVIOUS
<1>1. player \in [Seats -> Player]
  BY PlayerValues DEF Init
<1>2. "idle" \in Labels /\ "none" \in RoomStates /\ "unused" \in TimerPhases
      /\ "unused" \in MatchStates
  BY DEF Labels, RoomStates, TimerPhases, MatchStates
<1>3. NobodyGot \in [Seats -> Conns \cup {NoConn}]
  BY DEF NobodyGot
<1> QED
  BY <1>1, <1>2, <1>3 DEF Init, TypeOK

\* A critical section that only reads keeps the types.
LEMMA LookType ==
  ASSUME TypeOK, NEW c \in Conns, NEW from, NEW to \in Labels, Look(c, from, to)
  PROVE  TypeOK'
BY DEF Look, Goto, TypeOK, roomVars, regVars, matchVars, connVars

\* The critical sections of an HTTP request keep the types.
LEMMA ApiType ==
  ASSUME TypeOK, NEW r \in Reqs, ApiStep(r)
  PROVE  TypeOK'
<1>1. CASE ApiCreateRoom(r)
  BY <1>1 DEF ApiCreateRoom, CreateRoom, TypeOK, RoomStates, regVars, matchVars, connVars
<1>2. CASE ApiJoinCheck(r)
  BY <1>2 DEF ApiJoinCheck, TypeOK, roomVars, regVars, matchVars, connVars
<1>3. CASE ApiAddPlayer(r)
  <2>1. player' \in [Seats -> Player] /\ rstate' \in RoomStates /\ tokens' \in SUBSET Seats
    BY <1>3, PlayerValues DEF ApiAddPlayer, AddPlayer, TypeOK, RoomStates
  <2> QED
    BY <1>3, <2>1 DEF ApiAddPlayer, TypeOK, regVars, matchVars, connVars
<1> QED BY <1>1, <1>2, <1>3 DEF ApiStep

\* What a client sends keeps the types.
LEMMA ClientType ==
  ASSUME TypeOK, NEW c \in Conns, ClientStep(c)
  PROVE  TypeOK'
<1>1. CASE WSCreateRoom(c)
  BY <1>1 DEF WSCreateRoom, CreateRoom, Goto, TypeOK, RoomStates, Labels, JoinSteps,
              regVars, matchVars, connVars
<1>2. CASE WSJoinRoom(c)
  BY <1>2, LookType DEF WSJoinRoom, Labels, JoinSteps
<1>3. CASE Ready(c)
  BY <1>3, LookType DEF Ready, Labels, ReadySteps
<1>4. CASE PlayAgain(c)
  BY <1>4, LookType DEF PlayAgain, Labels, AgainSteps
<1>5. CASE Drop(c)
  BY <1>5, LookType DEF Drop, Labels, CleanupSteps
<1>6. ASSUME NEW s \in Seats, Rejoin(c, s) PROVE TypeOK'
  BY <1>6 DEF Rejoin, Goto, TypeOK, Labels, RejoinSteps, CleanupSteps, roomVars, regVars, matchVars
<1> QED BY <1>1, <1>2, <1>3, <1>4, <1>5, <1>6 DEF ClientStep

\* create_room and join_room keep the types.
LEMMA JoinType ==
  ASSUME TypeOK, NEW c \in Conns, JoinStep(c)
  PROVE  TypeOK'
<1>1. CASE WSAddPlayer(c)
  <2>1. player' \in [Seats -> Player] /\ rstate' \in RoomStates
        /\ seat' \in [Conns -> Seats \cup {NoSeat}]
    <3>1. ASSUME NEW s \in Seats, AddPlayer(s), seat' = [seat EXCEPT ![c] = s]
          PROVE  /\ player' \in [Seats -> Player] /\ rstate' \in RoomStates
                 /\ seat' \in [Conns -> Seats \cup {NoSeat}]
      BY <3>1, PlayerValues DEF AddPlayer, TypeOK, RoomStates
    <3>2. CASE UNCHANGED <<player, rstate, seat>>
      BY <3>2 DEF TypeOK
    <3> QED
      BY <1>1, <3>1, <3>2 DEF WSAddPlayer
  <2>2. \E to \in Labels : pc' = [pc EXCEPT ![c] = to]
    BY <1>1, LabelNames DEF WSAddPlayer, Goto, JoinSteps
  <2> QED
    BY <1>1, <2>1, <2>2 DEF WSAddPlayer, TypeOK, regVars, matchVars
<1>2. CASE WSRegister(c)
  BY <1>2 DEF WSRegister, SetConn, Goto, TypeOK, Labels, JoinSteps, roomVars, matchVars, connVars
<1>3. CASE JoinCheck(c)
  BY <1>3, LookType DEF JoinCheck, Labels, StartSteps
<1> QED BY <1>1, <1>2, <1>3 DEF JoinStep

\* handleRejoin keeps the types.
LEMMA RejoinType ==
  ASSUME TypeOK, NEW c \in Conns, RejoinStep(c)
  PROVE  TypeOK'
<1>1. CASE RejoinRemoveToken(c)
  BY <1>1 DEF RejoinRemoveToken, Goto, TypeOK, Labels, RejoinSteps, CleanupSteps,
              roomVars, regVars, matchVars, connVars
<1>2. CASE RejoinClosed(c)
  BY <1>2, LookType DEF RejoinClosed, Labels, RejoinSteps, CleanupSteps
<1>3. CASE RejoinWaiting(c)
  BY <1>3, LookType DEF RejoinWaiting, Labels, RejoinSteps
<1>4. CASE RejoinRegister(c)
  BY <1>4 DEF RejoinRegister, SetConn, Goto, TypeOK, Labels, RejoinSteps, roomVars, matchVars
<1>5. CASE TryResumeMatch(c)
  BY <1>5, SessionAssumption
  DEF TryResumeMatch, StopReconnectTimer, Goto, TypeOK, Labels, RejoinSteps, RoomStates,
      TimerPhases, regVars, matchVars, connVars
<1>6. CASE RejoinMatch(c)
  BY <1>6 DEF RejoinMatch, Goto, TypeOK, Labels, RejoinSteps, roomVars, regVars, matchVars
<1>7. CASE RejoinClients(c)
  BY <1>7, LookType DEF RejoinClients, Labels, StartSteps
<1> QED BY <1>1, <1>2, <1>3, <1>4, <1>5, <1>6, <1>7 DEF RejoinStep

\* startMatchForRoom keeps the types.
LEMMA StartType ==
  ASSUME TypeOK, NEW c \in Conns, StartStep(c)
  PROVE  TypeOK'
<1> USE DEF Labels, StartSteps
<1>1. CASE StartClients(c)
  BY <1>1 DEF StartClients, Goto, TypeOK, NobodyGot, roomVars, regVars, matchVars
<1>2. CASE StartExisting(c)
  BY <1>2 DEF StartExisting, Goto, TypeOK, NobodyGot, roomVars, regVars, matchVars
<1>3. CASE StartPublish(c)
  BY <1>3 DEF StartPublish, Goto, TypeOK, MatchStates, roomVars
<1>4. CASE StartReload(c)
  BY <1>4 DEF StartReload, Goto, TypeOK, NobodyGot, roomVars, regVars, matchVars
<1>5. CASE StartPlaying(c)
  BY <1>5 DEF StartPlaying, Goto, TypeOK, RoomStates, regVars, matchVars, connVars
<1>6. CASE StartAttach(c)
  BY <1>6 DEF StartAttach, SetMatch, Goto, TypeOK, roomVars, regVars, matchVars
<1>7. CASE StartRun(c)
  BY <1>7 DEF StartRun, Start, Goto, TypeOK, MatchStates, NobodyGot, roomVars, regVars
<1> QED BY <1>1, <1>2, <1>3, <1>4, <1>5, <1>6, <1>7 DEF StartStep

\* handleReady and handlePlayAgain keep the types.
LEMMA AgainType ==
  ASSUME TypeOK, NEW c \in Conns, ReadyStep(c) \/ AgainStep(c)
  PROVE  TypeOK'
<1> USE DEF Labels, ReadySteps, AgainSteps
<1>0. TRUE \in BOOLEAN /\ FALSE \in BOOLEAN
  OBVIOUS
<1>1. CASE SetReady(c)
  <2>1. player' \in [Seats -> Player]
    BY <1>0, <1>1, FlagUpdates DEF SetReady, TypeOK
  <2> QED
    BY <1>1, <2>1 DEF SetReady, Goto, TypeOK, regVars, matchVars, connVars
<1>2. CASE ReadyBoth(c)
  BY <1>2, LookType DEF ReadyBoth, StartSteps
<1>3. CASE SetRematch(c)
  <2>1. player' \in [Seats -> Player]
    BY <1>0, <1>3, FlagUpdates DEF SetRematch, TypeOK
  <2> QED
    BY <1>3, <2>1 DEF SetRematch, Goto, TypeOK, regVars, matchVars, connVars
<1>4. CASE AgainBoth(c)
  BY <1>4, LookType DEF AgainBoth
<1>5. CASE ResetForRematch(c)
  <2>1. player' \in [Seats -> Player]
    BY <1>0, <1>5, FlagUpdates DEF ResetForRematch, TypeOK
  <2> QED
    BY <1>5, <2>1 DEF ResetForRematch, Goto, TypeOK, RoomStates, regVars, matchVars, connVars
<1>6. CASE AgainClients(c)
  BY <1>6, LookType DEF AgainClients
<1>7. CASE RemoveMatch(c)
  BY <1>7 DEF RemoveMatch, Goto, TypeOK, StartSteps, roomVars, matchVars, connVars
<1> QED BY <1>1, <1>2, <1>3, <1>4, <1>5, <1>6, <1>7 DEF ReadyStep, AgainStep

\* cleanupAndClose keeps the types.
LEMMA CleanupType ==
  ASSUME TypeOK, NEW c \in Conns, CleanupStep(c)
  PROVE  TypeOK'
<1> USE DEF Labels, CleanupSteps
<1>0. TRUE \in BOOLEAN /\ FALSE \in BOOLEAN
  OBVIOUS
<1>1. CASE Cleanup(c)
  BY <1>1, LookType DEF Cleanup
<1>2. CASE MarkDisconnected(c)
  <2>1. player' \in [Seats -> Player]
    BY <1>0, <1>2, FlagUpdates DEF MarkDisconnected, TypeOK
  <2> QED
    BY <1>2, <2>1 DEF MarkDisconnected, Goto, TypeOK, regVars, matchVars, connVars
<1>3. CASE SetWaitingReconnect(c)
  BY <1>3 DEF SetWaitingReconnect, Goto, TypeOK, RoomStates, regVars, matchVars, connVars
<1>4. CASE StartReconnectTimer(c)
  BY <1>4 DEF StartReconnectTimer, Goto, TypeOK, TimerPhases, regVars, matchVars, connVars
<1>5. CASE ForceSecondDisconnect(c)
  BY <1>5 DEF ForceSecondDisconnect, StopReconnectTimer, Goto, TypeOK, RoomStates,
              TimerPhases, regVars, matchVars, connVars
<1>6. CASE StopMatch(c)
  BY <1>6 DEF StopMatch, Stop, Goto, TypeOK, MatchStates, roomVars, regVars, connVars
<1>7. CASE LeaveRoom(c)
  <2>1. player' \in [Seats -> Player] /\ rstate' \in RoomStates
    BY <1>0, <1>7, FlagUpdates DEF LeaveRoom, RemovePlayer, TypeOK, RoomStates
  <2> QED
    BY <1>7, <2>1 DEF LeaveRoom, Goto, TypeOK, regVars, matchVars, connVars
<1>8. CASE Unregister(c)
  BY <1>8 DEF Unregister, Goto, TypeOK, NobodyGot, roomVars, matchVars, connVars
<1> QED BY <1>1, <1>2, <1>3, <1>4, <1>5, <1>6, <1>7, <1>8 DEF CleanupStep

\* Timers, match loops and the janitors keep the types.
LEMMA BackgroundType ==
  ASSUME TypeOK,
         \/ \E t \in Timers : TimerStep(t)
         \/ \E m \in Matches : MatchStep(m)
         \/ CleanupStaleRooms
         \/ CleanupStaleTokens
  PROVE  TypeOK'
<1>1. ASSUME NEW t \in Timers, TimerStep(t) PROVE TypeOK'
  <2>1. CASE TimerFires(t)
    BY <2>1 DEF TimerFires, TypeOK, TimerPhases, regVars, matchVars, connVars
  <2>2. CASE ReconnectExpires(t)
    BY <2>2 DEF ReconnectExpires, TypeOK, TimerPhases, RoomStates, regVars, matchVars, connVars
  <2>3. CASE TimerCloses(t)
    BY <2>3 DEF TimerCloses, TypeOK, TimerPhases, regVars, matchVars, connVars
  <2> QED BY <1>1, <2>1, <2>2, <2>3 DEF TimerStep
<1>2. ASSUME NEW m \in Matches, MatchStep(m) PROVE TypeOK'
  BY <1>2 DEF MatchStep, MatchGameOver, MatchTimeout, LoopExits, TypeOK, MatchStates,
              roomVars, regVars, connVars
<1>3. CASE CleanupStaleRooms
  BY <1>3 DEF CleanupStaleRooms, TypeOK, roomVars, regVars, matchVars, connVars
<1>4. CASE CleanupStaleTokens
  BY <1>4 DEF CleanupStaleTokens, TypeOK, roomVars, regVars, matchVars, connVars
<1> QED BY <1>1, <1>2, <1>3, <1>4

\* Every step of the server keeps the types.
LEMMA NextType == TypeOK /\ [Next]_vars => TypeOK'
<1> SUFFICES ASSUME TypeOK, [Next]_vars PROVE TypeOK'
  OBVIOUS
<1>1. CASE UNCHANGED vars
  BY <1>1 DEF vars, roomVars, regVars, matchVars, connVars, TypeOK
<1>2. ASSUME NEW c \in Conns, ClientStep(c) \/ HandlerStep(c) PROVE TypeOK'
  BY <1>2, ClientType, JoinType, RejoinType, StartType, AgainType, CleanupType DEF HandlerStep
<1>3. ASSUME NEW r \in Reqs, ApiStep(r) PROVE TypeOK'
  BY <1>3, ApiType
<1> QED BY <1>1, <1>2, <1>3, BackgroundType DEF Next

\* In every reachable state each variable has the value its Go declaration
\* allows: no method leaves a room, a controller or a timer in a state of
\* another's life cycle.
THEOREM TypeCorrect == Spec => []TypeOK
BY InitType, NextType, PTL DEF Spec

-----------------------------------------------------------------------------
(* AddressedBySeat.                                                         *)

addrVars == <<seat, regConn, bridge, got>>

\* The inductive invariant holds before anybody connects.
LEMMA InitAddressed == Init => SeatInv
<1> SUFFICES ASSUME Init PROVE SeatInv
  OBVIOUS
<1>1. TypeOK
  BY InitType
<1>2. EnteringUnseated
  BY DEF Init, EnteringUnseated, Entering
<1>3. GotBySeat /\ AddressedBySeat
  BY DEF Init, GotBySeat, AddressedBySeat, NobodyGot
<1> QED BY <1>1, <1>2, <1>3 DEF SeatInv

\* A handler that seats its connection runs on a connection without a seat.
LEMMA StaysUnseated ==
  ASSUME TypeOK, EnteringUnseated, [Next]_vars
  PROVE  EnteringUnseated'
<1> USE DEF EnteringUnseated, Entering, Goto, Look, TypeOK
<1>1. ASSUME NEW c \in Conns, ClientStep(c) PROVE EnteringUnseated'
  <2>1. CASE WSCreateRoom(c)  BY <2>1 DEF WSCreateRoom, connVars
  <2>2. CASE WSJoinRoom(c)    BY <2>2 DEF WSJoinRoom, connVars
  <2>3. CASE Ready(c)         BY <2>3 DEF Ready, connVars
  <2>4. CASE PlayAgain(c)     BY <2>4 DEF PlayAgain, connVars
  <2>5. CASE Drop(c)          BY <2>5 DEF Drop, connVars
  <2>6. ASSUME NEW s \in Seats, Rejoin(c, s) PROVE EnteringUnseated'
    BY <2>6 DEF Rejoin
  <2> QED BY <1>1, <2>1, <2>2, <2>3, <2>4, <2>5, <2>6 DEF ClientStep
<1>2. ASSUME NEW c \in Conns, JoinStep(c) PROVE EnteringUnseated'
  BY <1>2 DEF JoinStep, WSAddPlayer, WSRegister, JoinCheck, connVars
<1>3. ASSUME NEW c \in Conns, RejoinStep(c) PROVE EnteringUnseated'
  BY <1>3 DEF RejoinStep, RejoinRemoveToken, RejoinClosed, RejoinWaiting, RejoinRegister,
              TryResumeMatch, RejoinMatch, RejoinClients, connVars
<1>4. ASSUME NEW c \in Conns, StartStep(c) PROVE EnteringUnseated'
  BY <1>4 DEF StartStep, StartClients, StartExisting, StartPublish, StartReload,
              StartPlaying, StartAttach, StartRun, connVars
<1>5. ASSUME NEW c \in Conns, ReadyStep(c) \/ AgainStep(c) PROVE EnteringUnseated'
  BY <1>5 DEF ReadyStep, AgainStep, SetReady, ReadyBoth, SetRematch, AgainBoth,
              ResetForRematch, AgainClients, RemoveMatch, connVars
<1>6. ASSUME NEW c \in Conns, CleanupStep(c) PROVE EnteringUnseated'
  BY <1>6 DEF CleanupStep, Cleanup, MarkDisconnected, SetWaitingReconnect,
              StartReconnectTimer, ForceSecondDisconnect, StopMatch, LeaveRoom,
              Unregister, connVars
<1>7. ASSUME UNCHANGED <<pc, seat>> PROVE EnteringUnseated'
  BY <1>7
<1> QED BY <1>1, <1>2, <1>3, <1>4, <1>5, <1>6, <1>7
        DEF Next, HandlerStep, TimerStep, TimerFires, ReconnectExpires, TimerCloses,
            MatchStep, MatchGameOver, MatchTimeout, LoopExits, ApiStep, ApiCreateRoom,
            ApiJoinCheck, ApiAddPlayer, CleanupStaleRooms, CleanupStaleTokens, vars,
            connVars

\* What the registry, the bridges and the handlers refer to, when nothing of it
\* is written.
LEMMA AddressesStay ==
  ASSUME GotBySeat, AddressedBySeat, UNCHANGED addrVars
  PROVE  GotBySeat' /\ AddressedBySeat'
BY DEF addrVars, GotBySeat, AddressedBySeat

\* create_room and join_room register a connection on the seat they gave it.
LEMMA JoinAddressed ==
  ASSUME SeatInv, NEW c \in Conns, JoinStep(c)
  PROVE  GotBySeat' /\ AddressedBySeat'
<1> USE DEF SeatInv, Goto
<1>1. CASE WSAddPlayer(c)
  <2>1. seat[c] = NoSeat
    BY <1>1 DEF WSAddPlayer, EnteringUnseated, Entering
  <2>2. \A d \in Conns : seat[d] # NoSeat => seat'[d] = seat[d]
    BY <1>1, <2>1 DEF WSAddPlayer, TypeOK
  <2>3. UNCHANGED <<regConn, bridge, got>>
    BY <1>1 DEF WSAddPlayer, regVars, matchVars
  <2> QED
    BY <2>2, <2>3, SessionAssumption DEF GotBySeat, AddressedBySeat, TypeOK, Seats, NoSeat
<1>2. CASE WSRegister(c)
  BY <1>2 DEF WSRegister, SetConn, GotBySeat, AddressedBySeat, TypeOK, matchVars, connVars
<1>3. CASE JoinCheck(c)
  BY <1>3, AddressesStay DEF JoinCheck, Look, addrVars, regVars, matchVars, connVars
<1> QED BY <1>1, <1>2, <1>3 DEF JoinStep

\* handleRejoin registers a connection on the seat of its token.
LEMMA RejoinAddressed ==
  ASSUME SeatInv, NEW c \in Conns, RejoinStep(c)
  PROVE  GotBySeat' /\ AddressedBySeat'
<1> USE DEF SeatInv
<1>1. CASE RejoinRegister(c)
  <2>1. seat[c] = NoSeat
    BY <1>1 DEF RejoinRegister, Goto, EnteringUnseated, Entering
  <2>2. \A d \in Conns : seat[d] # NoSeat => seat'[d] = seat[d]
    BY <1>1, <2>1 DEF RejoinRegister, TypeOK
  <2>3. UNCHANGED <<bridge, got>> /\ seat'[c] = entry[c]
        /\ regConn' = [regConn EXCEPT ![entry[c]] = c]
    BY <1>1 DEF RejoinRegister, SetConn, matchVars, TypeOK
  <2> QED
    <3>1. GotBySeat'
      BY <2>2, <2>3, SessionAssumption DEF GotBySeat, TypeOK, Seats, NoSeat
    <3>2. \A s \in Seats : regConn'[s] # NoConn => seat'[regConn'[s]] = s
      BY <2>2, <2>3, SessionAssumption DEF AddressedBySeat, TypeOK, Seats, NoSeat
    <3>3. \A s \in Seats, m \in Matches :
             bridge'[m][s] # NoConn => seat'[bridge'[m][s]] = s
      BY <2>2, <2>3, SessionAssumption DEF AddressedBySeat, TypeOK, Seats, NoSeat
    <3> QED BY <3>1, <3>2, <3>3 DEF AddressedBySeat
<1>2. CASE UNCHANGED addrVars
  BY <1>2, AddressesStay
<1> QED
  BY <1>1, <1>2 DEF RejoinStep, RejoinRemoveToken, RejoinClosed, RejoinWaiting,
     TryResumeMatch, RejoinMatch, RejoinClients, Look, addrVars, regVars, matchVars, connVars

\* startMatchForRoom reads, and builds bridges of, connections by their seats.
LEMMA StartAddressed ==
  ASSUME SeatInv, NEW c \in Conns, StartStep(c)
  PROVE  GotBySeat' /\ AddressedBySeat'
<1> USE DEF SeatInv
<1>1. CASE StartClients(c)
  BY <1>1 DEF StartClients, GotBySeat, AddressedBySeat, TypeOK, NobodyGot, regVars, matchVars
<1>2. CASE StartExisting(c)
  BY <1>2 DEF StartExisting, GotBySeat, AddressedBySeat, TypeOK, NobodyGot, regVars, matchVars
<1>3. CASE StartPublish(c)
  BY <1>3 DEF StartPublish, GotBySeat, AddressedBySeat, TypeOK
<1>4. CASE StartReload(c)
  BY <1>4 DEF StartReload, GotBySeat, AddressedBySeat, TypeOK, NobodyGot, regVars, matchVars
<1>5. CASE StartRun(c)
  BY <1>5 DEF StartRun, GotBySeat, AddressedBySeat, TypeOK, NobodyGot, regVars
<1>6. CASE StartPlaying(c) \/ StartAttach(c)
  BY <1>6, AddressesStay DEF StartPlaying, StartAttach, addrVars, regVars, matchVars, connVars
<1> QED BY <1>1, <1>2, <1>3, <1>4, <1>5, <1>6 DEF StartStep

\* cleanupAndClose only takes connections out of the registry.
LEMMA CleanupAddressed ==
  ASSUME SeatInv, NEW c \in Conns, CleanupStep(c)
  PROVE  GotBySeat' /\ AddressedBySeat'
<1> USE DEF SeatInv
<1>1. CASE Unregister(c)
  BY <1>1 DEF Unregister, GotBySeat, AddressedBySeat, TypeOK, NobodyGot, matchVars, connVars
<1>2. CASE UNCHANGED addrVars
  BY <1>2, AddressesStay
<1> QED
  BY <1>1, <1>2 DEF CleanupStep, Cleanup, MarkDisconnected, SetWaitingReconnect,
     StartReconnectTimer, ForceSecondDisconnect, StopMatch, LeaveRoom, Look, addrVars,
     regVars, matchVars, connVars

\* Every step of the server keeps the inductive invariant.
LEMMA NextAddressed == SeatInv /\ [Next]_vars => SeatInv'
<1> SUFFICES ASSUME SeatInv, [Next]_vars PROVE SeatInv'
  OBVIOUS
<1>1. TypeOK' /\ EnteringUnseated'
  BY NextType, StaysUnseated DEF SeatInv
<1>2. ASSUME NEW c \in Conns,
             \/ JoinStep(c) \/ RejoinStep(c) \/ StartStep(c) \/ CleanupStep(c)
      PROVE  GotBySeat' /\ AddressedBySeat'
  BY <1>2, JoinAddressed, RejoinAddressed, StartAddressed, CleanupAddressed
<1>3. ASSUME NEW c \in Conns, ClientStep(c) \/ ReadyStep(c) \/ AgainStep(c)
      PROVE  UNCHANGED addrVars
  BY <1>3 DEF ClientStep, WSCreateRoom, WSJoinRoom, Ready, PlayAgain, Drop, Rejoin,
     ReadyStep, SetReady, ReadyBoth, AgainStep, SetRematch, AgainBoth, ResetForRematch,
     AgainClients, RemoveMatch, Look, addrVars, regVars, matchVars, connVars
<1>4. ASSUME \/ \E t \in Timers : TimerStep(t)
             \/ \E m \in Matches : MatchStep(m)
             \/ \E r \in Reqs : ApiStep(r)
             \/ CleanupStaleRooms \/ CleanupStaleTokens
             \/ UNCHANGED vars
      PROVE  UNCHANGED addrVars
  BY <1>4 DEF TimerStep, TimerFires, ReconnectExpires, TimerCloses, MatchStep,
     MatchGameOver, MatchTimeout, LoopExits, ApiStep, ApiCreateRoom, ApiJoinCheck,
     ApiAddPlayer, CleanupStaleRooms, CleanupStaleTokens, vars, addrVars, regVars,
     matchVars, connVars
<1>5. GotBySeat' /\ AddressedBySeat'
  BY <1>2, <1>3, <1>4, AddressesStay DEF Next, HandlerStep, SeatInv
<1> QED BY <1>1, <1>5 DEF SeatInv

\* Whatever interleaves, the registry and the bridge of every match address a
\* seat's ticks and messages to a connection that entered on that seat.
THEOREM Addressed == Spec => []AddressedBySeat
<1>1. SeatInv => AddressedBySeat
  BY DEF SeatInv
<1> QED BY <1>1, InitAddressed, NextAddressed, PTL DEF Spec

-----------------------------------------------------------------------------
(* SeatExclusive, where no client sends rejoin.                             *)

\* No room method empties a seat.
LEMMA SeatedStays ==
  ASSUME TypeOK, [Next]_vars, NEW s \in Seats, player[s].seated
  PROVE  player'[s].seated
<1>1. CASE UNCHANGED player
  BY <1>1
<1>2. ASSUME NEW t \in Seats, AddPlayer(t) PROVE player'[s].seated
  BY <1>2 DEF AddPlayer, FreeSeat, TypeOK, Player
<1>3. ASSUME NEW t, RemovePlayer(t) \/ player' = [player EXCEPT ![t].connected = FALSE]
      PROVE  player'[s].seated
  BY <1>3 DEF RemovePlayer, TypeOK, Player
<1>4. ASSUME NEW c \in Conns, SetReady(c) PROVE player'[s].seated
  <2>1. CASE player' = [player EXCEPT ![seat[c]].ready = TRUE]
    BY <2>1 DEF TypeOK, Player
  <2> QED BY <1>1, <1>4, <2>1 DEF SetReady
<1>5. ASSUME NEW c \in Conns, SetRematch(c) PROVE player'[s].seated
  <2>1. player' = [player EXCEPT ![seat[c]].rematch = TRUE]
    BY <1>5 DEF SetRematch
  <2> QED BY <2>1 DEF TypeOK, Player
<1>6. ASSUME NEW c \in Conns, ResetForRematch(c) PROVE player'[s].seated
  <2>1. player'[s] = [player[s] EXCEPT !.rematch = FALSE, !.ready = FALSE]
    BY <1>6 DEF ResetForRematch
  <2>2. player[s] \in Player
    BY DEF TypeOK
  <2> QED BY <2>1, <2>2 DEF Player
<1>7. ASSUME NEW c \in Conns, JoinStep(c) PROVE player'[s].seated
  BY <1>1, <1>2, <1>7 DEF JoinStep, WSAddPlayer, WSRegister, JoinCheck, Look, roomVars
<1>8. ASSUME NEW c \in Conns, CleanupStep(c) PROVE player'[s].seated
  BY <1>1, <1>3, <1>8 DEF CleanupStep, Cleanup, MarkDisconnected, SetWaitingReconnect,
     StartReconnectTimer, ForceSecondDisconnect, StopMatch, LeaveRoom, Unregister, Look,
     roomVars
<1>9. ASSUME NEW r \in Reqs, ApiStep(r) PROVE player'[s].seated
  BY <1>1, <1>2, <1>9 DEF ApiStep, ApiCreateRoom, CreateRoom, ApiJoinCheck, ApiAddPlayer,
     roomVars
<1>10. ASSUME NEW c \in Conns, ClientStep(c) \/ RejoinStep(c) \/ StartStep(c)
                               \/ ReadyStep(c) \/ AgainStep(c)
       PROVE  player'[s].seated
  BY <1>1, <1>4, <1>5, <1>6, <1>10 DEF ClientStep, WSCreateRoom, CreateRoom, WSJoinRoom, Ready,
     PlayAgain, Drop, Rejoin, RejoinStep, RejoinRemoveToken, RejoinClosed, RejoinWaiting,
     RejoinRegister, TryResumeMatch, RejoinMatch, RejoinClients, StartStep, StartClients,
     StartExisting, StartPublish, StartReload, StartPlaying, StartAttach, StartRun,
     ReadyStep, ReadyBoth, AgainStep, AgainBoth, AgainClients, RemoveMatch, Look, roomVars
<1>11. ASSUME \/ \E t \in Timers : TimerStep(t)
              \/ \E m \in Matches : MatchStep(m)
              \/ CleanupStaleRooms \/ CleanupStaleTokens
              \/ UNCHANGED vars
       PROVE  UNCHANGED player
  BY <1>11 DEF TimerStep, TimerFires, ReconnectExpires, TimerCloses, MatchStep,
     MatchGameOver, MatchTimeout, LoopExits, CleanupStaleRooms, CleanupStaleTokens, vars,
     roomVars
<1> QED
  BY <1>1, <1>7, <1>8, <1>9, <1>10, <1>11 DEF Next, HandlerStep

\* A connection enters the rejoin handler on a rejoin message only.
LEMMA NobodyRejoins ==
  ASSUME "rejoin" \notin Kinds, TypeOK, NoRejoining, [Next]_vars
  PROVE  NoRejoining'
<1> USE DEF NoRejoining, RejoinSteps, Goto, Look, TypeOK
<1>1. ASSUME NEW c \in Conns, ClientStep(c) PROVE NoRejoining'
  <2>1. ASSUME NEW s \in Seats PROVE ~Rejoin(c, s)
    BY DEF Rejoin
  <2>2. \E to \in {"createAdd", "joinAdd", "readySet", "againSet", "cleanup"} :
           pc' = [pc EXCEPT ![c] = to]
    BY <1>1, <2>1 DEF ClientStep, WSCreateRoom, WSJoinRoom, Ready, PlayAgain, Drop
  <2> QED BY <2>2
<1>2. ASSUME NEW c \in Conns, JoinStep(c) PROVE NoRejoining'
  <2>1. \E to \in {"createRegister", "joinRegister", "joinCheck", "idle", "startClients"} :
           pc' = [pc EXCEPT ![c] = to]
    BY <1>2 DEF JoinStep, WSAddPlayer, WSRegister, JoinCheck
  <2> QED BY <2>1
<1>3. ASSUME NEW c \in Conns PROVE ~RejoinStep(c)
  BY DEF RejoinStep, RejoinRemoveToken, RejoinClosed, RejoinWaiting, RejoinRegister,
     TryResumeMatch, RejoinMatch, RejoinClients
<1>4. ASSUME NEW c \in Conns, StartStep(c) PROVE NoRejoining'
  <2>1. \E to \in StartSteps \cup {"idle"} : pc' = [pc EXCEPT ![c] = to]
    BY <1>4 DEF StartSteps, StartStep, StartClients, StartExisting, StartPublish,
       StartReload, StartPlaying, StartAttach, StartRun
  <2> QED BY <2>1 DEF StartSteps
<1>5. ASSUME NEW c \in Conns, ReadyStep(c) \/ AgainStep(c) PROVE NoRejoining'
  <2>1. \E to \in ReadySteps \cup AgainSteps \cup {"idle", "startClients"} :
           pc' = [pc EXCEPT ![c] = to]
    BY <1>5 DEF ReadySteps, AgainSteps, ReadyStep, AgainStep, SetReady, ReadyBoth,
       SetRematch, AgainBoth, ResetForRematch, AgainClients, RemoveMatch
  <2> QED BY <2>1 DEF ReadySteps, AgainSteps
<1>6. ASSUME NEW c \in Conns, CleanupStep(c) PROVE NoRejoining'
  <2>1. \E to \in CleanupSteps \cup {"closed"} : pc' = [pc EXCEPT ![c] = to]
    BY <1>6 DEF CleanupSteps, CleanupStep, Cleanup, MarkDisconnected,
       SetWaitingReconnect, StartReconnectTimer, ForceSecondDisconnect, StopMatch,
       LeaveRoom, Unregister
  <2> QED BY <2>1 DEF CleanupSteps
<1>7. ASSUME UNCHANGED pc PROVE NoRejoining'
  BY <1>7
<1> QED
  BY <1>1, <1>2, <1>3, <1>4, <1>5, <1>6, <1>7
  DEF Next, HandlerStep, TimerStep, TimerFires, ReconnectExpires, TimerCloses, MatchStep,
      MatchGameOver, MatchTimeout, LoopExits, ApiStep, ApiCreateRoom, ApiJoinCheck,
      ApiAddPlayer, CleanupStaleRooms, CleanupStaleTokens, vars

\* Where nobody rejoins, the seat a connection is given is one nobody sits on.
LEMMA NextExclusive ==
  ASSUME "rejoin" \notin Kinds, ExclusiveInv, [Next]_vars
  PROVE  ExclusiveInv'
<1> USE DEF ExclusiveInv
<1>1. SeatInv' /\ NoRejoining'
  BY NextAddressed, NobodyRejoins DEF SeatInv
<1>2. TypeOK /\ TypeOK'
  BY <1>1 DEF SeatInv
<1>3. CASE UNCHANGED seat
  <2>1. SittingOnSeat'
    BY <1>2, <1>3, SeatedStays DEF SittingOnSeat, TypeOK, NoSeat
  <2> QED BY <1>1, <1>3, <2>1 DEF SeatExclusive
<1>4. ASSUME NEW c \in Conns, NEW s \in Seats, AddPlayer(s),
             seat' = [seat EXCEPT ![c] = s]
      PROVE  ExclusiveInv'
  <2>1. ~player[s].seated
    BY <1>4 DEF AddPlayer, FreeSeat
  <2>2. \A d \in Conns : seat[d] # s
    BY <2>1 DEF SittingOnSeat, Seats, NoSeat
  <2>3. SeatExclusive'
    BY <1>2, <1>4, <2>2 DEF SeatExclusive, TypeOK
  <2>4. player'[s].seated
    BY <1>2, <1>4 DEF AddPlayer, NewPlayer, NoPlayer, TypeOK
  <2>5. SittingOnSeat'
    BY <1>2, <1>4, <2>4, SeatedStays DEF SittingOnSeat, TypeOK, NoSeat
  <2> QED BY <1>1, <2>3, <2>5
<1>5. ASSUME NEW c \in Conns PROVE ~RejoinRegister(c)
  BY DEF NoRejoining, RejoinRegister, Goto, RejoinSteps
<1>6. UNCHANGED seat
      \/ \E c \in Conns, s \in Seats : AddPlayer(s) /\ seat' = [seat EXCEPT ![c] = s]
  <2>1. ASSUME NEW c \in Conns, ClientStep(c) PROVE UNCHANGED seat
    BY <2>1 DEF ClientStep, WSCreateRoom, WSJoinRoom, Ready, PlayAgain, Drop, Rejoin,
       Look, connVars
  <2>2. ASSUME NEW c \in Conns, JoinStep(c), seat' # seat
        PROVE  \E s \in Seats : AddPlayer(s) /\ seat' = [seat EXCEPT ![c] = s]
    BY <2>2 DEF JoinStep, WSAddPlayer, WSRegister, JoinCheck, Look, connVars
  <2>3. ASSUME NEW c \in Conns, RejoinStep(c) \/ StartStep(c) PROVE UNCHANGED seat
    BY <1>5, <2>3 DEF RejoinStep, RejoinRemoveToken, RejoinClosed, RejoinWaiting,
       TryResumeMatch, RejoinMatch, RejoinClients, StartStep, StartClients, StartExisting,
       StartPublish, StartReload, StartPlaying, StartAttach, StartRun, Look, connVars
  <2>4. ASSUME NEW c \in Conns, ReadyStep(c) \/ AgainStep(c) \/ CleanupStep(c)
        PROVE  UNCHANGED seat
    BY <2>4 DEF ReadyStep, AgainStep, SetReady, ReadyBoth, SetRematch, AgainBoth,
       ResetForRematch, AgainClients, RemoveMatch, CleanupStep, Cleanup,
       MarkDisconnected, SetWaitingReconnect, StartReconnectTimer, ForceSecondDisconnect,
       StopMatch, LeaveRoom, Unregister, Look, connVars
  <2> QED
    BY <2>1, <2>2, <2>3, <2>4
    DEF Next, HandlerStep, TimerStep, TimerFires, ReconnectExpires, TimerCloses,
        MatchStep, MatchGameOver, MatchTimeout, LoopExits, ApiStep, ApiCreateRoom,
        ApiJoinCheck, ApiAddPlayer, CleanupStaleRooms, CleanupStaleTokens, vars, connVars
<1> QED BY <1>3, <1>4, <1>6

\* Where players enter by create_room and join_room only (a token can be
\* presented twice, and then takes the seat over), no two connections ever sit
\* on the same seat: AddPlayer decides the race of concurrent joins.
THEOREM SeatsExclusive ==
  ASSUME "rejoin" \notin Kinds
  PROVE  Spec => []SeatExclusive
<1>1. Init => ExclusiveInv
  BY InitAddressed
  DEF Init, ExclusiveInv, NoRejoining, RejoinSteps, SittingOnSeat, SeatExclusive
<1>2. ExclusiveInv /\ [Next]_vars => ExclusiveInv'
  BY NextExclusive
<1>3. ExclusiveInv => SeatExclusive
  BY DEF ExclusiveInv
<1> QED BY <1>1, <1>2, <1>3, PTL DEF Spec
=============================================================================
