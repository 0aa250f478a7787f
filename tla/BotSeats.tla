------------------------------ MODULE BotSeats ------------------------------
(***************************************************************************)
(* Who gets a seat when humans and bots compete for the two seats of a     *)
(* room: the bot manager, which seats a bot and starts a subprocess for    *)
(* it, the auto-fill timer, the loop that keeps one bot-against-bot match  *)
(* alive, and the humans who create and join rooms.                        *)
(*                                                                         *)
(* A bot's seat is reserved, then taken, and then a process is started,    *)
(* in three critical sections with the humans' between them.  AddPlayer    *)
(* respects a reservation; AddBotPlayerAt relies on it and does not look   *)
(* whether the seat is empty.                                              *)
(*                                                                         *)
(* The end of a connection, which module Session has in full, is one       *)
(* action here (Depart).                                                   *)
(***************************************************************************)
EXTENDS Naturals, FiniteSets

CONSTANTS
  Rooms,     \* room codes; bounds the rooms ever created
  Humans,    \* humans, each of whom creates or joins one room
  Bot, Nobody,
  NoRoom,
  MaxBots    \* -max-bots: concurrent subprocesses, 0 for no limit

ASSUME BotSeatsAssumption ==
  /\ Nobody # Bot /\ Nobody \notin Humans /\ Bot \notin Humans
  /\ NoRoom \notin Rooms
  /\ MaxBots \in Nat

Seats == {1, 2}
Other(s) == 3 - s

VARIABLES
  policy,     \* Room.AllowBot / AutoFillBot, as the way the room was created
  inHub,      \* Hub.rooms holds the room
  rstate,     \* Room.State
  occupant,   \* Room.Players: who sits where
  connected,  \* Player.Connected
  reserved,   \* Room.BotSeatReserved
  timer,      \* the auto-fill timer: "running" until it fires or is stopped
  timerSet,   \* Room.autoFillTimer is set
  online,     \* a websocket connection is registered for the seat
  task,       \* per seat, the next step of the AssignBotToRoomAt call for it
  proc,       \* the seat's bot subprocess
  active,     \* BotManager.active: the seats with a recorded subprocess
  at,         \* per human, the next step of the HTTP or websocket handler
  room,       \* per human, the room of the request
  lpc, lroom, \* the auto-room loop of main
  stale       \* the room the janitor is deleting, while it holds Hub.mu

roomVars  == <<policy, inHub, rstate>>
seatVars  == <<occupant, connected, reserved>>
timerVars == <<timer, timerSet>>
botVars   == <<task, proc, active>>
humanVars == <<at, room>>
loopVars  == <<lpc, lroom>>
vars == <<roomVars, seatVars, timerVars, online, botVars, humanVars, loopVars, stale>>

Policies   == {"none", "vs_ai", "auto_fill", "bot_match"}
RoomStates == {"Waiting", "Ready", "Playing", "WaitingReconnect", "Closed"}
TaskSteps  == {"none", "count", "lookup", "reserve", "seat", "spawn", "record",
               "done", "failed"}
HumanSteps == {"idle", "createAdd", "joinAdd", "wsAdd", "arm", "setTimer",
               "cancel", "done"}
LoopSteps  == {"tick", "create", "reserve1", "reserve2", "assign1", "assign2",
               "remove"}

TypeOK ==
  /\ policy \in [Rooms -> Policies]
  /\ inHub \in [Rooms -> BOOLEAN]
  /\ rstate \in [Rooms -> RoomStates]
  /\ occupant \in [Rooms -> [Seats -> Humans \cup {Bot, Nobody}]]
  /\ connected \in [Rooms -> [Seats -> BOOLEAN]]
  /\ reserved \in [Rooms -> [Seats -> BOOLEAN]]
  /\ timer \in [Rooms -> {"none", "running", "fired", "stopped"}]
  /\ timerSet \in [Rooms -> BOOLEAN]
  /\ online \in [Rooms -> [Seats -> BOOLEAN]]
  /\ task \in [Rooms -> [Seats -> TaskSteps]]
  /\ proc \in [Rooms -> [Seats -> {"none", "running", "exited", "reaped"}]]
  /\ active \in SUBSET (Rooms \X Seats)
  /\ at \in [Humans -> HumanSteps]
  /\ room \in [Humans -> Rooms \cup {NoRoom}]
  /\ lpc \in LoopSteps
  /\ lroom \in Rooms \cup {NoRoom}
  /\ stale \in Rooms \cup {NoRoom}

EverySeat(x) == [r \in Rooms |-> [s \in Seats |-> x]]

Init ==
  /\ policy = [r \in Rooms |-> "none"]
  /\ inHub = [r \in Rooms |-> FALSE]
  /\ rstate = [r \in Rooms |-> "Waiting"]
  /\ occupant = EverySeat(Nobody)
  /\ connected = EverySeat(FALSE)
  /\ reserved = EverySeat(FALSE)
  /\ timer = [r \in Rooms |-> "none"]
  /\ timerSet = [r \in Rooms |-> FALSE]
  /\ online = EverySeat(FALSE)
  /\ task = EverySeat("none")
  /\ proc = EverySeat("none")
  /\ active = {}
  /\ at = [h \in Humans |-> "idle"]
  /\ room = [h \in Humans |-> NoRoom]
  /\ lpc = "tick"
  /\ lroom = NoRoom
  /\ stale = NoRoom

-----------------------------------------------------------------------------
(* Methods of the room and the hub.                                         *)

\* Every hub method waits while the janitor holds Hub.mu.
HubFree == stale = NoRoom

CreateRoomWithBotPolicy(r, p) ==
  /\ HubFree
  /\ policy[r] = "none"
  /\ policy' = [policy EXCEPT ![r] = p]
  /\ inHub' = [inHub EXCEPT ![r] = TRUE]
  /\ UNCHANGED rstate

\* AddPlayer takes the first empty seat, and gives up if that one is reserved.
FirstEmpty(r, s) ==
  occupant[r][s] = Nobody /\ (s = 2 => occupant[r][1] # Nobody)

CanAdd(r) == \E s \in Seats : FirstEmpty(r, s) /\ ~reserved[r][s]

\* The room is ready once seat s, being taken now, leaves no seat empty.
ReadyWith(r, s) ==
  IF rstate[r] = "Waiting" /\ occupant[r][Other(s)] # Nobody
  THEN [rstate EXCEPT ![r] = "Ready"] ELSE rstate

\* Mutant: reservations are not looked at.
AddPlayerUnreserved(r, h) ==
  \E s \in Seats :
    /\ FirstEmpty(r, s)
    /\ occupant' = [occupant EXCEPT ![r][s] = h]
    /\ connected' = [connected EXCEPT ![r][s] = TRUE]
    /\ rstate' = ReadyWith(r, s)

AddPlayer(r, h) ==
  \E s \in Seats :
    /\ FirstEmpty(r, s) /\ ~reserved[r][s]
    /\ occupant' = [occupant EXCEPT ![r][s] = h]
    /\ connected' = [connected EXCEPT ![r][s] = TRUE]
    /\ rstate' = ReadyWith(r, s)

CancelBotReservation(r) ==
  /\ reserved' = [reserved EXCEPT ![r] = [s \in Seats |-> FALSE]]
  /\ timer' = IF timerSet[r] /\ timer[r] = "running"
              THEN [timer EXCEPT ![r] = "stopped"] ELSE timer
  /\ timerSet' = [timerSet EXCEPT ![r] = FALSE]

\* A match between two bots that are both connected, as the loop counts them.
BotMatch(r) ==
  /\ policy[r] = "bot_match"
  /\ \A s \in Seats : occupant[r][s] = Bot /\ connected[r][s]

-----------------------------------------------------------------------------
(* Humans: POST /api/room, POST /api/room/{code}/join and join_room.        *)

ApiCreateRoom(h, r, p) ==
  /\ at[h] = "idle"
  /\ CreateRoomWithBotPolicy(r, p)
  /\ at' = [at EXCEPT ![h] = "createAdd"]
  /\ room' = [room EXCEPT ![h] = r]
  /\ UNCHANGED <<seatVars, timerVars, online, botVars, loopVars, stale>>

\* With vs_ai the handler goes on to assign a bot to seat 2; with auto_fill it
\* starts the timer, and stores it in the room in a later critical section.
ApiCreateAdd(h) ==
  LET r == room[h]
  IN  /\ at[h] = "createAdd"
      /\ \/ /\ AddPlayer(r, h)
            /\ IF policy[r] = "vs_ai"
               THEN /\ task' = [task EXCEPT ![r][2] = "count"]
                    /\ at' = [at EXCEPT ![h] = "done"]
               ELSE /\ at' = [at EXCEPT ![h] = "arm"]
                    /\ UNCHANGED task
         \/ /\ ~CanAdd(r)
            /\ at' = [at EXCEPT ![h] = "done"]
            /\ UNCHANGED <<occupant, connected, rstate, task>>
      /\ UNCHANGED <<policy, inHub, reserved, timerVars, online, proc, active, room,
                     loopVars, stale>>

ArmAutoFill(h) ==
  /\ at[h] = "arm"
  /\ timer' = [timer EXCEPT ![room[h]] = "running"]
  /\ at' = [at EXCEPT ![h] = "setTimer"]
  /\ UNCHANGED <<roomVars, seatVars, timerSet, online, botVars, room, loopVars, stale>>

SetAutoFillTimer(h) ==
  /\ at[h] = "setTimer"
  /\ timerSet' = [timerSet EXCEPT ![room[h]] = TRUE]
  /\ at' = [at EXCEPT ![h] = "done"]
  /\ UNCHANGED <<roomVars, seatVars, timer, online, botVars, room, loopVars, stale>>

\* The API looks whether the room is full or closed; join_room only finds it.
JoinRoom(h, r) ==
  /\ at[h] = "idle" /\ HubFree /\ inHub[r]
  /\ \/ /\ rstate[r] # "Closed" /\ \E s \in Seats : occupant[r][s] = Nobody
        /\ at' = [at EXCEPT ![h] = "joinAdd"]
     \/ at' = [at EXCEPT ![h] = "wsAdd"]
  /\ room' = [room EXCEPT ![h] = r]
  /\ UNCHANGED <<roomVars, seatVars, timerVars, online, botVars, loopVars, stale>>

\* Only the API cancels the auto-fill, and only for the player of seat 2.
JoinAdd(h) ==
  LET r == room[h]
  IN  /\ at[h] \in {"joinAdd", "wsAdd"}
      /\ \/ /\ AddPlayer(r, h)
            /\ at' = [at EXCEPT ![h] =
                        IF /\ at[h] = "joinAdd" /\ policy[r] = "auto_fill"
                           /\ occupant'[r][2] = h
                        THEN "cancel" ELSE "done"]
         \/ /\ ~CanAdd(r)
            /\ at' = [at EXCEPT ![h] = "done"]
            /\ UNCHANGED <<occupant, connected, rstate>>
      /\ UNCHANGED <<policy, inHub, reserved, timerVars, online, botVars, room,
                     loopVars, stale>>

JoinCancel(h) ==
  /\ at[h] = "cancel"
  /\ CancelBotReservation(room[h])
  /\ at' = [at EXCEPT ![h] = "done"]
  /\ UNCHANGED <<roomVars, occupant, connected, online, botVars, room, loopVars, stale>>

-----------------------------------------------------------------------------
(* BotManager.AssignBotToRoomAt, for seat s of room r.                      *)

Step(r, s, from, to) ==
  task[r][s] = from /\ task' = [task EXCEPT ![r][s] = to]

AssignCount(r, s) ==
  /\ Step(r, s, "count", IF MaxBots > 0 /\ Cardinality(active) >= MaxBots
                         THEN "failed" ELSE "lookup")
  /\ UNCHANGED <<roomVars, seatVars, timerVars, online, proc, active, humanVars,
                 loopVars, stale>>

AssignLookup(r, s) ==
  /\ HubFree
  /\ Step(r, s, "lookup", IF inHub[r] THEN "reserve" ELSE "failed")
  /\ UNCHANGED <<roomVars, seatVars, timerVars, online, proc, active, humanVars,
                 loopVars, stale>>

\* Mutant: a seat may be reserved under the player who has it.
ReserveBotSeatAtTaken(r, s) == reserved' = [reserved EXCEPT ![r][s] = TRUE]

ReserveBotSeatAt(r, s) ==
  /\ occupant[r][s] = Nobody
  /\ reserved' = [reserved EXCEPT ![r][s] = TRUE]

AssignReserve(r, s) ==
  /\ \/ ReserveBotSeatAt(r, s) /\ Step(r, s, "reserve", "seat")
     \/ /\ occupant[r][s] # Nobody /\ Step(r, s, "reserve", "failed")
        /\ UNCHANGED reserved
  /\ UNCHANGED <<roomVars, occupant, connected, timerVars, online, proc, active,
                 humanVars, loopVars, stale>>

\* AddBotPlayerAt looks at the reservation, not at the seat.
AddBotPlayerAt(r, s) ==
  /\ reserved[r][s]
  /\ occupant' = [occupant EXCEPT ![r][s] = Bot]
  /\ connected' = [connected EXCEPT ![r][s] = TRUE]
  /\ rstate' = ReadyWith(r, s)

AssignSeat(r, s) ==
  /\ \/ AddBotPlayerAt(r, s) /\ Step(r, s, "seat", "spawn")
     \/ /\ ~reserved[r][s] /\ Step(r, s, "seat", "failed")
        /\ UNCHANGED <<occupant, connected, rstate>>
  /\ reserved' = [reserved EXCEPT ![r][s] = FALSE]
  /\ UNCHANGED <<policy, inHub, timerVars, online, proc, active, humanVars, loopVars,
                 stale>>

\* The binary may be missing or fail to start; the bot player stays seated.
AssignSpawn(r, s) ==
  /\ \/ /\ Step(r, s, "spawn", "record")
        /\ proc' = [proc EXCEPT ![r][s] = "running"]
        /\ UNCHANGED reserved
     \/ /\ Step(r, s, "spawn", "failed")
        /\ reserved' = [reserved EXCEPT ![r][s] = FALSE]
        /\ UNCHANGED proc
  /\ UNCHANGED <<roomVars, occupant, connected, timerVars, online, active, humanVars,
                 loopVars, stale>>

\* Mutant: the table is keyed by the room.
AssignRecordRoom(r, s) ==
  /\ Step(r, s, "record", "done")
  /\ active' = active \cup {r}
  /\ UNCHANGED <<roomVars, seatVars, timerVars, online, proc, humanVars, loopVars, stale>>

AssignRecord(r, s) ==
  /\ Step(r, s, "record", "done")
  /\ active' = active \cup {<<r, s>>}
  /\ UNCHANGED <<roomVars, seatVars, timerVars, online, proc, humanVars, loopVars, stale>>

\* Mutant: the goroutine that waits for the process is started before the
\* process is recorded.
ReleaseEarly(r, s) ==
  /\ proc[r][s] = "exited"
  /\ proc' = [proc EXCEPT ![r][s] = "reaped"]
  /\ active' = active \ {<<r, s>>}
  /\ UNCHANGED <<roomVars, seatVars, timerVars, online, task, humanVars, loopVars, stale>>

\* The goroutine of the assignment sees the process end, and releaseBotAt.
Release(r, s) ==
  /\ proc[r][s] = "exited" /\ task[r][s] = "done"
  /\ proc' = [proc EXCEPT ![r][s] = "reaped"]
  /\ active' = active \ {<<r, s>>}
  /\ UNCHANGED <<roomVars, seatVars, timerVars, online, task, humanVars, loopVars, stale>>

ProcExits(r, s) ==
  /\ proc[r][s] = "running"
  /\ proc' = [proc EXCEPT ![r][s] = "exited"]
  /\ UNCHANGED <<roomVars, seatVars, timerVars, online, task, active, humanVars,
                 loopVars, stale>>

\* The timer's function runs AssignBotToRoom on seat 2.
AutoFillFires(r) ==
  /\ timer[r] = "running"
  /\ timer' = [timer EXCEPT ![r] = "fired"]
  /\ task' = [task EXCEPT ![r][2] = "count"]
  /\ UNCHANGED <<roomVars, seatVars, timerSet, online, proc, active, humanVars,
                 loopVars, stale>>

-----------------------------------------------------------------------------
(* Connections come and go; the match; the janitor.                         *)

\* A client enters with the token of its seat, or joined over the websocket.
\* The token is used up: a seat that was left stays disconnected.
Arrive(r, s) ==
  /\ inHub[r] /\ HubFree /\ rstate[r] # "Closed"
  /\ connected[r][s] /\ ~online[r][s]
  /\ occupant[r][s] = Bot => proc[r][s] = "running"
  /\ online' = [online EXCEPT ![r][s] = TRUE]
  /\ UNCHANGED <<roomVars, seatVars, timerVars, botVars, humanVars, loopVars, stale>>

StartMatch(r) ==
  /\ rstate[r] = "Ready" /\ \A s \in Seats : online[r][s]
  /\ rstate' = [rstate EXCEPT ![r] = "Playing"]
  /\ UNCHANGED <<policy, inHub, seatVars, timerVars, online, botVars, humanVars,
                 loopVars, stale>>

\* cleanupAndClose: while the other one is there a match waits for the player
\* to come back; otherwise the room is closed, and empty it leaves the hub.
\* The auto-fill timer is left running.
Depart(r, s) ==
  LET alone == ~connected[r][Other(s)]
  IN  /\ online[r][s] /\ HubFree
      /\ online' = [online EXCEPT ![r][s] = FALSE]
      /\ connected' = [connected EXCEPT ![r][s] = FALSE]
      /\ rstate' = [rstate EXCEPT ![r] = IF @ = "Playing" /\ ~alone
                                        THEN "WaitingReconnect" ELSE "Closed"]
      /\ reserved' = IF occupant[r][s] = Bot THEN [reserved EXCEPT ![r][s] = FALSE]
                     ELSE reserved
      /\ inHub' = [inHub EXCEPT ![r] = @ /\ ~alone]
      /\ UNCHANGED <<policy, occupant, timerVars, botVars, humanVars, loopVars, stale>>

ReconnectExpires(r) ==
  /\ rstate[r] = "WaitingReconnect"
  /\ rstate' = [rstate EXCEPT ![r] = "Closed"]
  /\ UNCHANGED <<policy, inHub, seatVars, timerVars, online, botVars, humanVars,
                 loopVars, stale>>

\* CleanupStaleRooms drops a closed room at once.  It reads the state of one
\* that waits, and cancels and drops it in later critical sections of the room.
CleanupClosed(r) ==
  /\ HubFree /\ inHub[r] /\ rstate[r] = "Closed"
  /\ inHub' = [inHub EXCEPT ![r] = FALSE]
  /\ UNCHANGED <<policy, rstate, seatVars, timerVars, online, botVars, humanVars,
                 loopVars, stale>>

CleanupFinds(r) ==
  /\ HubFree /\ inHub[r] /\ rstate[r] = "Waiting"
  /\ stale' = r
  /\ UNCHANGED <<roomVars, seatVars, timerVars, online, botVars, humanVars, loopVars>>

CleanupDrops(r) ==
  /\ stale = r
  /\ CancelBotReservation(r)
  /\ inHub' = [inHub EXCEPT ![r] = FALSE]
  /\ stale' = NoRoom
  /\ UNCHANGED <<policy, rstate, occupant, connected, online, botVars, humanVars,
                 loopVars>>

-----------------------------------------------------------------------------
(* The auto-room loop of main: one bot-against-bot match at a time.         *)

\* Mutant: matches that have begun are not counted.
LoopCountsWaiting ==
  /\ lpc = "tick" /\ HubFree
  /\ \A r \in Rooms : ~(inHub[r] /\ BotMatch(r) /\ rstate[r] = "Ready")
  /\ lpc' = "create"
  /\ UNCHANGED <<roomVars, seatVars, timerVars, online, botVars, humanVars, lroom, stale>>

LoopCounts ==
  /\ lpc = "tick" /\ HubFree
  /\ \A r \in Rooms : ~(inHub[r] /\ BotMatch(r))
  /\ lpc' = "create"
  /\ UNCHANGED <<roomVars, seatVars, timerVars, online, botVars, humanVars, lroom, stale>>

LoopCreates(r) ==
  /\ lpc = "create"
  /\ CreateRoomWithBotPolicy(r, "bot_match")
  /\ lroom' = r
  /\ lpc' = "reserve1"
  /\ UNCHANGED <<seatVars, timerVars, online, botVars, humanVars, stale>>

\* Both seats are reserved before the first bot is assigned.
LoopReserves(s) ==
  /\ lpc = IF s = 1 THEN "reserve1" ELSE "reserve2"
  /\ \/ /\ ReserveBotSeatAt(lroom, s)
        /\ lpc' = IF s = 1 THEN "reserve2" ELSE "assign1"
        /\ task' = IF s = 1 THEN task ELSE [task EXCEPT ![lroom][1] = "count"]
     \/ /\ occupant[lroom][s] # Nobody
        /\ lpc' = "remove"
        /\ UNCHANGED <<reserved, task>>
  /\ UNCHANGED <<roomVars, occupant, connected, timerVars, online, proc, active,
                 humanVars, lroom, stale>>

LoopAssigned(s) ==
  /\ lpc = IF s = 1 THEN "assign1" ELSE "assign2"
  /\ task[lroom][s] \in {"done", "failed"}
  /\ LET ok == task[lroom][s] = "done"
     IN  /\ lpc' = IF ~ok THEN "remove" ELSE IF s = 1 THEN "assign2" ELSE "tick"
         /\ task' = IF ok /\ s = 1 THEN [task EXCEPT ![lroom][2] = "count"] ELSE task
  /\ UNCHANGED <<roomVars, seatVars, timerVars, online, proc, active, humanVars, lroom,
                 stale>>

\* Mutant: the loop goes on without taking the room out.
LoopRemovesNothing ==
  /\ lpc = "remove" /\ HubFree
  /\ lpc' = "tick"
  /\ UNCHANGED <<roomVars, seatVars, timerVars, online, botVars, humanVars, lroom, stale>>

LoopRemoves ==
  /\ lpc = "remove" /\ HubFree
  /\ inHub' = [inHub EXCEPT ![lroom] = FALSE]
  /\ lpc' = "tick"
  /\ UNCHANGED <<policy, rstate, seatVars, timerVars, online, botVars, humanVars, lroom,
                 stale>>

-----------------------------------------------------------------------------
(* The specification.                                                       *)

HumanStep(h) ==
  \/ \E r \in Rooms : JoinRoom(h, r) \/ ApiCreateRoom(h, r, "vs_ai")
                     \/ ApiCreateRoom(h, r, "auto_fill")
  \/ ApiCreateAdd(h) \/ ArmAutoFill(h) \/ SetAutoFillTimer(h) \/ JoinAdd(h)
  \/ JoinCancel(h)

AssignStep(r, s) ==
  \/ AssignCount(r, s) \/ AssignLookup(r, s) \/ AssignReserve(r, s)
  \/ AssignSeat(r, s) \/ AssignSpawn(r, s) \/ AssignRecord(r, s)

RoomStep(r) ==
  \/ AutoFillFires(r) \/ StartMatch(r) \/ ReconnectExpires(r)
  \/ CleanupClosed(r) \/ CleanupFinds(r) \/ CleanupDrops(r)

SeatStep(r, s) ==
  Release(r, s) \/ ProcExits(r, s) \/ Arrive(r, s) \/ Depart(r, s)

LoopStep ==
  \/ LoopCounts \/ LoopRemoves
  \/ \E r \in Rooms : LoopCreates(r)
  \/ \E s \in Seats : LoopReserves(s) \/ LoopAssigned(s)

Next ==
  \/ \E h \in Humans : HumanStep(h)
  \/ \E r \in Rooms : RoomStep(r) \/ \E s \in Seats : AssignStep(r, s) \/ SeatStep(r, s)
  \/ LoopStep

\* Goroutines are scheduled: an assignment, the loop in the middle of a room and
\* the janitor go on.  Nobody has to join, to leave or to exit.
Fairness ==
  /\ \A r \in Rooms : WF_vars(CleanupDrops(r))
  /\ \A r \in Rooms, s \in Seats : WF_vars(AssignStep(r, s))
  /\ WF_vars(LoopRemoves) /\ \A s \in Seats : WF_vars(LoopReserves(s) \/ LoopAssigned(s))

Spec == Init /\ [][Next]_vars
FairSpec == Spec /\ Fairness

-----------------------------------------------------------------------------
(* Properties.                                                              *)

\* A seat, once taken, is never given to anybody else, though AddBotPlayerAt
\* writes it without looking: a reservation keeps the humans out.
SeatKept ==
  [][\A r \in Rooms, s \in Seats :
       occupant[r][s] # Nobody => occupant'[r][s] = occupant[r][s]]_vars

\* What SeatKept rests on: whoever takes a seat, its reservation is over, and
\* nobody reserves a seat that is taken.
ReservedEmpty ==
  \A r \in Rooms, s \in Seats : reserved[r][s] => occupant[r][s] = Nobody

\* A reservation is used or given up: no failure on the way from reserving the
\* seat to starting the process keeps the seat of a listed room from humans.
ReservationEnds ==
  \A r \in Rooms, s \in Seats : reserved[r][s] ~> ~reserved[r][s] \/ ~inHub[r]

\* The loop decides with an old count, and yet the hub never holds two matches
\* between connected bots.
OneBotMatch ==
  \A q, r \in Rooms : inHub[q] /\ BotMatch(q) /\ inHub[r] /\ BotMatch(r) => q = r

\* However the exit of a process races with the recording of it, the manager's
\* table holds no process that is gone for good: those would use up the cap.
NoSlotLeak == \A a \in active : proc[a[1]][a[2]] \in {"running", "exited"}

\* There are never more recorded subprocesses than -max-bots.
BotCap == MaxBots > 0 => Cardinality(active) <= MaxBots
=============================================================================
