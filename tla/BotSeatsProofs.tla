-------------------------- MODULE BotSeatsProofs --------------------------
(***************************************************************************)
(* What TLAPS proves of BotSeats, for any number of rooms and humans and   *)
(* any cap: a seat that is taken is never given to anybody else, there is  *)
(* one match between bots at a time, and the table of processes holds none *)
(* that is gone for good.                                                  *)
(*                                                                         *)
(* The step that could give a seat away is AddBotPlayerAt, which writes it *)
(* without looking at it.  It is enabled only where the seat is reserved,  *)
(* and ReservedEmpty, the inductive invariant, says that such a seat is    *)
(* empty: reserving needs an empty seat, and AddPlayer and AddBotPlayerAt  *)
(* leave no reservation on the seat they fill.  RoomKnown carries the      *)
(* room of a request or of the loop from one step of it to the next.       *)
(*                                                                         *)
(* That there is one match of bots depends on who may seat a bot in a room *)
(* nobody asked for: only the assignment the loop itself waits for, since  *)
(* requests and timers are for rooms that humans created (LoopInv).        *)
(***************************************************************************)
EXTENDS BotSeats, TLAPS

RoomKnown ==
  /\ \A h \in Humans : at[h] # "idle" => room[h] \in Rooms
  /\ lpc \notin {"tick", "create"} => lroom \in Rooms

SeatInv == TypeOK /\ RoomKnown /\ ReservedEmpty

\* The formula SeatKept says of every step.
Kept ==
  \A r \in Rooms, s \in Seats :
    occupant[r][s] # Nobody => occupant'[r][s] = occupant[r][s]

ProcStates == {"none", "running", "exited", "reaped"}
Occupants  == Humans \cup {Bot, Nobody}

\* The tables of seats, as the lemmas below take them.
LEMMA Tables ==
  ASSUME TypeOK
  PROVE  /\ reserved \in [Rooms -> [Seats -> BOOLEAN]]
         /\ connected \in [Rooms -> [Seats -> BOOLEAN]]
         /\ online \in [Rooms -> [Seats -> BOOLEAN]]
         /\ task \in [Rooms -> [Seats -> TaskSteps]]
         /\ proc \in [Rooms -> [Seats -> ProcStates]]
         /\ occupant \in [Rooms -> [Seats -> Occupants]]
BY DEF TypeOK, ProcStates, Occupants

\* A reservation, made for one seat, is made for no other.
LEMMA Reserving ==
  ASSUME TypeOK, NEW r \in Rooms, NEW s \in Seats,
         reserved' = [reserved EXCEPT ![r][s] = TRUE]
  PROVE  /\ reserved' \in [Rooms -> [Seats -> BOOLEAN]]
         /\ \A q \in Rooms, t \in Seats :
              reserved'[q][t] => reserved[q][t] \/ (q = r /\ t = s)
<1>1. reserved \in [Rooms -> [Seats -> BOOLEAN]]
  BY Tables
<1> QED BY <1>1

\* A reservation that ends, ends for that seat and no other begins.
LEMMA Releasing ==
  ASSUME TypeOK, NEW r \in Rooms, NEW s \in Seats,
         reserved' = [reserved EXCEPT ![r][s] = FALSE]
  PROVE  /\ reserved' \in [Rooms -> [Seats -> BOOLEAN]]
         /\ \A q \in Rooms, t \in Seats :
              reserved'[q][t] => reserved[q][t] /\ ~(q = r /\ t = s)
<1>1. reserved \in [Rooms -> [Seats -> BOOLEAN]]
  BY Tables
<1> QED BY <1>1

\* Whoever takes a seat takes no other.
LEMMA Seating ==
  ASSUME TypeOK, NEW r \in Rooms, NEW s \in Seats, NEW x \in Occupants,
         occupant' = [occupant EXCEPT ![r][s] = x]
  PROVE  /\ occupant' \in [Rooms -> [Seats -> Occupants]]
         /\ \A q \in Rooms, t \in Seats :
              occupant'[q][t] = IF q = r /\ t = s THEN x ELSE occupant[q][t]
<1>1. occupant \in [Rooms -> [Seats -> Occupants]]
  BY Tables
<1> QED BY <1>1

\* The next step of an assignment is one.
LEMMA Assigning ==
  ASSUME TypeOK, NEW r \in Rooms, NEW s \in Seats, NEW x \in TaskSteps,
         task' = [task EXCEPT ![r][s] = x]
  PROVE  task' \in [Rooms -> [Seats -> TaskSteps]]
<1>1. task \in [Rooms -> [Seats -> TaskSteps]]
  BY Tables
<1> QED BY <1>1

\* What a bot's process does next is a state of it.
LEMMA Running ==
  ASSUME TypeOK, NEW r \in Rooms, NEW s \in Seats, NEW x \in ProcStates,
         proc' = [proc EXCEPT ![r][s] = x]
  PROVE  proc' \in [Rooms -> [Seats -> ProcStates]]
<1>1. proc \in [Rooms -> [Seats -> ProcStates]]
  BY Tables
<1> QED BY <1>1

\* The server starts with every variable in its type and no seat reserved.
LEMMA InitSeats == Init => SeatInv
<1> SUFFICES ASSUME Init PROVE SeatInv
  OBVIOUS
<1>1. TypeOK
  BY DEF Init, TypeOK, EverySeat, Policies, RoomStates, TaskSteps, HumanSteps, LoopSteps
<1>2. RoomKnown
  BY DEF Init, RoomKnown
<1>3. ReservedEmpty
  BY DEF Init, ReservedEmpty, EverySeat
<1> QED BY <1>1, <1>2, <1>3 DEF SeatInv

\* A room that fills up keeps a room state.
LEMMA ReadyWithType ==
  ASSUME TypeOK, NEW r \in Rooms, NEW s \in Seats
  PROVE  ReadyWith(r, s) \in [Rooms -> RoomStates]
BY DEF TypeOK, ReadyWith, RoomStates

\* AddPlayer keeps the types, and fills one seat, which nobody had and which
\* was not reserved.
LEMMA AddPlayerSeats ==
  ASSUME TypeOK, NEW r \in Rooms, NEW h \in Humans, AddPlayer(r, h)
  PROVE  /\ occupant' \in [Rooms -> [Seats -> Humans \cup {Bot, Nobody}]]
         /\ connected' \in [Rooms -> [Seats -> BOOLEAN]]
         /\ rstate' \in [Rooms -> RoomStates]
         /\ \E s \in Seats : /\ occupant[r][s] = Nobody /\ ~reserved[r][s]
                             /\ occupant' = [occupant EXCEPT ![r][s] = h]
<1> PICK s \in Seats :
      /\ FirstEmpty(r, s) /\ ~reserved[r][s]
      /\ occupant' = [occupant EXCEPT ![r][s] = h]
      /\ connected' = [connected EXCEPT ![r][s] = TRUE]
      /\ rstate' = ReadyWith(r, s)
  BY DEF AddPlayer
<1>1. occupant' \in [Rooms -> [Seats -> Humans \cup {Bot, Nobody}]]
  BY DEF TypeOK
<1>2. connected' \in [Rooms -> [Seats -> BOOLEAN]]
  BY DEF TypeOK
<1>3. rstate' \in [Rooms -> RoomStates]
  BY ReadyWithType
<1> QED BY <1>1, <1>2, <1>3 DEF FirstEmpty

\* AddPlayer, while the reservations stay, takes nobody's seat.
LEMMA AddPlayerKeeps ==
  ASSUME SeatInv, NEW r \in Rooms, NEW h \in Humans, AddPlayer(r, h), UNCHANGED reserved
  PROVE  ReservedEmpty' /\ Kept
<1> PICK s \in Seats : /\ occupant[r][s] = Nobody /\ ~reserved[r][s]
                       /\ occupant' = [occupant EXCEPT ![r][s] = h]
  BY AddPlayerSeats DEF SeatInv
<1>1. \A q \in Rooms, t \in Seats :
        occupant'[q][t] = IF q = r /\ t = s THEN h ELSE occupant[q][t]
  BY Seating DEF SeatInv, Occupants
<1> QED BY <1>1 DEF SeatInv, ReservedEmpty, Kept

\* A step that leaves the occupants alone and reserves nothing new keeps both.
LEMMA SeatsAlone ==
  ASSUME SeatInv, UNCHANGED occupant,
         \A r \in Rooms, s \in Seats : reserved'[r][s] => reserved[r][s]
  PROVE  ReservedEmpty' /\ Kept
BY DEF SeatInv, ReservedEmpty, Kept

\* The requests of humans keep the types, and the room they are about.
LEMMA HumanType ==
  ASSUME TypeOK, RoomKnown, NEW h \in Humans, HumanStep(h)
  PROVE  TypeOK' /\ RoomKnown'
<1> USE DEF HumanSteps
<1>1. ASSUME NEW r \in Rooms, JoinRoom(h, r) PROVE TypeOK' /\ RoomKnown'
  BY <1>1 DEF JoinRoom, TypeOK, RoomKnown, roomVars, seatVars, timerVars, botVars, loopVars
<1>2. ASSUME NEW r \in Rooms, NEW p \in Policies, ApiCreateRoom(h, r, p)
      PROVE  TypeOK' /\ RoomKnown'
  BY <1>2 DEF ApiCreateRoom, CreateRoomWithBotPolicy, TypeOK, RoomKnown, seatVars,
              timerVars, botVars, loopVars
<1>3. CASE ApiCreateAdd(h)
  <2>1. room[h] \in Rooms
    BY <1>3 DEF ApiCreateAdd, RoomKnown
  <2>2. task' \in [Rooms -> [Seats -> TaskSteps]]
    <3>1. \/ task' = task
          \/ task' = [task EXCEPT ![room[h]][2] = "count"]
      BY <1>3 DEF ApiCreateAdd
    <3>2. "count" \in TaskSteps /\ 2 \in Seats
      BY DEF TaskSteps, Seats
    <3> QED BY <2>1, <3>1, <3>2, Tables, Assigning
  <2>3. at' \in [Humans -> HumanSteps]
    <3>1. \E to \in HumanSteps : at' = [at EXCEPT ![h] = to]
      BY <1>3 DEF ApiCreateAdd
    <3> QED BY <3>1 DEF TypeOK
  <2>4. /\ occupant' \in [Rooms -> [Seats -> Humans \cup {Bot, Nobody}]]
        /\ connected' \in [Rooms -> [Seats -> BOOLEAN]]
        /\ rstate' \in [Rooms -> RoomStates]
    <3>1. CASE AddPlayer(room[h], h)  BY <2>1, <3>1, AddPlayerSeats
    <3>2. CASE UNCHANGED <<occupant, connected, rstate>>  BY <3>2 DEF TypeOK
    <3> QED BY <1>3, <3>1, <3>2 DEF ApiCreateAdd
  <2>5. \A g \in Humans \ {h} : at'[g] = at[g]
    BY <1>3 DEF ApiCreateAdd, TypeOK
  <2> QED
    BY <1>3, <2>1, <2>2, <2>4, <2>5, <2>3 DEF ApiCreateAdd, TypeOK, RoomKnown, timerVars, loopVars
<1>4. CASE ArmAutoFill(h)
  BY <1>4 DEF ArmAutoFill, TypeOK, RoomKnown, roomVars, seatVars, botVars, loopVars
<1>5. CASE SetAutoFillTimer(h)
  BY <1>5 DEF SetAutoFillTimer, TypeOK, RoomKnown, roomVars, seatVars, botVars, loopVars
<1>6. CASE JoinAdd(h)
  <2>1. room[h] \in Rooms
    BY <1>6 DEF JoinAdd, RoomKnown
  <2>2. at' \in [Humans -> HumanSteps]
    BY <1>6 DEF JoinAdd, TypeOK
  <2>3. /\ occupant' \in [Rooms -> [Seats -> Humans \cup {Bot, Nobody}]]
        /\ connected' \in [Rooms -> [Seats -> BOOLEAN]]
        /\ rstate' \in [Rooms -> RoomStates]
    <3>1. CASE AddPlayer(room[h], h)  BY <2>1, <3>1, AddPlayerSeats
    <3>2. CASE UNCHANGED <<occupant, connected, rstate>>  BY <3>2 DEF TypeOK
    <3> QED BY <1>6, <3>1, <3>2 DEF JoinAdd
  <2>4. \A g \in Humans \ {h} : at'[g] = at[g]
    BY <1>6 DEF JoinAdd, TypeOK
  <2> QED
    BY <1>6, <2>1, <2>2, <2>3, <2>4
    DEF JoinAdd, TypeOK, RoomKnown, timerVars, botVars, loopVars
<1>7. CASE JoinCancel(h)
  BY <1>7 DEF JoinCancel, CancelBotReservation, TypeOK, RoomKnown, roomVars, botVars,
              loopVars
<1> QED BY <1>1, <1>2, <1>3, <1>4, <1>5, <1>6, <1>7 DEF HumanStep, Policies

\* The requests of humans take empty seats that are not reserved.
LEMMA HumanKeeps ==
  ASSUME SeatInv, NEW h \in Humans, HumanStep(h)
  PROVE  ReservedEmpty' /\ Kept
<1>1. CASE UNCHANGED <<occupant, reserved>>
  BY <1>1, SeatsAlone
<1>2. CASE ApiCreateAdd(h)
  BY <1>1, <1>2, AddPlayerKeeps DEF ApiCreateAdd, SeatInv, RoomKnown
<1>3. CASE JoinAdd(h)
  BY <1>1, <1>3, AddPlayerKeeps DEF JoinAdd, SeatInv, RoomKnown
<1>4. CASE JoinCancel(h)
  BY <1>4, SeatsAlone DEF JoinCancel, CancelBotReservation, SeatInv, TypeOK
<1>5. (\E r \in Rooms, p \in Policies : JoinRoom(h, r) \/ ApiCreateRoom(h, r, p))
      => UNCHANGED <<occupant, reserved>>
  BY DEF JoinRoom, ApiCreateRoom, seatVars
<1>6. ArmAutoFill(h) \/ SetAutoFillTimer(h) => UNCHANGED <<occupant, reserved>>
  BY DEF ArmAutoFill, SetAutoFillTimer, seatVars
<1> QED BY <1>1, <1>2, <1>3, <1>4, <1>5, <1>6 DEF HumanStep, Policies

\* An AssignBotToRoomAt call keeps the types.
LEMMA AssignType ==
  ASSUME TypeOK, NEW r \in Rooms, NEW s \in Seats, AssignStep(r, s)
  PROVE  TypeOK'
<1>1. ASSUME NEW from, NEW to \in TaskSteps, Step(r, s, from, to)
      PROVE  task' \in [Rooms -> [Seats -> TaskSteps]]
  BY <1>1, Assigning DEF Step
<1>2. {"lookup", "reserve", "seat", "spawn", "record", "done", "failed"} \subseteq TaskSteps
  BY DEF TaskSteps
<1>3. CASE AssignCount(r, s)
  BY <1>1, <1>2, <1>3
  DEF AssignCount, TypeOK, roomVars, seatVars, timerVars, humanVars, loopVars
<1>4. CASE AssignLookup(r, s)
  BY <1>1, <1>2, <1>4
  DEF AssignLookup, TypeOK, roomVars, seatVars, timerVars, humanVars, loopVars
<1>5. CASE AssignReserve(r, s)
  <2>1. reserved' \in [Rooms -> [Seats -> BOOLEAN]]
    BY <1>5, Tables, Reserving DEF AssignReserve, ReserveBotSeatAt
  <2>2. task' \in [Rooms -> [Seats -> TaskSteps]]
    BY <1>1, <1>2, <1>5 DEF AssignReserve
  <2> QED
    BY <1>5, <2>1, <2>2 DEF AssignReserve, TypeOK, roomVars, timerVars, humanVars, loopVars
<1>6. CASE AssignSeat(r, s)
  <2>1. reserved' \in [Rooms -> [Seats -> BOOLEAN]]
    BY <1>6, Releasing DEF AssignSeat
  <2>2. task' \in [Rooms -> [Seats -> TaskSteps]]
    BY <1>1, <1>2, <1>6 DEF AssignSeat
  <2>3. /\ occupant' \in [Rooms -> [Seats -> Humans \cup {Bot, Nobody}]]
        /\ connected' \in [Rooms -> [Seats -> BOOLEAN]]
        /\ rstate' \in [Rooms -> RoomStates]
    <3>1. CASE AddBotPlayerAt(r, s)
      <4>1. occupant' \in [Rooms -> [Seats -> Humans \cup {Bot, Nobody}]]
        BY <3>1, Seating DEF Occupants, AddBotPlayerAt
      <4>2. connected' \in [Rooms -> [Seats -> BOOLEAN]]
        BY <3>1, Tables DEF AddBotPlayerAt
      <4> QED BY <3>1, <4>1, <4>2, ReadyWithType DEF AddBotPlayerAt
    <3>2. CASE UNCHANGED <<occupant, connected, rstate>>  BY <3>2 DEF TypeOK
    <3> QED BY <1>6, <3>1, <3>2 DEF AssignSeat
  <2> QED
    BY <1>6, <2>1, <2>2, <2>3 DEF AssignSeat, TypeOK, timerVars, humanVars, loopVars
<1>7. CASE AssignSpawn(r, s)
  <2>1. reserved' \in [Rooms -> [Seats -> BOOLEAN]]
    BY <1>7, Tables, Releasing DEF AssignSpawn
  <2>2. proc' \in [Rooms -> [Seats -> ProcStates]]
    BY <1>7, Tables, Running DEF ProcStates, AssignSpawn
  <2>3. task' \in [Rooms -> [Seats -> TaskSteps]]
    BY <1>1, <1>2, <1>7 DEF AssignSpawn
  <2> QED
    BY <1>7, <2>1, <2>2, <2>3
    DEF AssignSpawn, ProcStates, TypeOK, roomVars, timerVars, humanVars, loopVars
<1>8. CASE AssignRecord(r, s)
  <2>1. task' \in [Rooms -> [Seats -> TaskSteps]]
    BY <1>1, <1>2, <1>8 DEF AssignRecord
  <2>2. active' \in SUBSET (Rooms \X Seats)
    BY <1>8 DEF AssignRecord, TypeOK
  <2> QED
    BY <1>8, <2>1, <2>2
    DEF AssignRecord, TypeOK, roomVars, seatVars, timerVars, humanVars, loopVars
<1> QED BY <1>3, <1>4, <1>5, <1>6, <1>7, <1>8 DEF AssignStep

\* A bot's seat is empty when it is reserved, and still empty when it is taken.
LEMMA AssignKeeps ==
  ASSUME SeatInv, NEW r \in Rooms, NEW s \in Seats, AssignStep(r, s)
  PROVE  ReservedEmpty' /\ Kept
<1>1. CASE UNCHANGED <<occupant, reserved>>
  BY <1>1, SeatsAlone
<1>2. CASE AssignReserve(r, s)
  <2>1. CASE ReserveBotSeatAt(r, s)
    <3>1. UNCHANGED occupant /\ occupant[r][s] = Nobody
      BY <1>2, <2>1 DEF AssignReserve, ReserveBotSeatAt
    <3>2. \A q \in Rooms, t \in Seats :
            reserved'[q][t] => reserved[q][t] \/ (q = r /\ t = s)
      BY <2>1, Reserving DEF ReserveBotSeatAt, SeatInv
    <3> QED BY <3>1, <3>2 DEF SeatInv, ReservedEmpty, Kept
  <2> QED BY <1>1, <1>2, <2>1 DEF AssignReserve
<1>3. CASE AssignSeat(r, s)
  <2>1. \A q \in Rooms, t \in Seats :
          reserved'[q][t] => reserved[q][t] /\ ~(q = r /\ t = s)
    BY <1>3, Releasing DEF AssignSeat, SeatInv
  <2>2. CASE AddBotPlayerAt(r, s)
    <3>1. occupant[r][s] = Nobody
      BY <2>2 DEF AddBotPlayerAt, SeatInv, ReservedEmpty
    <3>2. \A q \in Rooms, t \in Seats :
            occupant'[q][t] = IF q = r /\ t = s THEN Bot ELSE occupant[q][t]
      BY <2>2, Seating DEF AddBotPlayerAt, SeatInv, Occupants
    <3> QED BY <2>1, <3>1, <3>2 DEF SeatInv, ReservedEmpty, Kept
  <2> QED BY <1>3, <2>1, <2>2, SeatsAlone DEF AssignSeat
<1>4. CASE AssignSpawn(r, s)
  <2>1. CASE UNCHANGED reserved  BY <1>1, <1>4, <2>1 DEF AssignSpawn
  <2>2. CASE reserved' = [reserved EXCEPT ![r][s] = FALSE]
    <3>1. \A q \in Rooms, t \in Seats :
            reserved'[q][t] => reserved[q][t] /\ ~(q = r /\ t = s)
      BY <2>2, Releasing DEF SeatInv
    <3> QED BY <1>4, <3>1, SeatsAlone DEF AssignSpawn
  <2> QED BY <1>4, <2>1, <2>2 DEF AssignSpawn
<1>5. AssignCount(r, s) \/ AssignLookup(r, s) \/ AssignRecord(r, s)
      => UNCHANGED <<occupant, reserved>>
  BY DEF AssignCount, AssignLookup, AssignRecord, seatVars
<1> QED BY <1>1, <1>2, <1>3, <1>4, <1>5 DEF AssignStep

\* Timers, matches, connections, processes and the janitor keep the types.
LEMMA RoomType ==
  ASSUME TypeOK, NEW r \in Rooms,
         RoomStep(r) \/ \E s \in Seats : SeatStep(r, s)
  PROVE  TypeOK'
<1> USE DEF RoomStates
<1>1. CASE AutoFillFires(r)
  <2>1. task' \in [Rooms -> [Seats -> TaskSteps]]
    BY <1>1, Assigning, "count" \in TaskSteps, 2 \in Seats
    DEF AutoFillFires, TypeOK, TaskSteps, Seats
  <2> QED
    BY <1>1, <2>1 DEF AutoFillFires, TypeOK, roomVars, seatVars, humanVars, loopVars
<1>2. CASE StartMatch(r)
  BY <1>2 DEF StartMatch, TypeOK, seatVars, timerVars, botVars, humanVars, loopVars
<1>3. CASE ReconnectExpires(r)
  BY <1>3 DEF ReconnectExpires, TypeOK, seatVars, timerVars, botVars, humanVars, loopVars
<1>4. CASE CleanupClosed(r)
  BY <1>4 DEF CleanupClosed, TypeOK, seatVars, timerVars, botVars, humanVars, loopVars
<1>5. CASE CleanupFinds(r)
  BY <1>5 DEF CleanupFinds, TypeOK, roomVars, seatVars, timerVars, botVars, humanVars, loopVars
<1>6. CASE CleanupDrops(r)
  BY <1>6 DEF CleanupDrops, CancelBotReservation, TypeOK, botVars, humanVars, loopVars
<1>7. ASSUME NEW s \in Seats, Release(r, s) \/ ProcExits(r, s) PROVE TypeOK'
  <2>1. proc' \in [Rooms -> [Seats -> ProcStates]]
    BY <1>7, Running DEF ProcStates, Release, ProcExits
  <2>2. active' \in SUBSET (Rooms \X Seats)
    BY <1>7 DEF Release, ProcExits, TypeOK
  <2> QED
    BY <1>7, <2>1, <2>2
    DEF Release, ProcExits, ProcStates, TypeOK, roomVars, seatVars, timerVars, humanVars, loopVars
<1>8. ASSUME NEW s \in Seats, Arrive(r, s) PROVE TypeOK'
  <2>1. online' \in [Rooms -> [Seats -> BOOLEAN]]
    BY <1>8, Tables DEF Arrive
  <2> QED
    BY <1>8, <2>1 DEF Arrive, TypeOK, roomVars, seatVars, timerVars, botVars, humanVars, loopVars
<1>9. ASSUME NEW s \in Seats, Depart(r, s) PROVE TypeOK'
  <2>1. /\ online' \in [Rooms -> [Seats -> BOOLEAN]]
        /\ connected' \in [Rooms -> [Seats -> BOOLEAN]]
    BY <1>9, Tables DEF Depart
  <2>2. reserved' \in [Rooms -> [Seats -> BOOLEAN]]
    BY <1>9, Tables, Releasing DEF Depart
  <2>3. rstate' \in [Rooms -> RoomStates]
    BY <1>9 DEF Depart, TypeOK
  <2>4. inHub' \in [Rooms -> BOOLEAN]
    BY <1>9 DEF Depart, TypeOK
  <2> QED
    BY <1>9, <2>1, <2>2, <2>3, <2>4 DEF Depart, TypeOK, timerVars, botVars, humanVars, loopVars
<1> QED BY <1>1, <1>2, <1>3, <1>4, <1>5, <1>6, <1>7, <1>8, <1>9 DEF RoomStep, SeatStep

\* None of them takes a seat or reserves one.
LEMMA RoomKeeps ==
  ASSUME SeatInv, NEW r \in Rooms,
         RoomStep(r) \/ \E s \in Seats : SeatStep(r, s)
  PROVE  ReservedEmpty' /\ Kept
<1>1. CASE UNCHANGED <<occupant, reserved>>
  BY <1>1, SeatsAlone
<1>2. CASE CleanupDrops(r)
  BY <1>2, SeatsAlone DEF CleanupDrops, CancelBotReservation, SeatInv, TypeOK
<1>3. ASSUME NEW s \in Seats, Depart(r, s) PROVE ReservedEmpty' /\ Kept
  <2>1. CASE UNCHANGED reserved  BY <1>1, <1>3, <2>1 DEF Depart
  <2>2. CASE reserved' = [reserved EXCEPT ![r][s] = FALSE]
    <3>1. \A q \in Rooms, t \in Seats :
            reserved'[q][t] => reserved[q][t] /\ ~(q = r /\ t = s)
      BY <2>2, Releasing DEF SeatInv
    <3> QED BY <1>3, <3>1, SeatsAlone DEF Depart
  <2> QED BY <1>3, <2>1, <2>2 DEF Depart
<1>4. ASSUME NEW s \in Seats, Release(r, s) \/ ProcExits(r, s) \/ Arrive(r, s)
      PROVE  UNCHANGED <<occupant, reserved>>
  BY <1>4 DEF Release, ProcExits, Arrive, seatVars
<1>5. \/ AutoFillFires(r) \/ StartMatch(r) \/ ReconnectExpires(r)
      \/ CleanupClosed(r) \/ CleanupFinds(r)
      => UNCHANGED <<occupant, reserved>>
  BY DEF AutoFillFires, StartMatch, ReconnectExpires, CleanupClosed, CleanupFinds, seatVars
<1> QED BY <1>1, <1>2, <1>3, <1>4, <1>5 DEF RoomStep, SeatStep

\* The auto-room loop keeps the types, and the room it is about.
LEMMA LoopType ==
  ASSUME TypeOK, RoomKnown, LoopStep
  PROVE  TypeOK' /\ RoomKnown'
<1> USE DEF LoopSteps
<1>1. CASE LoopCounts
  BY <1>1 DEF LoopCounts, TypeOK, RoomKnown, roomVars, seatVars, timerVars, botVars, humanVars
<1>2. ASSUME NEW r \in Rooms, LoopCreates(r) PROVE TypeOK' /\ RoomKnown'
  BY <1>2 DEF LoopCreates, CreateRoomWithBotPolicy, Policies, TypeOK, RoomKnown, seatVars,
              timerVars, botVars, humanVars
<1>3. ASSUME NEW s \in Seats, LoopReserves(s) PROVE TypeOK' /\ RoomKnown'
  <2>1. lroom \in Rooms
    BY <1>3 DEF LoopReserves, RoomKnown
  <2>2. reserved' \in [Rooms -> [Seats -> BOOLEAN]]
    BY <1>3, <2>1, Tables, Reserving DEF LoopReserves, ReserveBotSeatAt
  <2>3. task' \in [Rooms -> [Seats -> TaskSteps]]
    <3>1. task' = task \/ task' = [task EXCEPT ![lroom][1] = "count"]
      BY <1>3 DEF LoopReserves
    <3> QED BY <2>1, <3>1, Assigning, "count" \in TaskSteps, 1 \in Seats
            DEF TypeOK, TaskSteps, Seats
  <2>4. lpc' \in LoopSteps /\ lroom' \in Rooms
    BY <1>3, <2>1 DEF LoopReserves
  <2> QED
    BY <1>3, <2>2, <2>3, <2>4 DEF LoopReserves, TypeOK, RoomKnown, roomVars, timerVars, humanVars
<1>4. ASSUME NEW s \in Seats, LoopAssigned(s) PROVE TypeOK' /\ RoomKnown'
  <2>1. lroom \in Rooms
    BY <1>4 DEF LoopAssigned, RoomKnown
  <2>2. task' \in [Rooms -> [Seats -> TaskSteps]]
    <3>1. task' = task \/ task' = [task EXCEPT ![lroom][2] = "count"]
      BY <1>4 DEF LoopAssigned
    <3> QED BY <2>1, <3>1, Assigning, "count" \in TaskSteps, 2 \in Seats
            DEF TypeOK, TaskSteps, Seats
  <2>3. lpc' \in LoopSteps /\ lroom' \in Rooms
    BY <1>4, <2>1 DEF LoopAssigned
  <2> QED
    BY <1>4, <2>2, <2>3
    DEF LoopAssigned, TypeOK, RoomKnown, roomVars, seatVars, timerVars, humanVars
<1>5. CASE LoopRemoves
  BY <1>5 DEF LoopRemoves, TypeOK, RoomKnown, seatVars, timerVars, botVars, humanVars
<1> QED BY <1>1, <1>2, <1>3, <1>4, <1>5 DEF LoopStep

\* The loop reserves empty seats, and seats nobody itself.
LEMMA LoopKeeps ==
  ASSUME SeatInv, LoopStep
  PROVE  ReservedEmpty' /\ Kept
<1>1. CASE UNCHANGED <<occupant, reserved>>
  BY <1>1, SeatsAlone
<1>2. ASSUME NEW s \in Seats, LoopReserves(s) PROVE ReservedEmpty' /\ Kept
  <2>1. CASE ReserveBotSeatAt(lroom, s)
    <3>1. lroom \in Rooms /\ UNCHANGED occupant /\ occupant[lroom][s] = Nobody
      BY <1>2, <2>1 DEF LoopReserves, ReserveBotSeatAt, SeatInv, RoomKnown
    <3>2. \A q \in Rooms, t \in Seats :
            reserved'[q][t] => reserved[q][t] \/ (q = lroom /\ t = s)
      BY <2>1, <3>1, Reserving DEF ReserveBotSeatAt, SeatInv
    <3> QED BY <3>1, <3>2 DEF SeatInv, ReservedEmpty, Kept
  <2> QED BY <1>1, <1>2, <2>1 DEF LoopReserves
<1>3. ASSUME NEW s \in Seats, LoopAssigned(s) PROVE UNCHANGED <<occupant, reserved>>
  BY <1>3 DEF LoopAssigned, seatVars
<1>4. LoopCounts \/ LoopRemoves \/ (\E r \in Rooms : LoopCreates(r))
      => UNCHANGED <<occupant, reserved>>
  BY DEF LoopCounts, LoopRemoves, LoopCreates, seatVars
<1> QED BY <1>1, <1>2, <1>3, <1>4 DEF LoopStep

\* Every step of the specification keeps the invariant, and every seat.
LEMMA NextSeats ==
  ASSUME SeatInv, [Next]_vars
  PROVE  SeatInv' /\ Kept
<1>1. ASSUME NEW h \in Humans, HumanStep(h) PROVE SeatInv' /\ Kept
  BY <1>1, HumanType, HumanKeeps DEF SeatInv
<1>2. ASSUME NEW r \in Rooms, RoomStep(r) \/ \E s \in Seats : SeatStep(r, s)
      PROVE  SeatInv' /\ Kept
  <2>1. RoomKnown'
    BY <1>2 DEF RoomStep, SeatStep, AutoFillFires, StartMatch, ReconnectExpires, CleanupClosed,
                CleanupFinds, CleanupDrops, Release, ProcExits, Arrive, Depart, humanVars,
                loopVars, SeatInv, RoomKnown
  <2> QED BY <1>2, <2>1, RoomType, RoomKeeps DEF SeatInv
<1>3. ASSUME NEW r \in Rooms, NEW s \in Seats, AssignStep(r, s) PROVE SeatInv' /\ Kept
  <2>1. RoomKnown'
    BY <1>3 DEF AssignStep, AssignCount, AssignLookup, AssignReserve, AssignSeat, AssignSpawn,
                AssignRecord, humanVars, loopVars, SeatInv, RoomKnown
  <2> QED BY <1>3, <2>1, AssignType, AssignKeeps DEF SeatInv
<1>4. CASE LoopStep
  BY <1>4, LoopType, LoopKeeps DEF SeatInv
<1>5. CASE UNCHANGED vars
  BY <1>5 DEF vars, roomVars, seatVars, timerVars, botVars, humanVars, loopVars, SeatInv,
              TypeOK, RoomKnown, ReservedEmpty, Kept
<1> QED BY <1>1, <1>2, <1>3, <1>4, <1>5 DEF Next

\* The invariant holds in every reachable state.
LEMMA SeatInvHolds == Spec => []SeatInv
<1>1. SeatInv /\ [Next]_vars => SeatInv'
  BY NextSeats
<1> QED BY InitSeats, <1>1, PTL DEF Spec

\* Type correctness: the bot manager's calls, the timer and the loop leave every
\* variable in its type, whatever order they come in.
THEOREM SeatsTyped == Spec => []TypeOK
<1>1. SeatInv => TypeOK
  BY DEF SeatInv
<1> QED BY SeatInvHolds, <1>1, PTL

\* A reserved seat is empty, whoever reserves it and whoever joins meanwhile.
THEOREM ReservationsEmpty == Spec => []ReservedEmpty
<1>1. SeatInv => ReservedEmpty
  BY DEF SeatInv
<1> QED BY SeatInvHolds, <1>1, PTL

\* A seat that is taken stays with whoever has it: a bot's AddBotPlayerAt never
\* overwrites a human, nor a human's AddPlayer a bot.
THEOREM SeatsKept == Spec => SeatKept
<1>1. SeatInv /\ [Next]_vars =>
        [\A r \in Rooms, s \in Seats :
           occupant[r][s] # Nobody => occupant'[r][s] = occupant[r][s]]_vars
  BY NextSeats DEF Kept
<1> QED BY SeatInvHolds, <1>1, PTL DEF Spec, SeatKept

-----------------------------------------------------------------------------
(* OneBotMatch and NoSlotLeak.                                              *)

\* The policies of rooms that humans ask bots for, and the states of an assignment
\* that is over or never began.
HumanPolicies == {"vs_ai", "auto_fill"}
Settled == {"none", "done", "failed"}

\* Only the room of the loop has a match between connected bots, and it has none
\* once the loop has decided that there is none.
LoopsMatch ==
  \A r \in Rooms : inHub[r] /\ BotMatch(r) => r = lroom /\ lpc # "create"

\* An assignment under way is for a room some human created, or it is the one
\* the loop waits for.
TasksOwned ==
  \A r \in Rooms, s \in Seats : task[r][s] \notin Settled =>
    \/ policy[r] \in HumanPolicies
    \/ r = lroom /\ lpc = IF s = 1 THEN "assign1" ELSE "assign2"

\* Handlers that create a room, and timers that run, are of such rooms too.
CreatorsOwn ==
  /\ \A h \in Humans : at[h] \in {"createAdd", "arm"} => policy[room[h]] \in HumanPolicies
  /\ \A r \in Rooms : timer[r] = "running" => policy[r] \in HumanPolicies

\* The process that is going to be recorded has been started, and not reaped.
RecordsProcess ==
  \A r \in Rooms, s \in Seats : task[r][s] = "record" => proc[r][s] \in {"running", "exited"}

\* What keeps the loop to one match, and what keeps the slots accounted for.
LoopInv == SeatInv /\ CreatorsOwn /\ TasksOwned /\ LoopsMatch
SlotInv == TypeOK /\ RecordsProcess /\ NoSlotLeak

\* A room's policy is given once, when it is created.
LEMMA PolicyStays ==
  ASSUME TypeOK, [Next]_vars, NEW r \in Rooms
  PROVE  /\ policy[r] \in HumanPolicies => policy'[r] = policy[r]
         /\ policy'[r] # policy[r] =>
              \/ \E h \in Humans, p \in HumanPolicies : ApiCreateRoom(h, r, p)
              \/ LoopCreates(r)
<1> USE DEF HumanPolicies
<1>1. ASSUME NEW q \in Rooms, NEW p \in Policies, CreateRoomWithBotPolicy(q, p)
      PROVE  policy'[r] = (IF r = q THEN p ELSE policy[r]) /\ policy[q] = "none"
  BY <1>1 DEF CreateRoomWithBotPolicy, TypeOK
<1>2. ASSUME NEW h \in Humans, HumanStep(h)
      PROVE  \/ UNCHANGED policy
             \/ \E q \in Rooms, p \in HumanPolicies : ApiCreateRoom(h, q, p)
  BY <1>2 DEF HumanStep, JoinRoom, ApiCreateAdd, ArmAutoFill, SetAutoFillTimer, JoinAdd,
     JoinCancel, roomVars
<1>3. ASSUME NEW q \in Rooms, RoomStep(q) \/ \E s \in Seats : AssignStep(q, s) \/ SeatStep(q, s)
      PROVE  UNCHANGED policy
  BY <1>3 DEF RoomStep, AssignStep, SeatStep, AutoFillFires, StartMatch, ReconnectExpires,
     CleanupClosed, CleanupFinds, CleanupDrops, AssignCount, AssignLookup, AssignReserve,
     AssignSeat, AssignSpawn, AssignRecord, Release, ProcExits, Arrive, Depart, roomVars
<1>4. ASSUME LoopStep PROVE UNCHANGED policy \/ \E q \in Rooms : LoopCreates(q)
  BY <1>4 DEF LoopStep, LoopCounts, LoopReserves, LoopAssigned, LoopRemoves, roomVars
<1>5. ASSUME NEW q \in Rooms, LoopCreates(q) \/ \E h \in Humans, p \in HumanPolicies : ApiCreateRoom(h, q, p)
      PROVE  \E p \in Policies : CreateRoomWithBotPolicy(q, p)
  BY <1>5 DEF LoopCreates, ApiCreateRoom, Policies
<1>6. \/ UNCHANGED policy
      \/ \E q \in Rooms : \/ LoopCreates(q)
                          \/ \E h \in Humans, p \in HumanPolicies : ApiCreateRoom(h, q, p)
  BY <1>2, <1>3, <1>4 DEF Next, vars, roomVars
<1> QED BY <1>1, <1>5, <1>6

\* Which steps begin a match between bots, or put it into the hub.
LEMMA MatchBegins ==
  ASSUME TypeOK, RoomKnown, [Next]_vars, NEW r \in Rooms, inHub'[r], BotMatch(r)'
  PROVE  \/ inHub[r] /\ BotMatch(r)
         \/ LoopCreates(r)
         \/ \E s \in Seats : AssignSeat(r, s)
<1>1. ASSUME NEW q \in Rooms, NEW h \in Humans, AddPlayer(q, h), UNCHANGED <<policy, inHub>>
      PROVE  inHub[r] /\ BotMatch(r)
  <2>1. PICK s \in Seats : /\ occupant' = [occupant EXCEPT ![q][s] = h]
                           /\ connected' = [connected EXCEPT ![q][s] = TRUE]
    BY <1>1 DEF AddPlayer
  <2>2. occupant'[q][s] = h /\ h # Bot
    BY <2>1, BotSeatsAssumption DEF TypeOK
  <2>3. q # r
    BY <2>2 DEF BotMatch
  <2>4. occupant'[r] = occupant[r] /\ connected'[r] = connected[r]
    BY <2>1, <2>3 DEF TypeOK
  <2> QED BY <1>1, <2>4 DEF BotMatch
<1>2. ASSUME UNCHANGED <<policy, occupant>>, inHub'[r] => inHub[r],
             \A s \in Seats : connected'[r][s] => connected[r][s]
      PROVE  inHub[r] /\ BotMatch(r)
  BY <1>2 DEF BotMatch
<1>3. ASSUME NEW h \in Humans, HumanStep(h) PROVE inHub[r] /\ BotMatch(r)
  <2>1. ASSUME NEW q \in Rooms, NEW p \in HumanPolicies, ApiCreateRoom(h, q, p)
        PROVE  inHub[r] /\ BotMatch(r)
    <3>1. q # r
      BY <2>1 DEF ApiCreateRoom, CreateRoomWithBotPolicy, BotMatch, HumanPolicies, TypeOK
    <3> QED BY <2>1, <3>1 DEF ApiCreateRoom, CreateRoomWithBotPolicy, BotMatch, TypeOK, seatVars
  <2>2. CASE ApiCreateAdd(h) \/ JoinAdd(h)
    <3>1. room[h] \in Rooms
      BY <2>2 DEF ApiCreateAdd, JoinAdd, RoomKnown
    <3> QED BY <1>1, <1>2, <2>2, <3>1 DEF ApiCreateAdd, JoinAdd
  <2>3. (\E q \in Rooms : JoinRoom(h, q)) \/ ArmAutoFill(h) \/ SetAutoFillTimer(h)
          \/ JoinCancel(h)
        => UNCHANGED <<policy, occupant, inHub, connected>>
    BY DEF JoinRoom, ArmAutoFill, SetAutoFillTimer, JoinCancel, roomVars, seatVars
  <2> QED BY <1>2, <1>3, <2>1, <2>2, <2>3 DEF HumanStep, HumanPolicies
<1>4. ASSUME NEW q \in Rooms, RoomStep(q) PROVE inHub[r] /\ BotMatch(r)
  <2>1. UNCHANGED <<policy, occupant, connected>>
    BY <1>4 DEF RoomStep, AutoFillFires, StartMatch, ReconnectExpires, CleanupClosed,
       CleanupFinds, CleanupDrops, roomVars, seatVars
  <2>2. inHub'[r] => inHub[r]
    BY <1>4 DEF RoomStep, AutoFillFires, StartMatch, ReconnectExpires, CleanupClosed,
       CleanupFinds, CleanupDrops, TypeOK, roomVars
  <2> QED BY <1>2, <2>1, <2>2
<1>5. ASSUME NEW q \in Rooms, NEW s \in Seats, SeatStep(q, s) PROVE inHub[r] /\ BotMatch(r)
  <2>1. CASE Depart(q, s)
    <3>1. \A t \in Seats : connected'[r][t] => connected[r][t]
      BY <2>1, Tables DEF Depart
    <3>2. UNCHANGED <<policy, occupant>> /\ (inHub'[r] => inHub[r])
      BY <2>1 DEF Depart, TypeOK
    <3> QED BY <1>2, <3>1, <3>2
  <2>2. CASE Release(q, s) \/ ProcExits(q, s) \/ Arrive(q, s)
    <3>1. UNCHANGED <<policy, occupant, inHub, connected>>
      BY <2>2 DEF Release, ProcExits, Arrive, roomVars, seatVars
    <3> QED BY <1>2, <3>1
  <2> QED BY <1>5, <2>1, <2>2 DEF SeatStep
<1>6. ASSUME NEW q \in Rooms, NEW s \in Seats, AssignStep(q, s)
      PROVE  (inHub[r] /\ BotMatch(r)) \/ \E t \in Seats : AssignSeat(r, t)
  <2>1. CASE AssignSeat(q, s)
    <3>1. CASE q = r
      BY <2>1, <3>1
    <3>2. CASE q # r
      <4>1. occupant'[r] = occupant[r] /\ connected'[r] = connected[r]
        BY <2>1, <3>2 DEF AssignSeat, AddBotPlayerAt, TypeOK
      <4> QED BY <2>1, <4>1 DEF AssignSeat, BotMatch
    <3> QED BY <3>1, <3>2
  <2>2. CASE ~AssignSeat(q, s)
    <3>1. UNCHANGED <<policy, occupant, inHub, connected>>
      BY <1>6, <2>2 DEF AssignStep, AssignCount, AssignLookup, AssignReserve, AssignSpawn,
         AssignRecord, roomVars, seatVars
    <3> QED BY <1>2, <3>1
  <2> QED BY <2>1, <2>2
<1>7. ASSUME LoopStep PROVE (inHub[r] /\ BotMatch(r)) \/ LoopCreates(r)
  <2>1. ASSUME NEW q \in Rooms, LoopCreates(q), q # r PROVE inHub[r] /\ BotMatch(r)
    BY <2>1 DEF LoopCreates, CreateRoomWithBotPolicy, BotMatch, TypeOK, seatVars
  <2>2. LoopCounts \/ LoopRemoves \/ (\E s \in Seats : LoopReserves(s) \/ LoopAssigned(s))
        => UNCHANGED <<policy, occupant, connected>> /\ (inHub'[r] => inHub[r])
    BY DEF LoopCounts, LoopRemoves, LoopReserves, LoopAssigned, TypeOK, roomVars, seatVars
  <2> QED BY <1>2, <1>7, <2>1, <2>2 DEF LoopStep
<1>8. CASE UNCHANGED vars
  <2>1. UNCHANGED <<policy, occupant, inHub, connected>>
    BY <1>8 DEF vars, roomVars, seatVars
  <2> QED BY <1>2, <2>1
<1> QED BY <1>3, <1>4, <1>5, <1>6, <1>7, <1>8 DEF Next

\* An assignment that goes on leaves the others where they are.
LEMMA OneAssignment ==
  ASSUME TypeOK, NEW r, NEW s, NEW x, task' = [task EXCEPT ![r][s] = x]
  PROVE  \A q \in Rooms, t \in Seats :
           /\ task'[q][t] \in {x, task[q][t]}
           /\ q # r \/ t # s => task'[q][t] = task[q][t]
           /\ q = r /\ t = s => task'[q][t] = x
<1>1. task \in [Rooms -> [Seats -> TaskSteps]]
  BY Tables
<1> QED BY <1>1

\* The loop's position is its own.
LEMMA LoopAlone ==
  ASSUME [Next]_vars, ~LoopStep
  PROVE  UNCHANGED loopVars
<1>1. ASSUME NEW h \in Humans, HumanStep(h) PROVE UNCHANGED loopVars
  BY <1>1 DEF HumanStep, JoinRoom, ApiCreateRoom, ApiCreateAdd, ArmAutoFill, SetAutoFillTimer,
     JoinAdd, JoinCancel
<1>2. ASSUME NEW r \in Rooms, RoomStep(r) \/ \E s \in Seats : SeatStep(r, s)
      PROVE  UNCHANGED loopVars
  BY <1>2 DEF RoomStep, AutoFillFires, StartMatch, ReconnectExpires, CleanupClosed, CleanupFinds,
     CleanupDrops, SeatStep, Release, ProcExits, Arrive, Depart
<1>3. ASSUME NEW r \in Rooms, NEW s \in Seats, AssignStep(r, s) PROVE UNCHANGED loopVars
  BY <1>3 DEF AssignStep, AssignCount, AssignLookup, AssignReserve, AssignSeat, AssignSpawn,
     AssignRecord
<1> QED BY <1>1, <1>2, <1>3 DEF Next, vars

\* A human's handler goes on to the auto-fill of the room it has created.
LEMMA NextCreators ==
  ASSUME TypeOK, RoomKnown, CreatorsOwn, [Next]_vars
  PROVE  CreatorsOwn'
<1>1. ASSUME NEW h \in Humans, at'[h] \in {"createAdd", "arm"}
      PROVE  policy'[room'[h]] \in HumanPolicies
  <2>1. CASE at'[h] = at[h] /\ room'[h] = room[h]
    <3>1. room[h] \in Rooms /\ policy[room[h]] \in HumanPolicies
      BY <1>1, <2>1 DEF CreatorsOwn, RoomKnown
    <3> QED BY <2>1, <3>1, PolicyStays
  <2>2. ASSUME NEW g \in Humans, HumanStep(g) PROVE policy'[room'[h]] \in HumanPolicies
    <3>1. ASSUME NEW r \in Rooms, NEW p \in HumanPolicies, ApiCreateRoom(g, r, p)
          PROVE  policy'[room'[h]] \in HumanPolicies
      <4>1. CASE g = h
        <5>1. room'[h] = r /\ policy'[r] = p
          BY <3>1, <4>1 DEF ApiCreateRoom, CreateRoomWithBotPolicy, TypeOK
        <5> QED BY <5>1
      <4>2. CASE g # h
        BY <2>1, <3>1, <4>2 DEF ApiCreateRoom, TypeOK
      <4> QED BY <4>1, <4>2
    <3>2. CASE ApiCreateAdd(g)
      <4>1. CASE g = h
        <5>1. UNCHANGED <<policy, room>> /\ at[h] = "createAdd"
          BY <3>2, <4>1 DEF ApiCreateAdd
        <5> QED BY <5>1 DEF CreatorsOwn
      <4>2. CASE g # h
        BY <2>1, <3>2, <4>2 DEF ApiCreateAdd, TypeOK
      <4> QED BY <4>1, <4>2
    <3>3. ASSUME \/ \E r \in Rooms : JoinRoom(g, r)
                 \/ ArmAutoFill(g) \/ SetAutoFillTimer(g) \/ JoinAdd(g) \/ JoinCancel(g)
          PROVE  policy'[room'[h]] \in HumanPolicies
      <4>1. \E to \in {"joinAdd", "wsAdd", "setTimer", "cancel", "done"} :
              at' = [at EXCEPT ![g] = to]
        BY <3>3 DEF JoinRoom, ArmAutoFill, SetAutoFillTimer, JoinAdd, JoinCancel
      <4>2. g # h
        BY <1>1, <4>1 DEF TypeOK
      <4>3. room'[h] = room[h]
        BY <3>3, <4>2 DEF JoinRoom, ArmAutoFill, SetAutoFillTimer, JoinAdd, JoinCancel, TypeOK
      <4> QED BY <2>1, <4>1, <4>2, <4>3 DEF TypeOK
    <3> QED BY <2>2, <3>1, <3>2, <3>3 DEF HumanStep, HumanPolicies
  <2>3. ASSUME \A g \in Humans : ~HumanStep(g) PROVE UNCHANGED humanVars
    BY <2>3 DEF Next, LoopStep, LoopCounts, LoopCreates, LoopReserves, LoopAssigned, LoopRemoves,
       RoomStep, AutoFillFires, StartMatch, ReconnectExpires, CleanupClosed, CleanupFinds,
       CleanupDrops, AssignStep, AssignCount, AssignLookup, AssignReserve, AssignSeat,
       AssignSpawn, AssignRecord, SeatStep, Release, ProcExits, Arrive, Depart, vars, humanVars
  <2> QED BY <2>1, <2>2, <2>3 DEF humanVars
<1>2. ASSUME NEW r \in Rooms, timer'[r] = "running" PROVE policy'[r] \in HumanPolicies
  <2>1. CASE timer[r] = "running"
    BY <2>1, PolicyStays DEF CreatorsOwn
  <2>2. CASE timer[r] # "running"
    <3>1. ASSUME NEW h \in Humans, HumanStep(h), ~ArmAutoFill(h) PROVE FALSE
      BY <1>2, <2>2, <3>1 DEF HumanStep, JoinRoom, ApiCreateRoom, ApiCreateAdd, SetAutoFillTimer,
         JoinAdd, JoinCancel, CancelBotReservation, timerVars, TypeOK
    <3>2. ASSUME \A h \in Humans : ~HumanStep(h) PROVE FALSE
      BY <1>2, <2>2, <3>2 DEF Next, LoopStep, LoopCounts, LoopCreates, LoopReserves, LoopAssigned,
         LoopRemoves, RoomStep, AutoFillFires, StartMatch, ReconnectExpires, CleanupClosed,
         CleanupFinds, CleanupDrops, CancelBotReservation, AssignStep, AssignCount, AssignLookup,
         AssignReserve, AssignSeat, AssignSpawn, AssignRecord, SeatStep, Release, ProcExits,
         Arrive, Depart, vars, timerVars, TypeOK
    <3>3. PICK h \in Humans : ArmAutoFill(h)
      BY <3>1, <3>2
    <3>4. room[h] = r /\ UNCHANGED policy
      BY <1>2, <2>2, <3>3 DEF ArmAutoFill, TypeOK, roomVars
    <3> QED BY <3>3, <3>4 DEF ArmAutoFill, CreatorsOwn
  <2> QED BY <2>1, <2>2
<1> QED BY <1>1, <1>2 DEF CreatorsOwn

\* Assignments are begun by the creators' handlers and timers, and by the loop.
LEMMA NextTasks ==
  ASSUME TypeOK, RoomKnown, CreatorsOwn, TasksOwned, [Next]_vars
  PROVE  TasksOwned'
<1> USE DEF Settled
<1> SUFFICES ASSUME NEW r \in Rooms, NEW s \in Seats, task'[r][s] \notin Settled,
                    policy[r] \notin HumanPolicies
             PROVE  r = lroom' /\ lpc' = IF s = 1 THEN "assign1" ELSE "assign2"
  BY PolicyStays DEF TasksOwned
<1>1. CASE task[r][s] \notin Settled /\ ~LoopStep
  BY <1>1, LoopAlone DEF TasksOwned, loopVars
<1>2. ASSUME task[r][s] \in Settled, ~LoopStep PROVE FALSE
  <2>1. ASSUME NEW h \in Humans, HumanStep(h) PROVE FALSE
    <3>1. ApiCreateAdd(h)
      BY <1>2, <2>1 DEF HumanStep, JoinRoom, ApiCreateRoom, ArmAutoFill, SetAutoFillTimer, JoinAdd,
         JoinCancel, botVars
    <3>2. room[h] = r
      BY <1>2, <3>1, Tables DEF ApiCreateAdd
    <3> QED BY <3>1, <3>2 DEF ApiCreateAdd, CreatorsOwn
  <2>2. ASSUME NEW q \in Rooms, RoomStep(q) PROVE FALSE
    <3>1. AutoFillFires(q)
      BY <1>2, <2>2 DEF RoomStep, StartMatch, ReconnectExpires, CleanupClosed, CleanupFinds,
         CleanupDrops, botVars
    <3>2. q = r
      BY <1>2, <3>1, Tables DEF AutoFillFires
    <3> QED BY <3>1, <3>2 DEF AutoFillFires, CreatorsOwn
  <2>3. ASSUME NEW q \in Rooms, NEW u \in Seats, AssignStep(q, u) PROVE FALSE
    <3>1. PICK from \in TaskSteps \ Settled, to \in TaskSteps : Step(q, u, from, to)
      BY <2>3 DEF AssignStep, AssignCount, AssignLookup, AssignReserve, AssignSeat, AssignSpawn,
         AssignRecord, TaskSteps
    <3>2. q = r /\ u = s
      BY <1>2, <3>1, Tables DEF Step
    <3> QED BY <1>2, <3>1, <3>2 DEF Step
  <2>4. ASSUME NEW q \in Rooms, NEW u \in Seats, SeatStep(q, u) PROVE FALSE
    BY <1>2, <2>4 DEF SeatStep, Release, ProcExits, Arrive, Depart, botVars
  <2> QED BY <1>2, <2>1, <2>2, <2>3, <2>4 DEF Next, vars, botVars
<1>3. CASE LoopStep
  <2>0. s \in {1, 2}
    BY DEF Seats
  <2>1. CASE LoopCounts \/ LoopRemoves \/ \E q \in Rooms : LoopCreates(q)
    BY <2>1 DEF LoopCounts, LoopRemoves, LoopCreates, TasksOwned, botVars
  <2>2. ASSUME NEW u \in Seats, LoopReserves(u)
        PROVE  r = lroom' /\ lpc' = IF s = 1 THEN "assign1" ELSE "assign2"
    <3>1. task[r][s] \in Settled /\ lroom \in Rooms
      BY <2>2 DEF LoopReserves, TasksOwned, RoomKnown
    <3>2. r = lroom /\ s = 1 /\ u # 1
      BY <2>2, <3>1, Tables DEF LoopReserves, Seats
    <3> QED BY <2>2, <3>1, <3>2 DEF LoopReserves
  <2>3. ASSUME NEW u \in Seats, LoopAssigned(u)
        PROVE  r = lroom' /\ lpc' = IF s = 1 THEN "assign1" ELSE "assign2"
    <3>1. task[r][s] \in Settled /\ lroom \in Rooms
      BY <2>0, <2>3 DEF LoopAssigned, TasksOwned, RoomKnown, Seats
    <3>2. r = lroom /\ s = 2 /\ u = 1
      BY <2>3, <3>1, Tables DEF LoopAssigned, Seats
    <3> QED BY <2>3, <3>1, <3>2 DEF LoopAssigned
  <2> QED BY <1>3, <2>1, <2>2, <2>3 DEF LoopStep
<1> QED BY <1>1, <1>2, <1>3

\* A match between bots is begun in the loop's room, and the loop goes on to
\* another room only when it has found no such match.
LEMMA NextMatches ==
  ASSUME TypeOK, RoomKnown, TasksOwned, LoopsMatch, [Next]_vars
  PROVE  LoopsMatch'
<1> SUFFICES ASSUME NEW r \in Rooms, inHub'[r], BotMatch(r)' PROVE r = lroom' /\ lpc' # "create"
  BY DEF LoopsMatch
<1>1. CASE inHub[r] /\ BotMatch(r)
  <2>1. r = lroom /\ lpc # "create"
    BY <1>1 DEF LoopsMatch
  <2>2. CASE LoopStep
    BY <1>1, <2>1, <2>2 DEF LoopStep, LoopCounts, LoopCreates, LoopReserves, LoopAssigned,
       LoopRemoves
  <2> QED BY <2>1, <2>2, LoopAlone DEF loopVars
<1>2. CASE LoopCreates(r)
  BY <1>2 DEF LoopCreates
<1>3. ASSUME NEW s \in Seats, AssignSeat(r, s) PROVE r = lroom' /\ lpc' # "create"
  <2>1. task[r][s] = "seat" /\ UNCHANGED <<policy, loopVars>>
    BY <1>3 DEF AssignSeat, Step
  <2>2. policy[r] \notin HumanPolicies
    BY <2>1 DEF BotMatch, HumanPolicies
  <2> QED BY <2>1, <2>2 DEF TasksOwned, Settled, loopVars
<1> QED BY <1>1, <1>2, <1>3, MatchBegins

\* A process is recorded while it runs or has exited, and its record goes when
\* it is reaped.
LEMMA NextSlots ==
  ASSUME SlotInv, TypeOK', [Next]_vars
  PROVE  SlotInv'
<1> USE DEF SlotInv
<1> DEFINE Alive(r, s) == proc[r][s] \in {"running", "exited"}
<1>0. \A a \in active : a = <<a[1], a[2]>> /\ a[1] \in Rooms /\ a[2] \in Seats
  BY DEF TypeOK
<1>1. ASSUME UNCHANGED <<proc, active>>,
             \A r \in Rooms, s \in Seats : task'[r][s] = "record" => task[r][s] = "record"
      PROVE  RecordsProcess' /\ NoSlotLeak'
  BY <1>1 DEF RecordsProcess, NoSlotLeak
<1>2. ASSUME NEW h \in Humans, HumanStep(h) PROVE RecordsProcess' /\ NoSlotLeak'
  <2>1. UNCHANGED <<proc, active>>
    BY <1>2 DEF HumanStep, JoinRoom, ApiCreateRoom, ApiCreateAdd, ArmAutoFill, SetAutoFillTimer,
       JoinAdd, JoinCancel, botVars
  <2>2. task' = task \/ task' = [task EXCEPT ![room[h]][2] = "count"]
    BY <1>2 DEF HumanStep, JoinRoom, ApiCreateRoom, ApiCreateAdd, ArmAutoFill, SetAutoFillTimer,
       JoinAdd, JoinCancel, botVars
  <2>3. ASSUME NEW r \in Rooms, NEW s \in Seats, task'[r][s] = "record"
        PROVE  task[r][s] = "record"
    <3>1. CASE task' = task
      BY <2>3, <3>1
    <3>2. ASSUME task' = [task EXCEPT ![room[h]][2] = "count"] PROVE task[r][s] = "record"
      <4>1. task'[r][s] \in {"count", task[r][s]}
        BY <3>2, OneAssignment
      <4> QED BY <2>3, <4>1
    <3> QED BY <2>2, <3>1, <3>2
  <2> QED BY <1>1, <2>1, <2>3
<1>3. ASSUME NEW q \in Rooms, RoomStep(q) PROVE RecordsProcess' /\ NoSlotLeak'
  <2>1. UNCHANGED <<proc, active>>
    BY <1>3 DEF RoomStep, AutoFillFires, StartMatch, ReconnectExpires, CleanupClosed,
       CleanupFinds, CleanupDrops, botVars
  <2>2. task' = task \/ task' = [task EXCEPT ![q][2] = "count"]
    BY <1>3 DEF RoomStep, AutoFillFires, StartMatch, ReconnectExpires, CleanupClosed,
       CleanupFinds, CleanupDrops, botVars
  <2>3. ASSUME NEW r \in Rooms, NEW s \in Seats, task'[r][s] = "record"
        PROVE  task[r][s] = "record"
    <3>1. CASE task' = task
      BY <2>3, <3>1
    <3>2. ASSUME task' = [task EXCEPT ![q][2] = "count"] PROVE task[r][s] = "record"
      <4>1. task'[r][s] \in {"count", task[r][s]}
        BY <3>2, OneAssignment
      <4> QED BY <2>3, <4>1
    <3> QED BY <2>2, <3>1, <3>2
  <2> QED BY <1>1, <2>1, <2>3
<1>4. ASSUME NEW q \in Rooms, NEW u \in Seats, AssignStep(q, u)
      PROVE  RecordsProcess' /\ NoSlotLeak'
  <2>1. CASE AssignCount(q, u) \/ AssignLookup(q, u) \/ AssignReserve(q, u) \/ AssignSeat(q, u)
    <3>1. UNCHANGED <<proc, active>>
      BY <2>1 DEF AssignCount, AssignLookup, AssignReserve, AssignSeat
    <3>2. \E to \in TaskSteps \ {"record"} : task' = [task EXCEPT ![q][u] = to]
      BY <2>1 DEF AssignCount, AssignLookup, AssignReserve, AssignSeat, Step, TaskSteps
    <3> QED BY <1>1, <3>1, <3>2, Tables
  <2>2. CASE AssignSpawn(q, u)
    <3>1. CASE UNCHANGED proc
      <4>1. task' = [task EXCEPT ![q][u] = "failed"] \/ task' = [task EXCEPT ![q][u] = "record"]
        BY <2>2 DEF AssignSpawn, Step
      <4>2. task' = [task EXCEPT ![q][u] = "failed"] \/ proc' = [proc EXCEPT ![q][u] = "running"]
        BY <2>2 DEF AssignSpawn, Step
      <4>3. task' = [task EXCEPT ![q][u] = "failed"] \/ proc[q][u] = "running"
        BY <3>1, <4>2, Tables
      <4>4. UNCHANGED active
        BY <2>2 DEF AssignSpawn
      <4>5. NoSlotLeak'
        BY <3>1, <4>4 DEF NoSlotLeak
      <4>6. ASSUME NEW r \in Rooms, NEW s \in Seats, task'[r][s] = "record"
            PROVE  Alive(r, s)
        <5>1. CASE task' = [task EXCEPT ![q][u] = "failed"]
          <6>1. task'[r][s] \in {"failed", task[r][s]}
            BY <5>1, OneAssignment
          <6> QED BY <4>6, <6>1 DEF RecordsProcess
        <5>2. CASE task' = [task EXCEPT ![q][u] = "record"] /\ proc[q][u] = "running"
          <6>1. r # q \/ s # u => task'[r][s] = task[r][s]
            BY <5>2, OneAssignment
          <6> QED BY <4>6, <5>2, <6>1 DEF RecordsProcess
        <5> QED BY <4>1, <4>3, <5>1, <5>2
      <4> QED BY <3>1, <4>5, <4>6 DEF RecordsProcess
    <3>2. CASE proc' = [proc EXCEPT ![q][u] = "running"] /\ task' = [task EXCEPT ![q][u] = "record"]
      <4>1. \A r \in Rooms, s \in Seats : Alive(r, s) => proc'[r][s] \in {"running", "exited"}
        BY <3>2, Tables
      <4>2. proc'[q][u] = "running"
        BY <3>2, Tables
      <4>3. UNCHANGED active
        BY <2>2 DEF AssignSpawn
      <4>4. NoSlotLeak'
        BY <1>0, <4>1, <4>3 DEF NoSlotLeak
      <4>5. RecordsProcess'
        BY <3>2, <4>1, <4>2, OneAssignment DEF RecordsProcess
      <4> QED BY <4>4, <4>5
    <3> QED BY <2>2, <3>1, <3>2 DEF AssignSpawn, Step
  <2>3. CASE AssignRecord(q, u)
    <3>1. UNCHANGED proc /\ Alive(q, u) /\ active' = active \cup {<<q, u>>}
      BY <2>3 DEF AssignRecord, Step, RecordsProcess
    <3>2. task' = [task EXCEPT ![q][u] = "done"]
      BY <2>3 DEF AssignRecord, Step
    <3>3. RecordsProcess'
      BY <3>1, <3>2, Tables DEF RecordsProcess
    <3>4. NoSlotLeak'
      BY <3>1 DEF NoSlotLeak
    <3> QED BY <3>3, <3>4
  <2> QED BY <1>4, <2>1, <2>2, <2>3 DEF AssignStep
<1>5. ASSUME NEW q \in Rooms, NEW u \in Seats, SeatStep(q, u)
      PROVE  RecordsProcess' /\ NoSlotLeak'
  <2>1. CASE Release(q, u)
    <3>1. \A r \in Rooms, s \in Seats :
            proc'[r][s] = IF r = q /\ s = u THEN "reaped" ELSE proc[r][s]
      BY <2>1, Tables DEF Release
    <3>2. task[q][u] = "done" /\ UNCHANGED task /\ active' = active \ {<<q, u>>}
      BY <2>1 DEF Release
    <3>3. RecordsProcess'
      BY <3>1, <3>2 DEF RecordsProcess
    <3>4. NoSlotLeak'
      BY <1>0, <3>1, <3>2 DEF NoSlotLeak
    <3> QED BY <3>3, <3>4
  <2>2. CASE ProcExits(q, u)
    <3>1. \A r \in Rooms, s \in Seats : Alive(r, s) => proc'[r][s] \in {"running", "exited"}
      BY <2>2, Tables DEF ProcExits
    <3>2. UNCHANGED <<task, active>>
      BY <2>2 DEF ProcExits
    <3> QED BY <1>0, <3>1, <3>2 DEF RecordsProcess, NoSlotLeak
  <2>3. CASE Arrive(q, u) \/ Depart(q, u)
    BY <1>1, <2>3 DEF Arrive, Depart, botVars
  <2> QED BY <1>5, <2>1, <2>2, <2>3 DEF SeatStep
<1>6. ASSUME LoopStep PROVE RecordsProcess' /\ NoSlotLeak'
  <2>1. UNCHANGED <<proc, active>>
    BY <1>6 DEF LoopStep, LoopCounts, LoopCreates, LoopReserves, LoopAssigned, LoopRemoves, botVars
  <2>2. task' = task \/ \E s \in Seats : task' = [task EXCEPT ![lroom][s] = "count"]
    BY <1>6 DEF LoopStep, LoopCounts, LoopCreates, LoopReserves, LoopAssigned, LoopRemoves, botVars,
       Seats
  <2>3. ASSUME NEW r \in Rooms, NEW s \in Seats, task'[r][s] = "record"
        PROVE  task[r][s] = "record"
    <3>1. CASE task' = task
      BY <2>3, <3>1
    <3>2. ASSUME NEW u \in Seats, task' = [task EXCEPT ![lroom][u] = "count"] PROVE task[r][s] = "record"
      <4>1. task'[r][s] \in {"count", task[r][s]}
        BY <3>2, OneAssignment
      <4> QED BY <2>3, <4>1
    <3> QED BY <2>2, <3>1, <3>2
  <2> QED BY <1>1, <2>1, <2>3
<1>7. CASE UNCHANGED vars
  BY <1>1, <1>7 DEF vars, botVars
<1> QED BY <1>2, <1>3, <1>4, <1>5, <1>6, <1>7 DEF Next

\* However many assignments, exits and departures race with the loop's decision,
\* the hub never holds two matches between connected bots.
THEOREM BotMatchOnce == Spec => []OneBotMatch
<1>1. Init => LoopInv
  <2> SUFFICES ASSUME Init PROVE LoopInv
    OBVIOUS
  <2>1. SeatInv
    BY InitSeats
  <2>2. CreatorsOwn /\ LoopsMatch
    BY DEF Init, CreatorsOwn, LoopsMatch
  <2>3. TasksOwned
    BY DEF Init, TasksOwned, Settled, EverySeat
  <2> QED BY <2>1, <2>2, <2>3 DEF LoopInv
<1>2. LoopInv /\ [Next]_vars => LoopInv'
  BY NextSeats, NextCreators, NextTasks, NextMatches DEF LoopInv, SeatInv
<1>3. LoopInv => OneBotMatch
  BY DEF LoopInv, LoopsMatch, OneBotMatch
<1> QED BY <1>1, <1>2, <1>3, PTL DEF Spec

\* However the exit of a process races with the recording of it, no process that
\* was reaped stays in the manager's table, where it would use up the cap.
THEOREM SlotsReleased == Spec => []NoSlotLeak
<1>1. Init => SlotInv
  <2> SUFFICES ASSUME Init PROVE SlotInv
    OBVIOUS
  <2>1. TypeOK
    BY InitSeats DEF SeatInv
  <2>2. RecordsProcess /\ NoSlotLeak
    BY DEF Init, RecordsProcess, NoSlotLeak, EverySeat
  <2> QED BY <2>1, <2>2 DEF SlotInv
<1>2. TypeOK' /\ SlotInv /\ [Next]_vars => SlotInv'
  BY NextSlots
<1>3. SlotInv => NoSlotLeak
  BY DEF SlotInv
<1> QED BY <1>1, <1>2, <1>3, SeatsTyped, PTL DEF Spec
=============================================================================
