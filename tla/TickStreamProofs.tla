-------------------------- MODULE TickStreamProofs --------------------------
(***************************************************************************)
(* What TLAPS proves of TickStream, for any board, queues, receivers and   *)
(* handlers: a client that has missed no tick shows the server's board,    *)
(* the stream implements Mirror, players have a board before a tick, and   *)
(* no client counts too many deltas.                                       *)
(*                                                                         *)
(* None is inductive: what a client will show is in messages queued,       *)
(* held by a handler or about to be sent.  StreamInv says of every one of  *)
(* them that it is true of its tick (MsgOK): a full board is the board of  *)
(* the tick, a delta leads from the board of the tick before to it.  The   *)
(* loop keeps that up because the tracker has the last tick's board        *)
(* (PrevLast), and boards of ticks gone by do not change.                  *)
(***************************************************************************)
EXTENDS TickStream, TLAPS

MsgOK(m) ==
  /\ m.tick <= tick
  /\ m.kind # "delta" => m.cells = boards[m.tick]
  /\ m.kind = "delta" => /\ Patch(boards[m.tick], m.cells) = boards[m.tick]
                         /\ m.tick # 0
                         /\ Patch(boards[m.tick - 1], m.cells) = boards[m.tick]

QueuedOK == \A r \in Receivers : \A i \in 1..Len(queue[r]) : MsgOK(queue[r][i])
SendingOK == msg # NoMsg => MsgOK(msg)
HeldOK == \A h \in Handlers : held[h] # NoMsg => MsgOK(held[h]) /\ todo[h] # <<>>
PrevLast == prev # NoGrid => prev = boards[tick]
AtPast == \A r \in Receivers : at[r] <= tick

StreamInv ==
  TypeOK /\ QueuedOK /\ SendingOK /\ HeldOK /\ PrevLast /\ AtPast /\ InStepShows

\* Boards are patches of all cells, and patching a board gives a board.
LEMMA PatchType ==
  /\ Grids \subseteq Patches
  /\ \A g \in Grids, p \in Patches : Patch(g, p) \in Grids
<1>1. Grids \subseteq Patches
  BY DEF Grids, Patches
<1>2. ASSUME NEW g \in Grids, NEW p \in Patches PROVE Patch(g, p) \in Grids
  <2>1. PICK D \in SUBSET Cells : p \in [D -> Values]
    BY DEF Patches
  <2> QED BY <2>1 DEF Patch, Grids
<1> QED BY <1>1, <1>2

\* The delta between the last board and g turns it into g, and g into itself.
LEMMA DeltaLeads ==
  ASSUME prev \in Grids, NEW g \in Grids
  PROVE  /\ ComputeDelta(g) \in Patches
         /\ Patch(prev, ComputeDelta(g)) = g
         /\ Patch(g, ComputeDelta(g)) = g
<1> DEFINE D == {x \in Cells : g[x] # prev[x]}
<1>1. ComputeDelta(g) \in [D -> Values] /\ D \in SUBSET Cells
  BY DEF ComputeDelta, Grids
<1>2. \A c \in Cells : /\ Patch(prev, ComputeDelta(g))[c] = g[c]
                       /\ Patch(g, ComputeDelta(g))[c] = g[c]
  BY DEF ComputeDelta, Patch
<1>3. /\ Patch(prev, ComputeDelta(g)) \in [Cells -> Values]
      /\ Patch(g, ComputeDelta(g)) \in [Cells -> Values]
  BY <1>1, PatchType DEF Patches, Grids
<1> QED BY <1>1, <1>2, <1>3 DEF Patches, Grids

\* The match begins with nothing sent, held or shown.
LEMMA InitStream == Init => StreamInv
<1> SUFFICES ASSUME Init PROVE StreamInv
  OBVIOUS
<1>1. /\ FirstGrid \in Grids /\ MaxTick \in Nat /\ QueueCap \in Nat
      /\ Players \in Seq(Receivers) /\ Seated \subseteq Receivers
  BY TickStreamAssumption DEF Seated, Receivers
<1>2. TypeOK
  <2>1. boards \in [0..MaxTick -> Grids] /\ tick \in 0..MaxTick
    BY <1>1 DEF Init
  <2>2. todo \in [Handlers -> Seq(Receivers)] /\ held \in [Handlers -> Msg \cup {NoMsg}]
    BY <1>1 DEF Init
  <2>3. queue \in [Receivers -> Seq(Msg)] /\ \A r \in Receivers : Len(queue[r]) <= QueueCap
    BY <1>1 DEF Init
  <2>4. at \in [Receivers -> 0..MaxTick]
    BY <1>1 DEF Init
  <2> QED BY <2>1, <2>2, <2>3, <2>4 DEF Init, TypeOK
<1>3. QueuedOK
  BY DEF Init, QueuedOK
<1>4. SendingOK /\ HeldOK /\ PrevLast /\ InStepShows
  BY DEF Init, SendingOK, HeldOK, PrevLast, InStepShows, InStep
<1>5. AtPast
  BY DEF Init, AtPast
<1> QED BY <1>2, <1>3, <1>4, <1>5 DEF StreamInv

\* What is true of a tick stays true of it in the ticks after.
LEMMA MsgStays ==
  ASSUME TypeOK, NEW m \in Msg, MsgOK(m),
         \/ UNCHANGED <<tick, boards>>
         \/ /\ tick < MaxTick /\ tick' = tick + 1
            /\ \E g \in Grids : boards' = [boards EXCEPT ![tick + 1] = g]
  PROVE  MsgOK(m)'
<1>1. CASE UNCHANGED <<tick, boards>>
  BY <1>1 DEF MsgOK
<1>2. CASE /\ tick < MaxTick /\ tick' = tick + 1
           /\ \E g \in Grids : boards' = [boards EXCEPT ![tick + 1] = g]
  <2>1. \A t \in 0..MaxTick : t <= tick => boards'[t] = boards[t]
    BY <1>2, TickStreamAssumption DEF TypeOK
  <2>2. m.tick \in 0..MaxTick /\ tick \in 0..MaxTick
    BY DEF Msg, TypeOK
  <2> QED BY <1>2, <2>1, <2>2, TickStreamAssumption DEF MsgOK
<1> QED BY <1>1, <1>2

\* Sending a true message, to whomever, leaves true messages in the queues.
LEMMA SendOK ==
  ASSUME TypeOK, QueuedOK, UNCHANGED <<tick, boards>>,
         NEW R, NEW m \in Msg, MsgOK(m), Send(R, m)
  PROVE  /\ queue' \in [Receivers -> Seq(Msg)]
         /\ \A r \in Receivers : Len(queue'[r]) <= QueueCap
         /\ dropped' \in [Receivers -> BOOLEAN]
         /\ lostKeys' \in [Receivers -> Nat]
         /\ QueuedOK'
<1>1. ASSUME NEW r \in Receivers
      PROVE  /\ queue'[r] \in Seq(Msg) /\ Len(queue'[r]) <= QueueCap
             /\ \A i \in 1..Len(queue'[r]) : MsgOK(queue'[r][i])
  <2>1. queue[r] \in Seq(Msg) /\ Len(queue[r]) <= QueueCap /\ QueueCap \in Nat
    BY TickStreamAssumption DEF TypeOK
  <2>2. \/ queue'[r] = queue[r]
        \/ queue'[r] = Append(queue[r], m) /\ Len(queue[r]) < QueueCap
    BY DEF Send
  <2>3. CASE queue'[r] = queue[r]
    BY <2>1, <2>3 DEF QueuedOK
  <2>4. CASE queue'[r] = Append(queue[r], m) /\ Len(queue[r]) < QueueCap
    <3>1. \A i \in 1..Len(queue'[r]) : queue'[r][i] = IF i <= Len(queue[r]) THEN queue[r][i] ELSE m
      BY <2>1, <2>4
    <3>2. queue'[r] \in Seq(Msg) /\ Len(queue'[r]) = Len(queue[r]) + 1
      BY <2>1, <2>4
    <3>3. \A i \in 1..Len(queue[r]) : MsgOK(queue[r][i])
      BY DEF QueuedOK
    <3>4. Len(queue[r]) \in Nat
      BY <2>1
    <3>5. ASSUME NEW i \in 1..Len(queue'[r]) PROVE MsgOK(queue'[r][i])
      <4>1. CASE i <= Len(queue[r])
        BY <3>1, <3>3, <3>4, <4>1
      <4>2. CASE ~(i <= Len(queue[r]))
        BY <3>1, <4>2
      <4> QED BY <4>1, <4>2
    <3> QED BY <2>1, <2>4, <3>2, <3>4, <3>5
  <2> QED BY <2>2, <2>3, <2>4
<1>2. queue' = [r \in Receivers |-> queue'[r]]
  BY DEF Send
<1>3. queue' \in [Receivers -> Seq(Msg)] /\ \A r \in Receivers : Len(queue'[r]) <= QueueCap
  BY <1>1, <1>2
<1>4. dropped' \in [Receivers -> BOOLEAN]
  BY DEF Send, TypeOK
<1>5. lostKeys' \in [Receivers -> Nat]
  BY DEF Send, TypeOK
<1>6. QueuedOK'
  BY <1>1 DEF QueuedOK, MsgOK
<1> QED BY <1>3, <1>4, <1>5, <1>6

\* A client that applies a true message shows a board of the tick it is of,
\* unless it had missed the tick before.
LEMMA ApplyOK ==
  ASSUME StreamInv, UNCHANGED <<tick, boards>>,
         NEW r \in Receivers, NEW m \in Msg, MsgOK(m), Apply(r, m)
  PROVE  /\ shown' \in [Receivers -> Grids \cup {NoGrid}]
         /\ desync' \in [Receivers -> Nat]
         /\ at' \in [Receivers -> 0..MaxTick]
         /\ gap' \in [Receivers -> BOOLEAN]
         /\ AtPast' /\ InStepShows'
<1>1. /\ shown \in [Receivers -> Grids \cup {NoGrid}] /\ at \in [Receivers -> 0..MaxTick]
      /\ desync \in [Receivers -> Nat] /\ gap \in [Receivers -> BOOLEAN]
      /\ boards \in [0..MaxTick -> Grids] /\ tick \in 0..MaxTick
      /\ m.tick \in 0..MaxTick /\ m.cells \in Patches
      /\ MaxTick \in Nat /\ NoGrid \notin Grids
  BY TickStreamAssumption DEF StreamInv, TypeOK, Msg
<1>2. \A q \in Receivers \ {r} : /\ shown'[q] = shown[q] /\ at'[q] = at[q]
                                 /\ gap'[q] = gap[q]
  BY <1>1 DEF Apply
<1>3. /\ at'[r] = m.tick
      /\ m.kind # "delta" => shown'[r] = boards[m.tick]
      /\ m.kind = "delta" /\ shown[r] = NoGrid => shown'[r] = NoGrid
      /\ m.kind = "delta" /\ shown[r] # NoGrid => shown'[r] = Patch(shown[r], m.cells)
      /\ m.kind = "delta" /\ shown[r] # NoGrid
           => (gap'[r] <=> gap[r] \/ m.tick \notin {at[r], at[r] + 1})
  BY <1>1 DEF Apply, MsgOK
<1>4. shown'[r] \in Grids \cup {NoGrid}
  <2>1. CASE m.kind # "delta"
    BY <1>1, <1>3, <2>1
  <2>2. CASE m.kind = "delta" /\ shown[r] = NoGrid
    BY <1>3, <2>2
  <2>3. CASE m.kind = "delta" /\ shown[r] # NoGrid
    <3>1. shown[r] \in Grids
      BY <1>1, <2>3
    <3>2. Patch(shown[r], m.cells) \in Grids
      BY <1>1, <3>1, PatchType
    <3> QED BY <1>3, <2>3, <3>2
  <2> QED BY <2>1, <2>2, <2>3
<1>5. shown' \in [Receivers -> Grids \cup {NoGrid}]
  BY <1>1, <1>4 DEF Apply
<1>6. desync' \in [Receivers -> Nat] /\ at' \in [Receivers -> 0..MaxTick]
  BY <1>1 DEF Apply
<1>7. gap' \in [Receivers -> BOOLEAN]
  BY <1>1 DEF Apply
<1>8. AtPast'
  BY <1>1, <1>2, <1>3 DEF AtPast, StreamInv, MsgOK
<1>9. ASSUME shown'[r] # NoGrid, ~gap'[r] PROVE shown'[r] = boards[at'[r]]
  <2>1. CASE m.kind # "delta"
    BY <1>3, <2>1
  <2>2. CASE m.kind = "delta"
    <3>1. shown[r] # NoGrid /\ ~gap[r] /\ m.tick \in {at[r], at[r] + 1}
      BY <1>3, <1>9, <2>2
    <3>2. shown[r] = boards[at[r]]
      BY <3>1 DEF StreamInv, InStepShows, InStep
    <3>3. CASE m.tick = at[r]
      BY <1>3, <2>2, <3>1, <3>2, <3>3 DEF MsgOK
    <3>4. CASE m.tick = at[r] + 1
      <4>1. m.tick - 1 = at[r]
        BY <1>1, <3>4
      <4> QED BY <1>3, <2>2, <3>1, <3>2, <4>1 DEF MsgOK
    <3> QED BY <3>1, <3>3, <3>4
  <2> QED BY <2>1, <2>2
<1>10. InStepShows'
  BY <1>2, <1>9 DEF InStepShows, InStep, StreamInv
<1> QED BY <1>5, <1>6, <1>7, <1>8, <1>10

\* Messages held and being sent are not disturbed by a step that leaves them,
\* the boards and the tick alone.
LEMMA Undisturbed ==
  ASSUME StreamInv, UNCHANGED <<tick, boards, msg, held, todo, prev>>
  PROVE  SendingOK' /\ HeldOK' /\ PrevLast'
BY DEF StreamInv, SendingOK, HeldOK, PrevLast, MsgOK

\* The loop broadcasts the truth.
LEMMA LoopOK ==
  ASSUME StreamInv, LoopStep
  PROVE  StreamInv'
<1>1. ASSUME NEW g \in Grids, Tick(g) PROVE StreamInv'
  <2>1. /\ tick \in 0..MaxTick /\ MaxTick \in Nat /\ tick < MaxTick /\ tick' = tick + 1
        /\ boards \in [0..MaxTick -> Grids] /\ boards' = [boards EXCEPT ![tick + 1] = g]
    BY <1>1, TickStreamAssumption DEF Tick, StreamInv, TypeOK
  <2>2. /\ boards' \in [0..MaxTick -> Grids] /\ tick' \in 0..MaxTick
        /\ boards'[tick + 1] = g /\ \A t \in 0..MaxTick : t <= tick => boards'[t] = boards[t]
    BY <2>1
  <2>3. \A m \in Msg : MsgOK(m) => MsgOK(m)'
    BY <2>1, MsgStays DEF StreamInv
  <2>4. prev' = g
    BY <1>1 DEF Tick, UpdateState
  <2>5. /\ msg' \in Msg /\ msg'.tick = tick + 1
        /\ msg'.kind # "delta" => msg'.cells = g
        /\ msg'.kind = "delta" => /\ Patch(g, msg'.cells) = g
                                  /\ Patch(boards'[tick], msg'.cells) = g
    <3>1. CASE ShouldSendKeyframe(tick + 1)
      <4>1. msg' = [kind |-> "tick", tick |-> tick + 1, cells |-> g]
        BY <1>1, <3>1 DEF Tick
      <4> QED BY <2>1, <2>2, <4>1, PatchType DEF Msg
    <3>2. CASE ~ShouldSendKeyframe(tick + 1)
      <4>1. msg' = [kind |-> "delta", tick |-> tick + 1, cells |-> ComputeDelta(g)]
        BY <1>1, <3>2 DEF Tick
      <4>2. prev \in Grids /\ prev = boards[tick]
        BY <3>2 DEF ShouldSendKeyframe, StreamInv, TypeOK, PrevLast
      <4>3. /\ ComputeDelta(g) \in Patches
            /\ Patch(boards'[tick], ComputeDelta(g)) = g
            /\ Patch(g, ComputeDelta(g)) = g
        BY <2>1, <2>2, <4>2, DeltaLeads
      <4>4. tick + 1 \in 0..MaxTick
        BY <2>1, <2>2
      <4>5. msg' \in Msg
        BY <4>1, <4>3, <4>4 DEF Msg
      <4> QED BY <4>1, <4>3, <4>5
    <3> QED BY <3>1, <3>2
  <2>6. TypeOK'
    BY <1>1, <2>2, <2>4, <2>5
    DEF Tick, StreamInv, TypeOK, handlerVars, sendVars, clientVars
  <2>7. QueuedOK'
    <3>1. queue' = queue
      BY <1>1 DEF Tick, sendVars
    <3>2. ASSUME NEW r \in Receivers, NEW i \in 1..Len(queue[r]) PROVE MsgOK(queue[r][i])'
      <4>1. queue[r][i] \in Msg /\ MsgOK(queue[r][i])
        BY DEF StreamInv, TypeOK, QueuedOK
      <4>2. PICK m \in Msg : m = queue[r][i] /\ MsgOK(m)
        BY <4>1
      <4>3. MsgOK(m)'
        BY <2>3, <4>2
      <4> QED BY <3>1, <4>2, <4>3 DEF MsgOK
    <3> QED BY <3>1, <3>2 DEF QueuedOK, MsgOK
  <2>8. HeldOK'
    BY <1>1, <2>3 DEF Tick, handlerVars, StreamInv, TypeOK, HeldOK
  <2>9. AtPast' /\ InStepShows'
    <3>1. at' = at /\ shown' = shown /\ gap' = gap
      BY <1>1 DEF Tick, clientVars
    <3>2. \A r \in Receivers : at[r] \in 0..MaxTick /\ at[r] <= tick
      BY DEF StreamInv, TypeOK, AtPast
    <3>3. AtPast'
      BY <2>1, <3>1, <3>2 DEF AtPast
    <3>4. \A r \in Receivers : boards'[at[r]] = boards[at[r]]
      BY <2>2, <3>2
    <3>5. \A r \in Receivers : shown[r] # NoGrid /\ ~gap[r] => shown[r] = boards[at[r]]
      BY DEF StreamInv, InStepShows, InStep
    <3>6. InStepShows'
      BY <3>1, <3>4, <3>5 DEF InStepShows, InStep
    <3> QED BY <3>3, <3>6
  <2>10. SendingOK' /\ PrevLast'
    <3>1. boards'[tick'] = g /\ tick' - 1 = tick /\ tick' # 0 /\ tick' \in Nat
      BY <2>1, <2>2
    <3>2. SendingOK'
      BY <2>1, <2>5, <3>1 DEF SendingOK, MsgOK
    <3> QED BY <2>4, <3>1, <3>2 DEF PrevLast
  <2> QED BY <2>6, <2>7, <2>8, <2>9, <2>10 DEF StreamInv
<1>2. CASE Broadcast
  <2>1. msg \in Msg /\ MsgOK(msg)
    BY <1>2 DEF Broadcast, StreamInv, TypeOK, SendingOK
  <2>2. /\ queue' \in [Receivers -> Seq(Msg)]
        /\ \A r \in Receivers : Len(queue'[r]) <= QueueCap
        /\ dropped' \in [Receivers -> BOOLEAN] /\ lostKeys' \in [Receivers -> Nat]
        /\ QueuedOK'
    BY <1>2, <2>1, SendOK DEF Broadcast, StreamInv
  <2>3. TypeOK'
    BY <1>2, <2>2 DEF Broadcast, StreamInv, TypeOK, handlerVars, clientVars
  <2>4. SendingOK' /\ HeldOK' /\ PrevLast' /\ AtPast' /\ InStepShows'
    BY <1>2 DEF Broadcast, handlerVars, clientVars, StreamInv, SendingOK, HeldOK, PrevLast,
                AtPast, InStepShows, InStep, MsgOK
  <2> QED BY <2>2, <2>3, <2>4 DEF StreamInv
<1> QED BY <1>1, <1>2 DEF LoopStep

\* A snapshot is true when it is taken, and still true when it is sent.
LEMMA HandlerOK ==
  ASSUME StreamInv, HandlerStep
  PROVE  StreamInv'
<1>1. ASSUME NEW s \in Spectators, Spectate(s) PROVE StreamInv'
  <2>1. <<s>> \in Seq(Receivers) /\ <<s>> # <<>> /\ s \in Handlers
    BY DEF Receivers, Handlers
  <2>2. todo' \in [Handlers -> Seq(Receivers)] /\ subscribed' \in SUBSET Spectators
    BY <1>1, <2>1 DEF Spectate, StreamInv, TypeOK
  <2>3. TypeOK'
    BY <1>1, <2>2 DEF Spectate, StreamInv, TypeOK, loopVars, sendVars, clientVars
  <2>4. HeldOK'
    BY <1>1, <2>1 DEF Spectate, loopVars, StreamInv, TypeOK, HeldOK, MsgOK
  <2> QED
    BY <1>1, <2>3, <2>4
    DEF Spectate, loopVars, sendVars, clientVars, StreamInv, QueuedOK, SendingOK, PrevLast,
        AtPast, InStepShows, InStep, MsgOK
<1>2. ASSUME NEW h \in Handlers, GameStartState(h) PROVE StreamInv'
  <2> DEFINE m == [kind |-> "start", tick |-> tick, cells |-> boards[tick]]
  <2>1. held' = [held EXCEPT ![h] = m]
    BY <1>2 DEF GameStartState
  <2>2. m \in Msg /\ MsgOK(m)
    BY PatchType, TickStreamAssumption DEF StreamInv, TypeOK, Msg, MsgOK
  <2>3. TypeOK'
    BY <1>2, <2>1, <2>2 DEF GameStartState, StreamInv, TypeOK, loopVars, sendVars, clientVars
  <2>4. HeldOK'
    BY <1>2, <2>1, <2>2 DEF GameStartState, loopVars, StreamInv, TypeOK, HeldOK, MsgOK
  <2> QED
    BY <1>2, <2>3, <2>4
    DEF GameStartState, loopVars, sendVars, clientVars, StreamInv, QueuedOK, SendingOK,
        PrevLast, AtPast, InStepShows, InStep, MsgOK
<1>3. ASSUME NEW h \in Handlers, SendGameStart(h) PROVE StreamInv'
  <2>1. held[h] \in Msg /\ MsgOK(held[h]) /\ todo[h] # <<>>
    BY <1>3 DEF SendGameStart, StreamInv, TypeOK, HeldOK
  <2>2. /\ queue' \in [Receivers -> Seq(Msg)]
        /\ \A r \in Receivers : Len(queue'[r]) <= QueueCap
        /\ dropped' \in [Receivers -> BOOLEAN] /\ lostKeys' \in [Receivers -> Nat]
        /\ QueuedOK'
    BY <1>3, <2>1, SendOK DEF SendGameStart, loopVars, StreamInv
  <2>3. /\ todo' \in [Handlers -> Seq(Receivers)]
        /\ held' \in [Handlers -> Msg \cup {NoMsg}]
    <3>1. Tail(todo[h]) \in Seq(Receivers)
      BY <2>1 DEF StreamInv, TypeOK
    <3> QED BY <1>3, <3>1 DEF SendGameStart, StreamInv, TypeOK
  <2>4. TypeOK'
    BY <1>3, <2>2, <2>3 DEF SendGameStart, StreamInv, TypeOK, loopVars, clientVars
  <2>5. HeldOK'
    BY <1>3 DEF SendGameStart, loopVars, StreamInv, TypeOK, HeldOK, MsgOK
  <2> QED
    BY <1>3, <2>2, <2>4, <2>5
    DEF SendGameStart, loopVars, clientVars, StreamInv, SendingOK, PrevLast, AtPast,
        InStepShows, InStep, MsgOK
<1>4. ASSUME NEW h \in Starters, Start(h) PROVE StreamInv'
  BY <1>4 DEF Start, handlerVars, sendVars, clientVars, StreamInv, TypeOK, QueuedOK, SendingOK,
              HeldOK, PrevLast, AtPast, InStepShows, InStep, MsgOK
<1> QED BY <1>1, <1>2, <1>3, <1>4 DEF HandlerStep

\* A delivery applies one true message and leaves the others.
LEMMA DeliverOK ==
  ASSUME StreamInv, NEW r \in Receivers, Deliver(r)
  PROVE  /\ StreamInv'
         /\ Head(queue[r]) \in Msg /\ MsgOK(Head(queue[r]))
<1>1. queue[r] \in Seq(Msg) /\ queue[r] # <<>> /\ Len(queue[r]) <= QueueCap /\ QueueCap \in Nat
  BY TickStreamAssumption DEF Deliver, StreamInv, TypeOK
<1>2. Head(queue[r]) \in Msg /\ MsgOK(Head(queue[r]))
  <2>1. Head(queue[r]) = queue[r][1] /\ 1 \in 1..Len(queue[r])
    BY <1>1
  <2> QED BY <1>1, <2>1 DEF StreamInv, QueuedOK
<1>3. /\ shown' \in [Receivers -> Grids \cup {NoGrid}] /\ desync' \in [Receivers -> Nat]
      /\ at' \in [Receivers -> 0..MaxTick] /\ gap' \in [Receivers -> BOOLEAN]
      /\ AtPast' /\ InStepShows'
  BY <1>2, ApplyOK DEF Deliver, loopVars
<1>4. /\ Tail(queue[r]) \in Seq(Msg) /\ Len(Tail(queue[r])) <= QueueCap
      /\ \A i \in 1..Len(Tail(queue[r])) :
           Tail(queue[r])[i] = queue[r][i + 1] /\ i + 1 \in 1..Len(queue[r])
  BY <1>1
<1>5. /\ queue' \in [Receivers -> Seq(Msg)]
      /\ \A q \in Receivers : Len(queue'[q]) <= QueueCap
  BY <1>4 DEF Deliver, StreamInv, TypeOK
<1>6. QueuedOK'
  <2>1. \A q \in Receivers : queue'[q] = IF q = r THEN Tail(queue[r]) ELSE queue[q]
    BY DEF Deliver, StreamInv, TypeOK
  <2>2. ASSUME NEW q \in Receivers, NEW i \in 1..Len(queue'[q]) PROVE MsgOK(queue'[q][i])
    BY <1>4, <2>1, <2>2 DEF StreamInv, QueuedOK
  <2>3. UNCHANGED <<tick, boards>>
    BY DEF Deliver, loopVars
  <2> QED BY <2>2, <2>3 DEF QueuedOK, MsgOK
<1>7. TypeOK'
  BY <1>3, <1>5 DEF Deliver, StreamInv, TypeOK, loopVars, handlerVars
<1>8. SendingOK' /\ HeldOK' /\ PrevLast'
  BY Undisturbed DEF Deliver, loopVars, handlerVars
<1> QED BY <1>2, <1>3, <1>6, <1>7, <1>8 DEF StreamInv

\* Every step keeps the invariant.
LEMMA NextOK ==
  ASSUME StreamInv, [Next]_vars
  PROVE  StreamInv'
<1>1. CASE UNCHANGED vars
  BY <1>1 DEF vars, loopVars, handlerVars, sendVars, clientVars, StreamInv, TypeOK, QueuedOK,
              SendingOK, HeldOK, PrevLast, AtPast, InStepShows, InStep, MsgOK
<1> QED BY <1>1, LoopOK, HandlerOK, DeliverOK DEF Next

\* The invariant holds in every reachable state.
LEMMA StreamInvHolds == Spec => []StreamInv
<1>1. StreamInv /\ [Next]_vars => StreamInv'
  BY NextOK
<1> QED BY InitStream, <1>1, PTL DEF Spec

\* Every variable of the stream keeps its type; no send queue outgrows its
\* capacity.
THEOREM StreamTyped == Spec => []TypeOK
<1>1. StreamInv => TypeOK
  BY DEF StreamInv
<1> QED BY StreamInvHolds, <1>1, PTL

\* A client that has missed no tick since it last got a full board, a keyframe or
\* a game_start however late, shows the board the server had at that tick.
THEOREM InStepClientShows == Spec => []InStepShows
<1>1. StreamInv => InStepShows
  BY DEF StreamInv
<1> QED BY StreamInvHolds, <1>1, PTL

\* The stream starts as Mirror does.
LEMMA InitMirror == Init => M!Init
BY DEF Init, M!Init, InStep

\* A delivery is a step of Mirror: a full board is a jump, the next delta of a
\* client in step follows, any other is a miss or changes nothing.
LEMMA DeliverMirror ==
  ASSUME StreamInv, NEW r \in Receivers, Deliver(r)
  PROVE  [M!Next]_M!vars
<1> DEFINE m == Head(queue[r])
<1>1. /\ m \in Msg /\ MsgOK(m) /\ Apply(r, m) /\ UNCHANGED <<tick, boards>>
  BY DeliverOK DEF Deliver, loopVars
<1>2. /\ shown \in [Receivers -> Grids \cup {NoGrid}] /\ at \in [Receivers -> 0..MaxTick]
      /\ gap \in [Receivers -> BOOLEAN] /\ boards \in [0..MaxTick -> Grids]
      /\ tick \in 0..MaxTick /\ m.tick \in 0..tick /\ MaxTick \in Nat
      /\ m.cells \in Patches /\ NoGrid \notin Grids
  BY <1>1, TickStreamAssumption DEF StreamInv, TypeOK, Msg, MsgOK
<1>3. at' = [at EXCEPT ![r] = m.tick]
  BY <1>1 DEF Apply
<1>4. \A q \in Receivers \ {r} : InStep'[q] = InStep[q]
  BY <1>1, <1>2 DEF Apply, InStep
<1>5. InStep' = [InStep EXCEPT ![r] = InStep'[r]]
  BY <1>4 DEF InStep
<1>6. CASE m.kind # "delta"
  <2>1. shown' = [shown EXCEPT ![r] = boards[m.tick]]
    BY <1>1, <1>6 DEF Apply, MsgOK
  <2>2. InStep'[r] = TRUE
    <3>1. shown'[r] # NoGrid
      BY <1>2, <2>1
    <3>2. gap'[r] = FALSE
      BY <1>1, <1>2, <1>6 DEF Apply
    <3> QED BY <3>1, <3>2 DEF InStep
  <2>3. M!Jump(r)
    BY <1>1, <1>2, <1>3, <1>5, <2>1, <2>2 DEF M!Jump
  <2> QED BY <2>3 DEF M!Next
<1>7. CASE m.kind = "delta" /\ InStep'[r]
  <2>1. shown[r] # NoGrid /\ ~gap[r] /\ m.tick \in {at[r], at[r] + 1}
    BY <1>1, <1>2, <1>7 DEF Apply, InStep
  <2>2. InStep[r] /\ InStep' = InStep
    BY <1>2, <1>4, <1>7, <2>1 DEF InStep
  <2>3. shown[r] = boards[at[r]]
    BY <2>2 DEF StreamInv, InStepShows
  <2>4. shown' = [shown EXCEPT ![r] = Patch(shown[r], m.cells)]
    BY <1>1, <1>7, <2>1 DEF Apply
  <2>5. CASE m.tick = at[r]
    <3>1. shown' = shown /\ at' = at
      BY <1>1, <1>2, <1>3, <1>7, <2>3, <2>4, <2>5 DEF MsgOK
    <3> QED BY <1>1, <2>2, <3>1 DEF M!vars
  <2>6. CASE m.tick = at[r] + 1
    <3>1. m.tick - 1 = at[r] /\ at[r] < tick
      <4> HIDE DEF m
      <4>1. at[r] \in Nat /\ m.tick \in Nat /\ tick \in Nat /\ m.tick <= tick
        BY <1>2
      <4> QED BY <2>6, <4>1
    <3>2. shown' = [shown EXCEPT ![r] = boards[at[r] + 1]]
      BY <1>1, <1>7, <2>3, <2>4, <2>6, <3>1 DEF MsgOK
    <3>3. M!Follow(r)
      BY <1>1, <1>3, <2>2, <2>6, <3>1, <3>2 DEF M!Follow
    <3> QED BY <3>3 DEF M!Next
  <2> QED BY <2>1, <2>5, <2>6
<1>8. CASE m.kind = "delta" /\ ~InStep'[r]
  <2>1. \E g \in Grids \cup {NoGrid} : shown' = [shown EXCEPT ![r] = g]
    BY <1>1, <1>2, <1>8, PatchType DEF Apply
  <2>2. InStep'[r] = FALSE
    BY <1>8 DEF InStep
  <2>3. M!Miss(r)
    BY <1>1, <1>2, <1>3, <1>5, <2>1, <2>2 DEF M!Miss
  <2> QED BY <2>3 DEF M!Next
<1> QED BY <1>6, <1>7, <1>8

\* Every step of the stream is a step of Mirror, or changes nothing there.
LEMMA NextMirror ==
  ASSUME StreamInv, [Next]_vars
  PROVE  [M!Next]_M!vars
<1>1. ASSUME NEW g \in Grids, Tick(g) PROVE M!Advance
  BY <1>1 DEF Tick, clientVars, M!Advance, InStep
<1>2. Broadcast \/ HandlerStep \/ UNCHANGED vars => UNCHANGED M!vars
  BY DEF Broadcast, HandlerStep, Spectate, GameStartState, SendGameStart, Start, vars, loopVars,
         clientVars, M!vars, InStep
<1> QED BY <1>1, <1>2, DeliverMirror DEF Next, LoopStep, M!Next

\* The stream implements Mirror: whatever is dropped, delayed or overtaken, what a
\* client shows changes only as Mirror allows.
THEOREM StreamImplementsMirror == Spec => MirrorSpec
<1>1. StreamInv /\ [Next]_vars => [M!Next]_M!vars
  BY NextMirror
<1> QED BY StreamInvHolds, InitMirror, <1>1, PTL DEF Spec, MirrorSpec, M!Spec
-----------------------------------------------------------------------------
(* No player gets a tick before it has a board.  A starter that is done has *)
(* told every player (StarterTells), and whatever waits for a player begins *)
(* with a game_start as long as it has no board (StartAhead).               *)

Told(p) == shown[p] # NoGrid \/ (queue[p] # <<>> /\ Head(queue[p]).kind = "start")

StartAhead == \A p \in Seated : queue[p] # <<>> => Told(p)
StarterTells == \A p \in Seated : \A h \in Starters :
                  Told(p) \/ \E i \in 1..Len(todo[h]) : todo[h][i] = p
HeldStart == \A h \in Handlers : held[h] # NoMsg => held[h].kind = "start"
Idle == ~running => msg = NoMsg

ToldInv == StartAhead /\ StarterTells /\ HeldStart /\ Idle /\ BoardFirst

\* Before the match nobody has been told, and both starters are to tell everybody.
LEMMA InitTold == Init => ToldInv
<1> SUFFICES ASSUME Init PROVE ToldInv
  OBVIOUS
<1>1. \A p \in Seated : \E i \in 1..Len(Players) : Players[i] = p
  BY DEF Seated
<1>2. \A h \in Starters : todo[h] = Players
  BY DEF Init, Handlers
<1>3. StarterTells
  BY <1>1, <1>2 DEF StarterTells
<1>4. StartAhead /\ HeldStart /\ Idle /\ BoardFirst
  BY DEF Init, StartAhead, HeldStart, Idle, BoardFirst, Receivers
<1> QED BY <1>3, <1>4 DEF ToldInv

\* A message that is sent does not push in before what waits, and a game_start
\* that is sent, dropped or not, leaves the player told.
LEMMA SendTold ==
  ASSUME TypeOK, StartAhead, NEW R, NEW m \in Msg, Send(R, m), UNCHANGED shown,
         NEW p \in Seated
  PROVE  /\ Told(p) => Told(p)'
         /\ p \in R /\ m.kind = "start" => Told(p)'
         /\ p \notin R => queue'[p] = queue[p]
         /\ queue[p] # <<>> => queue'[p] # <<>>
<1>1. p \in Receivers /\ queue[p] \in Seq(Msg) /\ QueueCap \in Nat \ {0}
  BY TickStreamAssumption DEF TypeOK, Receivers
<1>2. \/ queue'[p] = queue[p] /\ (p \in R => Len(queue[p]) >= QueueCap)
      \/ queue'[p] = Append(queue[p], m) /\ p \in R
  BY <1>1 DEF Send, TypeOK
<1>3. CASE queue'[p] = queue[p] /\ (p \in R => Len(queue[p]) >= QueueCap)
  <2>1. p \in R => queue[p] # <<>>
    BY <1>1, <1>3
  <2> QED BY <1>3, <2>1 DEF Told, StartAhead
<1>4. CASE queue'[p] = Append(queue[p], m) /\ p \in R
  <2>1. queue'[p] # <<>>
    BY <1>1, <1>4
  <2>2. queue[p] = <<>> => Head(queue'[p]) = m
    BY <1>1, <1>4
  <2>3. queue[p] # <<>> => Head(queue'[p]) = Head(queue[p])
    BY <1>1, <1>4
  <2> QED BY <1>4, <2>1, <2>2, <2>3 DEF Told, StartAhead
<1> QED BY <1>2, <1>3, <1>4

\* Every step keeps players told.
LEMMA NextTold ==
  ASSUME StreamInv, ToldInv, [Next]_vars
  PROVE  ToldInv'
<1>1. ASSUME UNCHANGED <<queue, shown, todo, held, running>>, Idle' PROVE ToldInv'
  BY <1>1 DEF ToldInv, StartAhead, StarterTells, HeldStart, BoardFirst, Told
<1>2. CASE UNCHANGED vars
  BY <1>1, <1>2 DEF vars, loopVars, handlerVars, sendVars, clientVars, ToldInv, Idle
<1>3. ASSUME NEW g \in Grids, Tick(g) PROVE ToldInv'
  BY <1>1, <1>3 DEF Tick, handlerVars, sendVars, clientVars, ToldInv, Idle
<1>4. CASE Broadcast
  <2>1. running /\ msg \in Msg /\ UNCHANGED <<shown, running, held>>
    BY <1>4 DEF Broadcast, handlerVars, clientVars, ToldInv, Idle, StreamInv, TypeOK
  <2>2. \A p \in Seated : Told(p)
    BY <2>1 DEF ToldInv, BoardFirst, Told
  <2>3. \A p \in Seated : Told(p)'
    BY <1>4, <2>1, <2>2, SendTold DEF Broadcast, ToldInv, StreamInv
  <2> QED
    BY <1>4, <2>1, <2>3
    DEF Broadcast, ToldInv, StartAhead, StarterTells, HeldStart, Idle, BoardFirst, Told
<1>5. ASSUME NEW s \in Spectators, Spectate(s) PROVE ToldInv'
  <2>1. \A h \in Starters : todo'[h] = todo[h]
    BY <1>5, HandlersAssumption DEF Spectate, StreamInv, TypeOK, Handlers
  <2>2. UNCHANGED <<queue, shown, held, running, msg>>
    BY <1>5 DEF Spectate, loopVars, sendVars, clientVars
  <2> QED
    BY <2>1, <2>2 DEF ToldInv, StartAhead, StarterTells, HeldStart, Idle, BoardFirst, Told
<1>6. ASSUME NEW h \in Handlers, GameStartState(h) PROVE ToldInv'
  <2>1. HeldStart'
    BY <1>6 DEF GameStartState, ToldInv, HeldStart, StreamInv, TypeOK
  <2>2. UNCHANGED <<queue, shown, todo, running, msg>>
    BY <1>6 DEF GameStartState, loopVars, sendVars, clientVars
  <2> QED BY <2>1, <2>2 DEF ToldInv, StartAhead, StarterTells, Idle, BoardFirst, Told
<1>7. ASSUME NEW h \in Handlers, SendGameStart(h) PROVE ToldInv'
  <2>1. held[h] \in Msg /\ held[h].kind = "start" /\ todo[h] # <<>> /\ todo[h] \in Seq(Receivers)
    BY <1>7 DEF SendGameStart, ToldInv, HeldStart, StreamInv, HeldOK, TypeOK
  <2>2. UNCHANGED <<shown, running, msg>>
    BY <1>7 DEF SendGameStart, loopVars, clientVars
  <2>3. ASSUME NEW p \in Seated
        PROVE  /\ Told(p) => Told(p)'
               /\ p = Head(todo[h]) => Told(p)'
               /\ queue'[p] # <<>> => Told(p)'
    <3>1. /\ Told(p) => Told(p)'
          /\ p \in {Head(todo[h])} => Told(p)'
          /\ p \notin {Head(todo[h])} => queue'[p] = queue[p]
      BY <1>7, <2>1, <2>2, SendTold DEF SendGameStart, ToldInv, StreamInv
    <3> QED BY <3>1 DEF ToldInv, StartAhead
  <2>4. StartAhead'
    BY <2>3 DEF StartAhead, Told
  <2>5. \A p \in Seated, k \in Starters :
          Told(p)' \/ \E i \in 1..Len(todo'[k]) : todo'[k][i] = p
    <3> SUFFICES ASSUME NEW p \in Seated, NEW k \in Starters, ~Told(p)'
                 PROVE  \E i \in 1..Len(todo'[k]) : todo'[k][i] = p
      OBVIOUS
    <3>1. PICK i \in 1..Len(todo[k]) : todo[k][i] = p
      BY <2>3 DEF ToldInv, StarterTells
    <3>2. CASE k # h
      BY <1>7, <3>1, <3>2 DEF SendGameStart, StreamInv, TypeOK, Handlers
    <3>3. CASE k = h
      <4>1. todo'[h] = Tail(todo[h])
        BY <1>7 DEF SendGameStart, StreamInv, TypeOK
      <4>2. i # 1
        BY <2>1, <2>3, <3>1, <3>3
      <4>3. i - 1 \in 1..Len(Tail(todo[h])) /\ Tail(todo[h])[i - 1] = todo[h][i]
        BY <2>1, <3>1, <3>3, <4>2
      <4> QED BY <3>1, <3>3, <4>1, <4>3
    <3> QED BY <3>2, <3>3
  <2>6. StarterTells'
    BY <2>5 DEF StarterTells, Told
  <2>7. HeldStart'
    BY <1>7 DEF SendGameStart, ToldInv, HeldStart, StreamInv, TypeOK
  <2>8. Idle' /\ BoardFirst'
    BY <2>2, <2>3 DEF ToldInv, Idle, BoardFirst, Told
  <2> QED BY <2>4, <2>6, <2>7, <2>8 DEF ToldInv
<1>8. ASSUME NEW h \in Starters, Start(h) PROVE ToldInv'
  <2>1. \A p \in Seated : Told(p)
    BY <1>8 DEF Start, ToldInv, StarterTells
  <2> QED
    BY <1>8, <2>1
    DEF Start, handlerVars, sendVars, clientVars, ToldInv, StartAhead, StarterTells, HeldStart,
        Idle, BoardFirst, Told
<1>9. ASSUME NEW r \in Receivers, Deliver(r) PROVE ToldInv'
  <2>1. UNCHANGED <<todo, held, running, msg>> /\ \A q \in Receivers \ {r} :
          queue'[q] = queue[q] /\ shown'[q] = shown[q]
    BY <1>9 DEF Deliver, Apply, loopVars, handlerVars, StreamInv, TypeOK
  <2>2. r \in Seated => shown'[r] # NoGrid
    <3> SUFFICES ASSUME r \in Seated PROVE shown'[r] # NoGrid
      OBVIOUS
    <3> DEFINE m == Head(queue[r])
    <3>1. m \in Msg /\ MsgOK(m) /\ Apply(r, m)
      BY <1>9, DeliverOK DEF Deliver
    <3>2. shown[r] # NoGrid \/ m.kind = "start"
      BY <1>9 DEF Deliver, ToldInv, StartAhead, Told
    <3>3. /\ shown \in [Receivers -> Grids \cup {NoGrid}] /\ boards \in [0..MaxTick -> Grids]
          /\ m.tick \in 0..MaxTick /\ m.cells \in Patches /\ NoGrid \notin Grids
      BY <3>1, TickStreamAssumption DEF StreamInv, TypeOK, Msg
    <3>4. CASE m.kind # "delta"
      BY <3>1, <3>3, <3>4 DEF Apply, MsgOK
    <3>5. CASE m.kind = "delta"
      <4>1. shown[r] # NoGrid
        BY <3>2, <3>5
      <4>2. shown'[r] = Patch(shown[r], m.cells)
        BY <3>1, <3>3, <3>5, <4>1 DEF Apply
      <4>3. shown[r] \in Grids
        BY <3>3, <4>1
      <4>4. Patch(shown[r], m.cells) \in Grids
        BY <3>3, <4>3, PatchType
      <4> QED BY <3>3, <4>2, <4>4
    <3> QED BY <3>4, <3>5
  <2>3. \A p \in Seated : /\ Told(p) => Told(p)'
                          /\ queue'[p] # <<>> => Told(p)'
    BY <2>1, <2>2 DEF Receivers, ToldInv, StartAhead, Told
  <2> QED
    BY <2>1, <2>3 DEF ToldInv, StartAhead, StarterTells, HeldStart, Idle, BoardFirst, Told
<1> QED
  BY <1>2, <1>3, <1>4, <1>5, <1>6, <1>7, <1>8, <1>9 DEF Next, LoopStep, HandlerStep

\* A player has a board, or gets a game_start next, whenever the match runs,
\* although two handlers may be telling the players and starting the match.
THEOREM PlayersToldFirst == Spec => []BoardFirst
<1>1. StreamInv /\ StreamInv' /\ ToldInv /\ [Next]_vars => ToldInv'
  BY NextTold
<1>2. ToldInv => BoardFirst
  BY DEF ToldInv
<1> QED BY StreamInvHolds, InitTold, <1>1, <1>2, PTL DEF Spec
-----------------------------------------------------------------------------
(* The client's count of deltas.  It is bounded because what is queued for  *)
(* the client is: Counted says what the count will be after each message    *)
(* queued, c[i] after the i-th, and that the last of these is no more than  *)
(* the ticks since the last keyframe that was sent, plus an interval for    *)
(* each keyframe that was dropped.                                          *)

\* The last tick that was broadcast.
Sent == IF msg = NoMsg THEN tick ELSE tick - 1

Counts(r, c, s) ==
  /\ c \in [0..Len(queue[r]) -> Nat]
  /\ c[0] = desync[r]
  /\ \A i \in 1..Len(queue[r]) :
       c[i] = IF queue[r][i].kind = "delta" THEN c[i - 1] + 1 ELSE 0
  /\ \A i \in 0..Len(queue[r]) : c[i] < KeyframeInterval * (1 + lostKeys[r])
  /\ c[Len(queue[r])] <= (s % KeyframeInterval) + KeyframeInterval * lostKeys[r]

\* No delta is on the way to a spectator that is not subscribed yet.
Quiet(r) ==
  /\ desync[r] = 0
  /\ \A i \in 1..Len(queue[r]) : queue[r][i].kind # "delta"

Counted == \A r \in Receivers : \E c : Counts(r, c, Sent)
UnsubscribedQuiet == \A r \in Receivers \ (Seated \cup subscribed) : Quiet(r)

\* What is being sent is a tick, and a keyframe at least every interval.
LoopSends ==
  msg # NoMsg => /\ tick # 0
                 /\ msg.kind \in {"tick", "delta"}
                 /\ msg.kind = "delta" => tick % KeyframeInterval # 0

CountInv == Counted /\ UnsubscribedQuiet /\ LoopSends /\ HeldStart

\* Multiples of k are at least k apart.
LEMMA MultiplesApart ==
  ASSUME NEW k \in Nat \ {0}, NEW p \in Nat, NEW q \in Nat, p < q
  PROVE  k * p + k <= k * q
<1>1. PICK d \in Nat : q = p + 1 + d
  <2>1. q - p - 1 \in Nat /\ q = p + 1 + (q - p - 1)
    OBVIOUS
  <2> QED BY <2>1
<1>2. k * q = k * p + k + k * d
  BY <1>1
<1>3. k * d \in Nat /\ k * p \in Nat /\ k * q \in Nat
  BY <1>1
<1> QED BY <1>2, <1>3

\* Between multiples of k, the remainder grows by one with the number.
LEMMA RemainderNext ==
  ASSUME NEW k \in Nat \ {0}, NEW t \in Nat, (t + 1) % k # 0
  PROVE  (t + 1) % k = (t % k) + 1
<1> DEFINE q == t \div k
           r == t % k
           q1 == (t + 1) \div k
           r1 == (t + 1) % k
<1>1. /\ q \in Nat /\ q1 \in Nat /\ r \in 0..(k - 1) /\ r1 \in 0..(k - 1) /\ r1 # 0
      /\ t = k * q + r /\ t + 1 = k * q1 + r1
  OBVIOUS
<1> HIDE DEF q, r, q1, r1
<1>2. /\ q < q1 => k * q + k <= k * q1
      /\ q1 < q => k * q1 + k <= k * q
  BY <1>1, MultiplesApart
<1>3. k * q \in Nat /\ k * q1 \in Nat
  BY <1>1
<1>4. q = q1
  BY <1>1, <1>2, <1>3
<1>5. r1 = r + 1
  BY <1>1, <1>3, <1>4
<1> QED BY <1>5 DEF r, r1

\* Each dropped keyframe allows another interval of deltas.
LEMMA AnotherInterval ==
  ASSUME NEW n \in Nat
  PROVE  /\ KeyframeInterval * n \in Nat
         /\ KeyframeInterval * (n + 1) \in Nat
         /\ KeyframeInterval * (n + 1) = KeyframeInterval * n + KeyframeInterval
         /\ KeyframeInterval * (1 + n) = KeyframeInterval * (n + 1)
         /\ \A s \in Nat : s % KeyframeInterval \in 0..(KeyframeInterval - 1)
<1>1. KeyframeInterval \in Nat \ {0}
  BY TickStreamAssumption
<1> QED BY <1>1

\* A quiet receiver counts nothing, whichever tick was sent.
LEMMA QuietCounts ==
  TypeOK => \A r \in Receivers, k \in Nat : Quiet(r) => \E c : Counts(r, c, k)
<1> SUFFICES ASSUME TypeOK, NEW r \in Receivers, NEW s \in Nat, Quiet(r)
             PROVE  \E c : Counts(r, c, s)
  OBVIOUS
<1> DEFINE c == [i \in 0..Len(queue[r]) |-> 0]
<1>1. /\ Len(queue[r]) \in Nat /\ lostKeys[r] \in Nat /\ KeyframeInterval \in Nat \ {0}
  BY TickStreamAssumption DEF TypeOK
<1>2. /\ KeyframeInterval * lostKeys[r] \in Nat
      /\ KeyframeInterval * (1 + lostKeys[r]) = KeyframeInterval * lostKeys[r] + KeyframeInterval
      /\ s % KeyframeInterval \in 0..(KeyframeInterval - 1)
  BY <1>1, AnotherInterval
<1>3. 0 < KeyframeInterval * (1 + lostKeys[r])
  BY <1>1, <1>2
<1>4. 0 <= (s % KeyframeInterval) + KeyframeInterval * lostKeys[r]
  BY <1>1, <1>2
<1>5. Counts(r, c, s)
  BY <1>1, <1>3, <1>4 DEF Counts, Quiet
<1> QED BY <1>5

\* A message that is sent is counted after what is queued: a delta adds one, and
\* so does the tick it is of; a full board ends the count; a dropped keyframe
\* makes room for an interval more.
LEMMA SendCounts ==
  ASSUME TypeOK, NEW R, NEW m \in Msg, Send(R, m), desync' = desync,
         NEW r \in Receivers, NEW c, NEW s \in Nat, NEW t \in Nat, Counts(r, c, s),
         \/ m.kind = "start" /\ t = s
         \/ m.kind = "tick" /\ r \in R
         \/ m.kind = "delta" /\ (t % KeyframeInterval) = (s % KeyframeInterval) + 1
  PROVE  \E d : Counts(r, d, t)'
<1> DEFINE n == Len(queue[r])
           l == lostKeys[r]
           K == KeyframeInterval
           Times(j) == K * j
<1>1. /\ queue[r] \in Seq(Msg) /\ n \in Nat /\ l \in Nat /\ K \in Nat \ {0}
      /\ lostKeys \in [Receivers -> Nat]
  BY TickStreamAssumption DEF TypeOK
<1>2. /\ c \in [0..n -> Nat] /\ c[0] = desync[r]
      /\ \A i \in 1..n : c[i] = IF queue[r][i].kind = "delta" THEN c[i - 1] + 1 ELSE 0
      /\ \A i \in 0..n : c[i] < Times(1 + l)
      /\ c[n] <= (s % K) + Times(l)
  BY DEF Counts
<1>3. /\ Times(l) \in Nat /\ Times(l + 1) = Times(l) + K /\ Times(1 + l) = Times(l + 1)
      /\ s % K \in 0..(K - 1) /\ t % K \in 0..(K - 1)
      /\ Times(1 + (l + 1)) = Times(l + 1) + K
  <2>1. l \in Nat /\ l + 1 \in Nat
    BY <1>1
  <2>2. /\ Times(l) \in Nat /\ Times(l + 1) = Times(l) + K /\ Times(1 + l) = Times(l + 1)
        /\ s % K \in 0..(K - 1) /\ t % K \in 0..(K - 1)
    BY <2>1, AnotherInterval
  <2>3. Times(1 + (l + 1)) = Times(l + 1 + 1) /\ Times(l + 1 + 1) = Times(l + 1) + K
    BY <2>1, AnotherInterval
  <2> QED BY <2>2, <2>3
<1>4. \/ queue'[r] = Append(queue[r], m) /\ lostKeys'[r] = l
      \/ queue'[r] = queue[r] /\ lostKeys'[r] = l /\ ~(m.kind = "tick" /\ r \in R)
      \/ queue'[r] = queue[r] /\ lostKeys'[r] = l + 1
  BY <1>1 DEF Send
<1>5. \/ m.kind = "start" /\ t = s
      \/ m.kind = "tick" /\ r \in R
      \/ m.kind = "delta" /\ t % K = (s % K) + 1
  OBVIOUS
<1> HIDE DEF n, l, K, Times
<1>6. CASE queue'[r] = Append(queue[r], m) /\ lostKeys'[r] = l
  <2> DEFINE x == IF m.kind = "delta" THEN c[n] + 1 ELSE 0
             d == [i \in 0..(n + 1) |-> IF i <= n THEN c[i] ELSE x]
  <2>1. c[n] \in Nat
    BY <1>1, <1>2
  <2>2. x \in Nat /\ x <= (t % K) + Times(l)
    <3>1. CASE m.kind = "delta"
      <4>1. t % K = (s % K) + 1 /\ x = c[n] + 1
        BY <1>5, <3>1
      <4>2. s % K \in Nat
        BY <1>1, <1>3
      <4> HIDE DEF x
      <4> QED BY <1>2, <1>3, <2>1, <4>1, <4>2
    <3>2. CASE m.kind # "delta"
      <4>1. x = 0 /\ t % K \in Nat /\ Times(l) \in Nat
        BY <1>1, <1>3, <3>2
      <4> QED BY <4>1
    <3> QED BY <3>1, <3>2
  <2>3. x < Times(1 + l)
    BY <1>1, <1>3, <2>2
  <2>4. /\ Len(queue'[r]) = n + 1
        /\ \A i \in 1..n : queue'[r][i] = queue[r][i]
        /\ queue'[r][n + 1] = m
    <3>1. /\ Len(queue'[r]) = Len(queue[r]) + 1
          /\ \A i \in 1..(Len(queue[r]) + 1) :
               queue'[r][i] = IF i <= Len(queue[r]) THEN queue[r][i] ELSE m
      BY <1>1, <1>6
    <3>2. n = Len(queue[r]) /\ n \in Nat
      BY <1>1 DEF n
    <3>3. \A i \in 1..n : i \in 1..(n + 1) /\ i <= n
      BY <3>2
    <3>4. n + 1 \in 1..(n + 1) /\ ~(n + 1 <= n)
      BY <3>2
    <3> HIDE DEF x, d
    <3> QED BY <3>1, <3>2, <3>3, <3>4
  <2> HIDE DEF x
  <2>5. /\ d \in [0..(n + 1) -> Nat] /\ d[0] = desync[r] /\ d[n + 1] = x /\ d[n] = c[n]
        /\ \A i \in 1..n : d[i] = c[i] /\ d[i - 1] = c[i - 1]
        /\ \A i \in 0..(n + 1) : \/ i \in 0..n /\ d[i] = c[i]
                                 \/ i = n + 1 /\ d[i] = x
    <3>1. /\ 0 \in 0..(n + 1) /\ n \in 0..(n + 1) /\ n + 1 \in 0..(n + 1) /\ ~(n + 1 <= n)
          /\ \A i \in 1..n : /\ i \in 0..(n + 1) /\ i - 1 \in 0..(n + 1)
                             /\ i <= n /\ i - 1 <= n
          /\ \A i \in 0..(n + 1) : (i <= n /\ i \in 0..n) \/ i = n + 1
      BY <1>1
    <3>2. \A i \in 0..(n + 1) : d[i] = IF i <= n THEN c[i] ELSE x
      OBVIOUS
    <3>3. d \in [0..(n + 1) -> Nat]
      <4>1. \A i \in 0..(n + 1) : (IF i <= n THEN c[i] ELSE x) \in Nat
        BY <1>2, <2>2, <3>1
      <4> QED BY <4>1
    <3> HIDE DEF d
    <3>4. d[0] = c[0] /\ d[n + 1] = x /\ d[n] = c[n]
      BY <1>1, <3>1, <3>2
    <3>5. \A i \in 1..n : d[i] = c[i] /\ d[i - 1] = c[i - 1]
      BY <3>1, <3>2
    <3> QED BY <1>2, <3>1, <3>2, <3>3, <3>4, <3>5
  <2> HIDE DEF d
  <2>6. \A i \in 1..(n + 1) : d[i] = IF queue'[r][i].kind = "delta" THEN d[i - 1] + 1 ELSE 0
    <3>1. ASSUME NEW i \in 1..n
          PROVE  d[i] = IF queue'[r][i].kind = "delta" THEN d[i - 1] + 1 ELSE 0
      BY <1>2, <2>4, <2>5
    <3>2. d[n + 1] = IF queue'[r][n + 1].kind = "delta" THEN d[n] + 1 ELSE 0
      BY <2>4, <2>5 DEF x
    <3>3. \A i \in 1..(n + 1) : i \in 1..n \/ i = n + 1
      BY <1>1
    <3>4. ASSUME NEW i \in 1..(n + 1), i = n + 1
          PROVE  d[i] = IF queue'[r][i].kind = "delta" THEN d[i - 1] + 1 ELSE 0
      <4>1. i - 1 = n
        BY <1>1, <3>4
      <4> QED BY <3>2, <3>4, <4>1
    <3> QED BY <3>1, <3>3, <3>4
  <2>7. \A i \in 0..(n + 1) : d[i] < Times(1 + l)
    BY <1>1, <1>2, <2>3, <2>5
  <2> QED BY <1>6, <2>2, <2>4, <2>5, <2>6, <2>7 DEF Counts, K, l, Times
<1>7. CASE queue'[r] = queue[r] /\ lostKeys'[r] = l /\ ~(m.kind = "tick" /\ r \in R)
  <2>1. s % K <= t % K
    BY <1>1, <1>3, <1>7, <1>5
  <2>2. c[n] <= (t % K) + Times(l)
    BY <1>1, <1>2, <1>3, <2>1
  <2> QED BY <1>2, <1>7, <2>2 DEF Counts, K, l, n, Times
<1>8. CASE queue'[r] = queue[r] /\ lostKeys'[r] = l + 1
  <2>1. \A i \in 0..n : c[i] < Times(1 + (l + 1))
    <3> TAKE i \in 0..n
    <3>1. c[i] \in Nat /\ c[i] < Times(1 + l)
      BY <1>2
    <3>2. Times(1 + (l + 1)) = Times(1 + l) + K /\ Times(1 + l) \in Nat
      BY <1>1, <1>3
    <3> QED BY <1>1, <3>1, <3>2
  <2>2. c[n] <= (t % K) + Times(l + 1)
    BY <1>1, <1>2, <1>3
  <2> QED BY <1>2, <1>8, <2>1, <2>2 DEF Counts, K, l, n, Times
<1> QED BY <1>4, <1>6, <1>7, <1>8

\* A delivery takes the count to what it was to be after the message.
LEMMA DeliverCounts ==
  ASSUME TypeOK, NEW r \in Receivers, Deliver(r), NEW c, NEW s \in Nat, Counts(r, c, s)
  PROVE  \E d : Counts(r, d, s)'
<1> DEFINE n == Len(queue[r])
           d == [i \in 0..(n - 1) |-> c[i + 1]]
<1>1. /\ queue[r] \in Seq(Msg) /\ queue[r] # <<>> /\ n \in Nat \ {0}
      /\ queue'[r] = Tail(queue[r]) /\ lostKeys' = lostKeys
      /\ desync'[r] = IF queue[r][1].kind = "delta" THEN desync[r] + 1 ELSE 0
  BY DEF Deliver, Apply, TypeOK
<1>2. /\ Len(queue'[r]) = n - 1
      /\ \A i \in 1..(n - 1) : queue'[r][i] = queue[r][i + 1]
  BY <1>1
<1>3. /\ c \in [0..n -> Nat] /\ c[0] = desync[r]
      /\ \A i \in 1..n : c[i] = IF queue[r][i].kind = "delta" THEN c[i - 1] + 1 ELSE 0
      /\ \A i \in 0..n : c[i] < KeyframeInterval * (1 + lostKeys[r])
      /\ c[n] <= (s % KeyframeInterval) + KeyframeInterval * lostKeys[r]
  BY DEF Counts
<1> HIDE DEF n
<1>4. \A i \in 1..(n - 1) : /\ i \in 0..(n - 1) /\ i - 1 \in 0..(n - 1)
                            /\ i + 1 \in 1..n /\ (i - 1) + 1 = i /\ (i + 1) - 1 = i
  BY <1>1
<1>5. /\ d \in [0..(n - 1) -> Nat] /\ d[0] = c[1] /\ d[n - 1] = c[n]
      /\ \A i \in 0..(n - 1) : i + 1 \in 0..n /\ d[i] = c[i + 1]
  BY <1>1, <1>3
<1>6. d[0] = desync'[r]
  <2>1. 1 \in 1..n /\ 1 - 1 = 0
    BY <1>1
  <2> QED BY <1>1, <1>3, <1>5, <2>1
<1> HIDE DEF d
<1>7. \A i \in 1..(n - 1) : d[i] = IF queue'[r][i].kind = "delta" THEN d[i - 1] + 1 ELSE 0
  BY <1>2, <1>3, <1>4, <1>5
<1> QED BY <1>1, <1>2, <1>3, <1>5, <1>6, <1>7 DEF Counts

\* The counts depend on the queues, the counters and the last tick sent.
LEMMA CountsStay ==
  ASSUME CountInv, UNCHANGED <<queue, desync, lostKeys, subscribed>>, Sent' = Sent
  PROVE  Counted' /\ UnsubscribedQuiet'
BY DEF CountInv, Counted, Counts, UnsubscribedQuiet, Quiet

\* Before the match nothing is queued and nothing counted.
LEMMA InitCounted == Init => CountInv
<1> SUFFICES ASSUME Init PROVE CountInv
  OBVIOUS
<1>1. TypeOK /\ Sent \in Nat
  BY InitStream DEF StreamInv, Init, Sent
<1>2. \A r \in Receivers : Quiet(r)
  BY DEF Init, Quiet
<1>3. Counted
  BY <1>1, <1>2, QuietCounts DEF Counted
<1>4. UnsubscribedQuiet /\ LoopSends /\ HeldStart
  BY <1>2 DEF Init, UnsubscribedQuiet, LoopSends, HeldStart
<1> QED BY <1>3, <1>4 DEF CountInv

\* Every step keeps the counts.
LEMMA NextCounted ==
  ASSUME StreamInv, StreamInv', CountInv, [Next]_vars
  PROVE  CountInv'
<1>1. /\ TypeOK /\ tick \in 0..MaxTick /\ MaxTick \in Nat /\ KeyframeInterval \in Nat \ {0}
      /\ NoMsg \notin Msg
  BY TickStreamAssumption, NoMsgAssumption DEF StreamInv, TypeOK
<1>2. Sent \in Nat
  BY <1>1 DEF CountInv, LoopSends, Sent
<1>3. CASE UNCHANGED vars
  BY <1>3, CountsStay
  DEF vars, loopVars, handlerVars, sendVars, clientVars, CountInv, Sent, LoopSends, HeldStart
<1>4. ASSUME NEW g \in Grids, Tick(g) PROVE CountInv'
  <2>1. tick' = tick + 1 /\ tick' # 0 /\ tick' - 1 = tick /\ msg = NoMsg /\ held' = held
    BY <1>1, <1>4 DEF Tick, handlerVars
  <2>2. /\ msg' # NoMsg /\ msg'.kind \in {"tick", "delta"}
        /\ msg'.kind = "delta" => (tick + 1) % KeyframeInterval # 0
    <3>1. msg' \in Msg \cup {NoMsg}
      BY DEF StreamInv, TypeOK
    <3>2. CASE ShouldSendKeyframe(tick + 1)
      <4>1. msg' = [kind |-> "tick", tick |-> tick + 1, cells |-> g]
        BY <1>4, <3>2 DEF Tick
      <4>2. msg' \in Msg
        <5>1. tick + 1 \in 0..MaxTick
          BY <1>1, <1>4 DEF Tick
        <5> QED BY <4>1, <5>1, PatchType DEF Msg
      <4> QED BY <1>1, <4>1, <4>2
    <3>3. CASE ~ShouldSendKeyframe(tick + 1)
      <4>1. msg' = [kind |-> "delta", tick |-> tick + 1, cells |-> ComputeDelta(g)]
        BY <1>4, <3>3 DEF Tick
      <4>2. tick + 1 \in 0..MaxTick /\ prev \in Grids
        BY <1>1, <1>4, <3>3 DEF Tick, ShouldSendKeyframe, TypeOK
      <4>3. msg' \in Msg
        BY <4>1, <4>2, DeltaLeads DEF Msg
      <4> QED BY <1>1, <3>3, <4>1, <4>3 DEF ShouldSendKeyframe
    <3> QED BY <3>2, <3>3
  <2>3. Sent' = Sent
    BY <2>1, <2>2 DEF Sent
  <2>4. Counted' /\ UnsubscribedQuiet'
    BY <1>4, <2>3, CountsStay DEF Tick, handlerVars, sendVars, clientVars
  <2> QED BY <2>1, <2>2, <2>4 DEF CountInv, LoopSends, HeldStart
<1>5. CASE Broadcast
  <2>1. /\ msg \in Msg /\ Send(Seated \cup subscribed, msg) /\ Sent = tick - 1 /\ Sent' = tick
        /\ tick # 0 /\ msg.kind \in {"tick", "delta"}
        /\ msg.kind = "delta" => tick % KeyframeInterval # 0
        /\ UNCHANGED <<desync, subscribed, held>> /\ msg' = NoMsg
    BY <1>5 DEF Broadcast, clientVars, handlerVars, StreamInv, TypeOK, CountInv, LoopSends, Sent
  <2> PICK t \in Nat : t = tick
    BY <1>1
  <2> PICK s \in Nat : s = Sent
    BY <1>2
  <2>2. ASSUME NEW r \in Receivers, r \in Seated \cup subscribed
        PROVE  \E d : Counts(r, d, t)'
    <3>1. PICK c : Counts(r, c, s)
      BY DEF CountInv, Counted, Counts
    <3>2. msg.kind = "delta" => t % KeyframeInterval = (s % KeyframeInterval) + 1
      <4>1. s + 1 = t
        BY <1>1, <2>1
      <4> QED BY <1>1, <2>1, <4>1, RemainderNext
    <3> QED BY <1>1, <2>1, <2>2, <3>1, <3>2, SendCounts
  <2>3. ASSUME NEW r \in Receivers \ (Seated \cup subscribed)
        PROVE  Quiet(r)'
    <3>1. queue'[r] = queue[r]
      BY <2>1 DEF Send
    <3> QED BY <2>1, <3>1 DEF CountInv, UnsubscribedQuiet, Quiet
  <2>4. UnsubscribedQuiet'
    BY <2>1, <2>3 DEF UnsubscribedQuiet
  <2>5. Counted'
    <3>1. Sent' = t /\ TypeOK'
      BY <2>1 DEF StreamInv
    <3>2. (\A r \in Receivers, k \in Nat : Quiet(r) => \E c : Counts(r, c, k))'
      BY <3>1, QuietCounts, PTL
    <3>3. \A r \in Receivers : \E d : Counts(r, d, t)'
      BY <2>2, <2>3, <3>2
    <3> QED BY <3>1, <3>3 DEF Counted, Counts
  <2> QED BY <2>1, <2>4, <2>5 DEF CountInv, LoopSends, HeldStart
<1>6. ASSUME NEW s \in Spectators, Spectate(s) PROVE CountInv'
  BY <1>6
  DEF Spectate, loopVars, sendVars, clientVars, CountInv, Counted, Counts, UnsubscribedQuiet,
      Quiet, LoopSends, HeldStart, Sent
<1>7. ASSUME NEW h \in Handlers, GameStartState(h) PROVE CountInv'
  <2>1. UNCHANGED <<queue, desync, lostKeys, subscribed, msg, tick>> /\ Sent' = Sent
    BY <1>7 DEF GameStartState, loopVars, sendVars, clientVars, Sent
  <2>2. HeldStart'
    BY <1>7 DEF GameStartState, CountInv, HeldStart, StreamInv, TypeOK
  <2> QED BY <2>1, <2>2, CountsStay DEF CountInv, LoopSends
<1>8. ASSUME NEW h \in Handlers, SendGameStart(h) PROVE CountInv'
  <2>1. /\ held[h] \in Msg /\ held[h].kind = "start" /\ Send({Head(todo[h])}, held[h])
        /\ UNCHANGED <<desync, subscribed, msg, tick>> /\ Sent' = Sent
    BY <1>8
    DEF SendGameStart, loopVars, clientVars, CountInv, HeldStart, StreamInv, TypeOK, Sent
  <2>2. Counted'
    <3> PICK s \in Nat : s = Sent
      BY <1>2
    <3>1. ASSUME NEW r \in Receivers PROVE \E d : Counts(r, d, s)'
      <4>1. PICK c : Counts(r, c, s)
        BY DEF CountInv, Counted, Counts
      <4> QED BY <1>1, <2>1, <4>1, SendCounts
    <3> QED BY <2>1, <3>1 DEF Counted, Counts
  <2>3. ASSUME NEW r \in Receivers, Quiet(r) PROVE Quiet(r)'
    <3>1. queue'[r] = queue[r] \/ queue'[r] = Append(queue[r], held[h])
      BY <2>1 DEF Send
    <3>2. queue[r] \in Seq(Msg)
      BY <1>1 DEF TypeOK
    <3>3. CASE queue'[r] = queue[r]
      BY <2>1, <2>3, <3>3 DEF Quiet
    <3>4. CASE queue'[r] = Append(queue[r], held[h])
      <4>1. \A i \in 1..Len(queue'[r]) :
              (i \in 1..Len(queue[r]) /\ queue'[r][i] = queue[r][i]) \/ queue'[r][i] = held[h]
        BY <3>2, <3>4
      <4> QED BY <2>1, <2>3, <4>1 DEF Quiet
    <3> QED BY <3>1, <3>3, <3>4
  <2>4. UnsubscribedQuiet'
    BY <2>1, <2>3 DEF CountInv, UnsubscribedQuiet
  <2>5. HeldStart'
    BY <1>8 DEF SendGameStart, CountInv, HeldStart, StreamInv, TypeOK
  <2> QED BY <2>1, <2>2, <2>4, <2>5 DEF CountInv, LoopSends
<1>9. ASSUME NEW h \in Starters, Start(h) PROVE CountInv'
  BY <1>9, CountsStay
  DEF Start, handlerVars, sendVars, clientVars, CountInv, LoopSends, HeldStart, Sent
<1>10. ASSUME NEW r \in Receivers, Deliver(r) PROVE CountInv'
  <2>1. UNCHANGED <<msg, tick, held, subscribed, lostKeys>> /\ Sent' = Sent
    BY <1>10 DEF Deliver, loopVars, handlerVars, Sent
  <2>2. \A q \in Receivers \ {r} : queue'[q] = queue[q] /\ desync'[q] = desync[q]
    BY <1>1, <1>10 DEF Deliver, Apply, TypeOK
  <2>3. ASSUME NEW q \in Receivers PROVE \E d : Counts(q, d, Sent)'
    <3>1. PICK c : Counts(q, c, Sent)
      BY DEF CountInv, Counted
    <3>2. CASE q = r
      BY <1>1, <1>2, <1>10, <2>1, <3>1, <3>2, DeliverCounts DEF Counts
    <3>3. CASE q # r
      BY <2>1, <2>2, <3>1, <3>3 DEF Counts
    <3> QED BY <3>2, <3>3
  <2>4. Quiet(r) => Quiet(r)'
    <3>1. /\ queue[r] \in Seq(Msg) /\ queue[r] # <<>> /\ queue'[r] = Tail(queue[r])
          /\ desync'[r] = IF queue[r][1].kind = "delta" THEN desync[r] + 1 ELSE 0
      BY <1>1, <1>10 DEF Deliver, Apply, TypeOK
    <3>2. /\ 1 \in 1..Len(queue[r])
          /\ \A i \in 1..Len(queue'[r]) :
               i + 1 \in 1..Len(queue[r]) /\ queue'[r][i] = queue[r][i + 1]
      BY <3>1
    <3> QED BY <3>1, <3>2 DEF Quiet
  <2>5. UnsubscribedQuiet'
    <3>1. \A q \in Receivers \ {r} : Quiet(q) => Quiet(q)'
      BY <2>2 DEF Quiet
    <3> QED BY <2>1, <2>4, <3>1 DEF CountInv, UnsubscribedQuiet
  <2>6. Counted'
    BY <2>3 DEF Counted
  <2> QED BY <2>1, <2>5, <2>6 DEF CountInv, LoopSends, HeldStart
<1> QED
  BY <1>3, <1>4, <1>5, <1>6, <1>7, <1>8, <1>9, <1>10 DEF Next, LoopStep, HandlerStep

\* A client that has lost no keyframe never counts a whole interval of deltas, so
\* it never warns of a desync; each keyframe lost allows an interval more.
THEOREM DesyncBounded == Spec => []DesyncBound
<1>1. StreamInv /\ StreamInv' /\ CountInv /\ [Next]_vars => CountInv'
  BY NextCounted
<1>2. StreamInv /\ CountInv => DesyncBound
  <2> SUFFICES ASSUME StreamInv, CountInv, NEW r \in Receivers
               PROVE  desync[r] < KeyframeInterval * (1 + lostKeys[r])
    BY DEF DesyncBound
  <2>1. PICK c : Counts(r, c, Sent)
    BY DEF CountInv, Counted
  <2>2. 0 \in 0..Len(queue[r])
    BY DEF StreamInv, TypeOK
  <2> QED BY <2>1, <2>2 DEF Counts
<1> QED BY StreamInvHolds, InitCounted, <1>1, <1>2, PTL DEF Spec
=============================================================================
