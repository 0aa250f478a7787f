----------------------------- MODULE PlayProofs ----------------------------
(***************************************************************************)
(* What TLAPS proves of Play, for any keys, queues, limits and losses.     *)
(*                                                                         *)
(* TypeOK and ClosedLoop are inductive one after the other.  NoKeyStuck    *)
(* needs what is still under way: every key-down in the queue of events    *)
(* has its key-up behind it or is of a key the bot holds (PressesEnd), and *)
(* a game_start that came in time has a rematch before it, at which the    *)
(* bot stops (StartsBehind).  OverLast needs where the loop is: before it  *)
(* has announced the end, nobody has heard of it (NotOver).                *)
(***************************************************************************)
EXTENDS Play, SequenceTheorems, TLAPS

----------------------------------------------------------------------------
(* The queues.                                                             *)

\* What is cut off a sequence at the end leaves the rest as it was.
LEMMA Prefix ==
  ASSUME NEW S, NEW s \in Seq(S), NEW t \in Seq(S), NEW n \in 0 .. Len(s) + Len(t)
  PROVE  LET p == SubSeq(s \o t, 1, n)
         IN /\ p \in Seq(S) /\ Len(p) = n
            /\ \A i \in 1 .. n : p[i] = IF i <= Len(s) THEN s[i] ELSE t[i - Len(s)]
<1>1. /\ s \o t \in Seq(S) /\ Len(s \o t) = Len(s) + Len(t)
      /\ \A i \in 1 .. Len(s) + Len(t) :
           (s \o t)[i] = IF i <= Len(s) THEN s[i] ELSE t[i - Len(s)]
  BY ConcatProperties
<1>2. \A i \in 1 .. n : (s \o t)[i] \in S
  BY <1>1, ElementOfSeq
<1>3. /\ SubSeq(s \o t, 1, n) \in Seq(S)
      /\ Len(SubSeq(s \o t, 1, n)) = IF 1 <= n THEN n - 1 + 1 ELSE 0
      /\ \A i \in 1 .. n - 1 + 1 : SubSeq(s \o t, 1, n)[i] = (s \o t)[1 + i - 1]
  <2> DEFINE r == s \o t
  <2>1. 1 \in Int /\ n \in Int /\ \A i \in 1 .. n : r[i] \in S
    BY <1>2
  <2> HIDE DEF r
  <2>2. /\ SubSeq(r, 1, n) \in Seq(S)
        /\ Len(SubSeq(r, 1, n)) = IF 1 <= n THEN n - 1 + 1 ELSE 0
        /\ \A i \in 1 .. n - 1 + 1 : SubSeq(r, 1, n)[i] = r[1 + i - 1]
    BY <2>1, SubSeqProperties
  <2> QED BY <2>2 DEF r
<1> QED BY <1>1, <1>3

\* A message finds its place at the end of the queue, or none.
LEMMA SendOK ==
  ASSUME TypeOK, NEW msgs \in Seq(Message), Send(msgs)
  PROVE  /\ back' \in Seq(Message) /\ Len(back') <= QueueCap
         /\ Len(back) <= Len(back') /\ Len(back') <= Len(back) + Len(msgs)
         /\ \A i \in 1 .. Len(back') :
              back'[i] = IF i <= Len(back) THEN back[i] ELSE msgs[i - Len(back)]
<1> DEFINE n == Least(QueueCap, Len(back) + Len(msgs))
<1>1. /\ back \in Seq(Message) /\ Len(back) \in Nat /\ Len(msgs) \in Nat
      /\ QueueCap \in Nat /\ Len(back) <= QueueCap
  BY PlayAssumption DEF TypeOK
<1>2. n \in 0 .. Len(back) + Len(msgs) /\ Len(back) <= n /\ n <= QueueCap
  BY <1>1 DEF Least
<1>3. back' = SubSeq(back \o msgs, 1, n)
  BY DEF Send
<1> HIDE DEF n
<1> QED BY <1>1, <1>2, <1>3, Prefix

\* The same with the lengths known to be numbers.
LEMMA SendLen ==
  ASSUME TypeOK, NEW msgs \in Seq(Message), Send(msgs)
  PROVE  /\ Len(back) <= Len(back') /\ Len(back') <= Len(back) + Len(msgs)
         /\ Len(back) \in Nat /\ Len(back') \in Nat /\ Len(msgs) \in Nat
         /\ \A i \in 1 .. Len(back') :
              back'[i] = IF i <= Len(back) THEN back[i] ELSE msgs[i - Len(back)]
<1>1. /\ back' \in Seq(Message)
      /\ Len(back) <= Len(back') /\ Len(back') <= Len(back) + Len(msgs)
      /\ \A i \in 1 .. Len(back') :
           back'[i] = IF i <= Len(back) THEN back[i] ELSE msgs[i - Len(back)]
  BY SendOK
<1>2. Len(back') \in Nat /\ Len(msgs) \in Nat
  BY <1>1
<1>3. Len(back) \in Nat
  BY DEF TypeOK
<1> QED BY <1>1, <1>2, <1>3

\* The same for the events of the bot; what is dropped is counted.
LEMMA OfferOK ==
  ASSUME TypeOK, NEW evs \in Seq(Event), Offer(evs)
  PROVE  /\ out' \in Seq(Event) /\ Len(out') <= SendCap
         /\ Len(out) <= Len(out') /\ losses' \in 0 .. MaxLosses
         /\ losses' = losses + Len(out) + Len(evs) - Len(out')
         /\ Len(out') <= Len(out) + Len(evs)
         /\ \A i \in 1 .. Len(out') :
              out'[i] = IF i <= Len(out) THEN out[i] ELSE evs[i - Len(out)]
<1>1. /\ out \in Seq(Event) /\ Len(out) \in Nat /\ Len(evs) \in Nat
      /\ SendCap \in Nat /\ Len(out) <= SendCap /\ losses \in Nat /\ MaxLosses \in Nat
  BY PlayAssumption DEF TypeOK
<1>2. /\ Fits(evs) \in 0 .. Len(out) + Len(evs)
      /\ Len(out) <= Fits(evs) /\ Fits(evs) <= SendCap
  BY <1>1 DEF Least, Fits
<1>3. PICK n : n = Fits(evs)
  OBVIOUS
<1>4. n \in 0 .. Len(out) + Len(evs) /\ Len(out) <= n /\ n <= SendCap
  BY <1>2, <1>3
<1>5. /\ out' = SubSeq(out \o evs, 1, n)
      /\ losses + Len(out) + Len(evs) - n =< MaxLosses
      /\ losses' = losses + Len(out) + Len(evs) - n
  BY <1>3 DEF Offer
<1>6. /\ out' \in Seq(Event) /\ Len(out') = n
      /\ \A i \in 1 .. n : out'[i] = IF i <= Len(out) THEN out[i] ELSE evs[i - Len(out)]
  BY <1>1, <1>4, <1>5, Prefix
<1>7. losses' \in 0 .. MaxLosses
  BY <1>1, <1>4, <1>5
<1>8. losses' = losses + Len(out) + Len(evs) - Len(out')
  BY <1>5, <1>6
<1>9. /\ Len(out') <= SendCap /\ Len(out) <= Len(out')
      /\ Len(out') <= Len(out) + Len(evs)
  BY <1>4, <1>6
<1>10. \A i \in 1 .. Len(out') :
         out'[i] = IF i <= Len(out) THEN out[i] ELSE evs[i - Len(out)]
  BY <1>6
<1> QED BY <1>6, <1>7, <1>8, <1>9, <1>10

\* The bot takes the oldest message.
LEMMA HearsOK ==
  ASSUME TypeOK, NEW kind, Hears(kind)
  PROVE  /\ back # <<>> /\ Heard = back[1] /\ Heard \in Message /\ Heard.kind = kind
         /\ back' \in Seq(Message) /\ Len(back') = Len(back) - 1
         /\ \A i \in 1 .. Len(back') : back'[i] = back[i + 1]
         /\ bot \in {"playing", "asking"}
         /\ Len(back') <= QueueCap /\ Len(back) \in Nat
BY HeadTailProperties, PlayAssumption DEF Hears, Heard, TypeOK

\* The server takes the oldest event.
LEMMA TakesOK ==
  ASSUME TypeOK, NEW acts, Takes(acts)
  PROVE  /\ out # <<>> /\ Head(out) = out[1] /\ out[1] \in Event /\ out[1].act \in acts
         /\ out' \in Seq(Event) /\ Len(out') = Len(out) - 1 /\ Len(out) \in Nat
         /\ \A i \in 1 .. Len(out') : out'[i] = out[i + 1]
         /\ Len(out') <= SendCap
BY HeadTailProperties, PlayAssumption DEF Takes, TypeOK

\* Releasing keys is one event at most.
LEMMA UpsOK ==
  ASSUME NEW ks \in SUBSET Keys
  PROVE  /\ Ups(ks) \in Seq(Event) /\ Len(Ups(ks)) \in {0, 1}
         /\ \A k \in Keys : ks = {k} => Ups(ks) = <<[act |-> "up", key |-> k]>>
         /\ ks = {} => Ups(ks) = <<>>
<1>1. CASE ks = {}
  BY <1>1 DEF Ups
<1>2. CASE ks # {}
  <2> DEFINE k == CHOOSE x \in ks : TRUE
  <2>1. k \in ks /\ k \in Keys
    BY <1>2
  <2>2. [act |-> "up", key |-> k] \in Event
    BY <2>1 DEF Event
  <2>3. Ups(ks) = <<[act |-> "up", key |-> k]>>
    BY <1>2 DEF Ups, OneEvent
  <2>4. \A x \in Keys : ks = {x} => k = x
    BY <2>1
  <2> HIDE DEF k
  <2> QED BY <1>2, <2>2, <2>3, <2>4
<1> QED BY <1>1, <1>2

----------------------------------------------------------------------------
(* Types.                                                                  *)

LEMMA MessageOK ==
  /\ \A kind \in Told \cup Untold : <<[kind |-> kind]>> \in Seq(Message)
  /\ \A k, l \in Told \cup Untold : <<[kind |-> k], [kind |-> l]>> \in Seq(Message)
  /\ \A dt \in 1 .. MoveAck, t \in Tank :
       <<[kind |-> "tick", dt |-> dt, tank |-> t]>> \in Seq(Message)
  /\ \A k \in Keys, act \in {"down", "up"} : OneEvent(act, k) \in Seq(Event)
  /\ OneEvent("again", None) \in Seq(Event)
BY DEF Message, Event, OneEvent

\* A tick that the bot hears has a tank and an age.
LEMMA TickOK ==
  ASSUME TypeOK, Hears("tick")
  PROVE  /\ Heard.dt \in 1 .. MoveAck /\ Heard.tank \in Tank
         /\ Aged \in 0 .. MoveAck
         /\ \A k \in Keys : Reading(Heard.tank, k) \in Nat
<1>1. Heard \in Message /\ Heard.kind = "tick"
  BY HearsOK
<1>2. Heard.dt \in 1 .. MoveAck /\ Heard.tank \in Tank
  BY <1>1 DEF Message, Told, Untold
<1>3. Aged \in 0 .. MoveAck
  BY <1>2, PlayAssumption DEF Aged, Least, TypeOK
<1>4. \A k \in Keys : Reading(Heard.tank, k) \in Nat
  BY <1>2, PlayAssumption DEF Reading, Tank, Keys
<1> QED BY <1>2, <1>3, <1>4

\* Whatever the engine makes of a key, it makes a tank of it.
LEMMA UpdatedOK ==
  ASSUME TypeOK, NEW k \in Keys \cup {None}
  PROVE  Updated(tank, k) \subseteq Tank
<1>1. tank \in Tank /\ tank.pose \in {0, 1} /\ tank.stock \in [Stores -> 0 .. Full]
      /\ tank = [pose |-> tank.pose, stock |-> tank.stock]
  BY DEF TypeOK, Tank
<1>2. Moved(tank) \in Tank
  BY <1>1 DEF Moved, Tank
<1>3. PutBack \in Tank
  BY PlayAssumption DEF PutBack, Tank
<1>4. k \in Stores => Spent(tank, k) \in Tank
  <2> SUFFICES ASSUME k \in Stores PROVE Spent(tank, k) \in Tank
    OBVIOUS
  <2> DEFINE n == IF tank.stock[k] > 0 THEN tank.stock[k] - 1 ELSE tank.stock[k]
  <2>1. n \in 0 .. Full
    BY <1>1, PlayAssumption
  <2>2. [tank.stock EXCEPT ![k] = n] \in [Stores -> 0 .. Full]
    BY <1>1, <2>1
  <2>3. Spent(tank, k) = [tank EXCEPT !.stock = [tank.stock EXCEPT ![k] = n]]
    BY <1>1 DEF Spent
  <2> QED BY <1>1, <2>2, <2>3 DEF Tank
<1> QED BY <1>1, <1>2, <1>3, <1>4 DEF Updated

LEMMA InitType == Init => TypeOK
<1> SUFFICES ASSUME Init PROVE TypeOK
  OBVIOUS
<1>1. tank \in Tank
  BY PlayAssumption DEF Init, PutBack, Tank
<1>2. /\ down \in SUBSET Keys /\ queue \in Seq(Keys) /\ holds \in SUBSET Keys
      /\ count \in 0 .. MaxInputs + 1 /\ window \in 0 .. Window
      /\ skipped \in 0 .. MoveAck - 1 /\ age \in 0 .. MoveAck /\ losses \in 0 .. MaxLosses
  BY PlayAssumption DEF Init
<1>3. back \in Seq(Message) /\ Len(back) =< QueueCap /\ out \in Seq(Event) /\ Len(out) =< SendCap
  BY PlayAssumption DEF Init
<1> QED BY <1>1, <1>2, <1>3 DEF Init, TypeOK

LEMMA LoopType == ASSUME TypeOK, Loop PROVE TypeOK'
<1>1. CASE StepTick
  <2>1. ConsumeAction \in Keys \cup {None}
    BY HeadTailProperties DEF ConsumeAction, TypeOK
  <2>2. tank' \in Tank
    BY <1>1, <2>1, UpdatedOK DEF StepTick
  <2>3. window' \in 0 .. Window /\ count' \in 0 .. MaxInputs + 1
    BY <1>1, PlayAssumption DEF StepTick, TypeOK
  <2>4. mstate' \in {"Running", "GameOver"} /\ phase' \in {"last", "tick"} /\ queue' = <<>>
    BY <1>1 DEF StepTick
  <2> QED BY <1>1, <2>2, <2>3, <2>4 DEF StepTick, TypeOK, roomVars, botVars
<1>2. CASE BroadcastTick
  <2>1. skipped + 1 \in 1 .. MoveAck /\ tank \in Tank
    BY PlayAssumption DEF TypeOK
  <2>2. back' \in Seq(Message) /\ Len(back') <= QueueCap
    BY <1>2, <2>1, MessageOK, SendOK DEF BroadcastTick
  <2>3. skipped' \in 0 .. MoveAck - 1
    BY <1>2, PlayAssumption DEF BroadcastTick, TypeOK, Least
  <2>4. phase' \in {"over", "wait"}
    BY <1>2 DEF BroadcastTick
  <2> QED BY <1>2, <2>2, <2>3, <2>4 DEF BroadcastTick, TypeOK, inputVars, roomVars, botVars
<1>3. CASE EmitGameOver
  <2>1. back' \in Seq(Message) /\ Len(back') <= QueueCap
    BY <1>3, MessageOK, SendOK DEF EmitGameOver, Told
  <2> QED BY <1>3, <2>1 DEF EmitGameOver, TypeOK, inputVars, roomVars, botVars
<1>4. CASE MatchTimeout \/ StopsItself
  BY <1>4 DEF MatchTimeout, StopsItself, TypeOK, inputVars, roomVars, botVars
<1> QED BY <1>1, <1>2, <1>3, <1>4 DEF Loop

LEMMA OthersType == ASSUME TypeOK, Others PROVE TypeOK'
<1>1. back' \in Seq(Message) /\ Len(back') <= QueueCap
  <2>1. \A kind \in {"left", "spectator_left", "start"} : <<[kind |-> kind]>> \in Seq(Message)
    BY MessageOK DEF Told, Untold
  <2>2. /\ <<[kind |-> "player_disconnected"], [kind |-> "left"]>> \in Seq(Message)
        /\ <<[kind |-> "rematch"], [kind |-> "start"]>> \in Seq(Message)
    BY MessageOK DEF Told, Untold
  <2>3. CASE Shutdown \/ SpectatorLeaves \/ LateGameStart
    BY <2>1, <2>3, SendOK DEF Shutdown, SpectatorLeaves, LateGameStart
  <2>4. CASE OpponentDisconnects \/ Rematch
    BY <2>2, <2>4, SendOK DEF OpponentDisconnects, Rematch
  <2> QED BY <2>3, <2>4 DEF Others
<1>2. CASE Shutdown
  BY <1>1, <1>2 DEF Shutdown, TypeOK, inputVars, roomVars, botVars
<1>3. CASE OpponentDisconnects
  BY <1>1, <1>3 DEF OpponentDisconnects, TypeOK, matchVars, inputVars, botVars
<1>4. CASE SpectatorLeaves
  BY <1>1, <1>4 DEF SpectatorLeaves, TypeOK, matchVars, inputVars, roomVars, botVars
<1>5. CASE Rematch
  BY <1>1, <1>5 DEF Rematch, TypeOK, inputVars, botVars
<1>6. CASE LateGameStart
  <2>1. losses' \in 0 .. MaxLosses
    BY <1>6, PlayAssumption DEF LateGameStart, TypeOK
  <2> QED BY <1>1, <1>6, <2>1 DEF LateGameStart, TypeOK, matchVars, inputVars, roomVars, botVars
<1> QED BY <1>2, <1>3, <1>4, <1>5, <1>6 DEF Others

LEMMA ReceiveType == ASSUME TypeOK, Receive PROVE TypeOK'
<1>1. back' \in Seq(Message) /\ Len(back') <= QueueCap
  BY HearsOK DEF Receive, Decide, Acknowledged, GivesUp, Interrupts, Waits, Starts, Idles,
                 OnGameStart, OnGameOver, OnPlayAgainAck, Exits, UnknownType
<1> USE DEF TypeOK, matchVars, inputVars, roomVars
<1>2. CASE Acknowledged
  <2>1. out' \in Seq(Event) /\ Len(out') <= SendCap /\ losses' \in 0 .. MaxLosses
    BY <1>2, UpsOK, OfferOK DEF Acknowledged
  <2> QED BY <1>1, <1>2, <2>1, PlayAssumption DEF Acknowledged, ClearPending
<1>3. CASE GivesUp
  <2>1. out' \in Seq(Event) /\ Len(out') <= SendCap /\ losses' \in 0 .. MaxLosses
    BY <1>3, UpsOK, OfferOK DEF GivesUp
  <2> QED BY <1>1, <1>3, <2>1, PlayAssumption DEF GivesUp, ClearPending
<1>4. CASE Interrupts
  <2>1. out' \in Seq(Event) /\ Len(out') <= SendCap /\ losses' \in 0 .. MaxLosses
    BY <1>4, UpsOK, OfferOK DEF Interrupts
  <2> QED BY <1>1, <1>4, <2>1, PlayAssumption DEF Interrupts, ClearPending
<1>5. CASE Waits
  BY <1>1, <1>5, TickOK DEF Waits
<1>6. CASE Starts
  <2>1. PICK k \in Moves \cup {"fire"} \cup {s \in Stores : Heard.tank.stock[s] > 0} :
          /\ pend' = k /\ before' = Reading(Heard.tank, k) /\ age' = 0
          /\ holds' = holds \cup {k} /\ Offer(OneEvent("down", k))
    BY <1>6 DEF Starts
  <2>2. k \in Keys
    BY PlayAssumption DEF Keys
  <2>3. out' \in Seq(Event) /\ Len(out') <= SendCap /\ losses' \in 0 .. MaxLosses
    BY <2>1, <2>2, MessageOK, OfferOK
  <2>4. before' \in Nat /\ 0 \in 0 .. MoveAck
    BY <1>6, <2>1, <2>2, TickOK, PlayAssumption DEF Starts
  <2> QED BY <1>1, <1>6, <2>1, <2>2, <2>3, <2>4 DEF Starts
<1>7. CASE Idles \/ OnPlayAgainAck \/ Exits \/ UnknownType
  BY <1>1, <1>7 DEF Idles, OnPlayAgainAck, Exits, UnknownType, botVars
<1>8. CASE OnGameStart
  BY <1>1, <1>8, PlayAssumption DEF OnGameStart, ClearPending
<1>9. CASE OnGameOver
  <2>1. out' \in Seq(Event) /\ Len(out') <= SendCap /\ losses' \in 0 .. MaxLosses
    BY <1>9, MessageOK, OfferOK DEF OnGameOver
  <2> QED BY <1>1, <1>9, <2>1 DEF OnGameOver
<1> QED BY <1>2, <1>3, <1>4, <1>5, <1>6, <1>7, <1>8, <1>9 DEF Receive, Decide

LEMMA InputType == ASSUME TypeOK, HandleInput PROVE TypeOK'
<1>1. out' \in Seq(Event) /\ Len(out') <= SendCap
  BY TakesOK DEF HandleInput, Rejected, KeyDown, KeyUp, HandlePlayAgain
<1>2. Count => count' \in 0 .. MaxInputs + 1 /\ window' \in 0 .. Window
  BY PlayAssumption DEF Count, Counted, Least, TypeOK
<1> USE DEF TypeOK, matchVars, roomVars, botVars
<1>3. CASE Rejected
  BY <1>1, <1>2, <1>3, PlayAssumption DEF Rejected
<1>4. CASE KeyDown
  <2>1. Key \in Keys
    BY <1>4, TakesOK DEF KeyDown, Key, Event
  <2>2. queue' \in Seq(Keys) /\ down' \in SUBSET Keys
    BY <1>4, <2>1 DEF KeyDown
  <2> QED BY <1>1, <1>2, <1>4, <2>2 DEF KeyDown
<1>5. CASE KeyUp
  BY <1>1, <1>2, <1>5 DEF KeyUp
<1>6. CASE HandlePlayAgain
  <2>1. <<[kind |-> IF away THEN "error" ELSE "ack"]>> \in Seq(Message)
    BY MessageOK DEF Told
  <2>2. back' \in Seq(Message) /\ Len(back') <= QueueCap
    BY <1>6, <2>1, SendOK DEF HandlePlayAgain
  <2> QED BY <1>1, <1>6, <2>2 DEF HandlePlayAgain, inputVars
<1> QED BY <1>3, <1>4, <1>5, <1>6 DEF HandleInput

LEMMA NextType == ASSUME TypeOK, [Next]_vars PROVE TypeOK'
<1>1. CASE UNCHANGED vars
  BY <1>1 DEF vars, matchVars, inputVars, roomVars, botVars, TypeOK
<1> QED BY <1>1, LoopType, OthersType, ReceiveType, InputType DEF Next

\* Queues keep to their size and variables to their type, in any match.
THEOREM PlayTyped == Spec => []TypeOK
<1>1. Init => TypeOK
  BY InitType
<1>2. TypeOK /\ [Next]_vars => TypeOK'
  BY NextType
<1> QED BY <1>1, <1>2, PTL DEF Spec

----------------------------------------------------------------------------
(* The bot holds the key it waits for.                                     *)

LEMMA ReceiveLoop == ASSUME TypeOK, ClosedLoop, Receive PROVE ClosedLoop'
<1> None \notin Keys /\ Moves \subseteq Keys /\ pend \in Keys \cup {None}
  BY PlayAssumption DEF Keys, TypeOK
<1>1. CASE Acknowledged
  BY <1>1 DEF Acknowledged, ClearPending, ClosedLoop
<1>2. CASE GivesUp
  BY <1>2 DEF GivesUp, ClearPending, ClosedLoop
<1>3. CASE Interrupts
  BY <1>3 DEF Interrupts, ClearPending, ClosedLoop
<1>4. CASE Starts
  <2>1. PICK k \in Moves \cup {"fire"} \cup {s \in Stores : Heard.tank.stock[s] > 0} :
          pend' = k /\ holds' = holds \cup {k}
    BY <1>4 DEF Starts
  <2>2. k \in Keys /\ pend = None
    BY <1>4, PlayAssumption DEF Keys, Starts
  <2> QED BY <2>1, <2>2 DEF ClosedLoop
<1>5. CASE OnGameStart
  BY <1>5 DEF OnGameStart, ClearPending, ClosedLoop
<1>6. CASE Waits \/ Idles \/ OnGameOver \/ OnPlayAgainAck \/ Exits \/ UnknownType
  BY <1>6 DEF Waits, Idles, OnGameOver, OnPlayAgainAck, Exits, UnknownType, botVars, ClosedLoop
<1> QED BY <1>1, <1>2, <1>3, <1>4, <1>5, <1>6 DEF Receive, Decide

\* What is not a step of the bot leaves the bot alone.
LEMMA BotAlone == ASSUME Loop \/ Others \/ HandleInput PROVE UNCHANGED botVars
BY DEF Loop, Others, HandleInput, StepTick, BroadcastTick, EmitGameOver, MatchTimeout,
       StopsItself, Shutdown, OpponentDisconnects, SpectatorLeaves, Rematch, LateGameStart,
       Rejected, KeyDown, KeyUp, HandlePlayAgain

LEMMA NextLoop == ASSUME TypeOK, ClosedLoop, [Next]_vars PROVE ClosedLoop'
<1>1. CASE Receive
  BY <1>1, ReceiveLoop
<1>2. CASE Loop \/ Others \/ HandleInput
  BY <1>2, BotAlone DEF botVars, ClosedLoop
<1>3. CASE UNCHANGED vars
  BY <1>3 DEF vars, botVars, ClosedLoop
<1> QED BY <1>1, <1>2, <1>3 DEF Next

\* The bot holds exactly the key whose effect it waits for, whatever is lost.
THEOREM LoopClosed == Spec => []ClosedLoop
<1>1. Init => TypeOK /\ ClosedLoop
  BY InitType DEF Init, ClosedLoop
<1>2. TypeOK /\ ClosedLoop /\ [Next]_vars => (TypeOK /\ ClosedLoop)'
  BY NextType, NextLoop
<1> QED BY <1>1, <1>2, PTL DEF Spec

----------------------------------------------------------------------------
(* Nothing is stuck while nothing is lost.                                 *)

Up(k) == [act |-> "up", key |-> k]
Down(k) == [act |-> "down", key |-> k]
Behind(i, k) == \E j \in i + 1 .. Len(out) : out[j] = Up(k)

\* Every press under way has its end under way, or is of a key still held.
PressesEnd ==
  \A k \in Keys : \A i \in 1 .. Len(out) : out[i] = Down(k) => k \in holds \/ Behind(i, k)
KeysEnd == \A k \in down : k \in holds \/ Behind(0, k)

\* The bot does not come to a game_start that follows a rematch.
StartsBehind ==
  bot \in {"playing", "asking"} =>
    \A i \in 1 .. Len(back) :
      back[i].kind = "start" => \E j \in 1 .. i - 1 : back[j].kind = "rematch"

Together == PressesEnd /\ KeysEnd /\ StartsBehind
KeysInv == losses = 0 => Together

\* The bot offers nothing, or the release of a key, or the press of one.
LEMMA OfferKeeps ==
  ASSUME TypeOK, PressesEnd, KeysEnd, NEW evs \in Seq(Event), Offer(evs),
         losses = 0, losses' = 0, UNCHANGED down,
         \A k \in holds : k \in holds' \/ \E i \in 1 .. Len(evs) : evs[i] = Up(k),
         \A i \in 1 .. Len(evs), k \in Keys : evs[i] = Down(k) => k \in holds' /\ Len(evs) = 1
  PROVE  PressesEnd' /\ KeysEnd'
<1>1. /\ Len(out') = Len(out) + Len(evs) /\ Len(out) \in Nat /\ Len(evs) \in Nat
      /\ \A i \in 1 .. Len(out') : out'[i] = IF i <= Len(out) THEN out[i] ELSE evs[i - Len(out)]
  <2>1. /\ losses' = losses + Len(out) + Len(evs) - Len(out')
        /\ \A i \in 1 .. Len(out') :
             out'[i] = IF i <= Len(out) THEN out[i] ELSE evs[i - Len(out)]
        /\ out' \in Seq(Event)
    BY OfferOK
  <2>2. Len(out) \in Nat /\ Len(evs) \in Nat /\ Len(out') \in Nat
    BY <2>1 DEF TypeOK
  <2>3. Len(out') = Len(out) + Len(evs)
    BY <2>1, <2>2
  <2> QED BY <2>1, <2>2, <2>3
<1>2. \A i \in 1 .. Len(evs) : Len(out) + i \in 1 .. Len(out') /\ out'[Len(out) + i] = evs[i]
  BY <1>1
<1>3. \A i \in 0 .. Len(out), k \in Keys :
        k \in holds \/ Behind(i, k) => k \in holds' \/ Behind(i, k)'
  <2> SUFFICES ASSUME NEW i \in 0 .. Len(out), NEW k \in Keys,
                      k \in holds \/ Behind(i, k), k \notin holds'
               PROVE  \E j \in i + 1 .. Len(out') : out'[j] = Up(k)
    BY DEF Behind
  <2>1. CASE k \in holds
    <3>1. PICK n \in 1 .. Len(evs) : evs[n] = Up(k)
      BY <2>1
    <3> QED BY <3>1, <1>1, <1>2
  <2>2. CASE Behind(i, k)
    BY <2>2, <1>1 DEF Behind
  <2> QED BY <2>1, <2>2
<1>4. PressesEnd'
  <2> SUFFICES ASSUME NEW k \in Keys, NEW i \in 1 .. Len(out'), out'[i] = Down(k)
               PROVE  k \in holds' \/ Behind(i, k)'
    BY DEF PressesEnd, Down
  <2>1. CASE i <= Len(out)
    BY <2>1, <1>1, <1>3 DEF PressesEnd
  <2>2. CASE i > Len(out)
    <3>1. i - Len(out) \in 1 .. Len(evs) /\ evs[i - Len(out)] = Down(k)
      BY <2>2, <1>1
    <3> QED BY <3>1
  <2> QED BY <1>1, <2>1, <2>2
<1>5. KeysEnd'
  <2>1. down \subseteq Keys /\ 0 \in 0 .. Len(out)
    BY <1>1 DEF TypeOK
  <2> QED BY <2>1, <1>3 DEF KeysEnd
<1> QED BY <1>4, <1>5

\* When the bot hears a message the others move up.
LEMMA HearsKeeps ==
  ASSUME TypeOK, StartsBehind, NEW kind, Hears(kind), kind # "rematch" \/ bot' = "failed"
  PROVE  StartsBehind' /\ kind # "start"
<1>1. /\ back[1].kind = kind /\ Len(back) \in Nat /\ back # <<>> /\ Len(back') = Len(back) - 1
      /\ \A i \in 1 .. Len(back') : back'[i] = back[i + 1]
      /\ bot \in {"playing", "asking"}
  BY HearsOK
<1>2. 1 \in 1 .. Len(back)
  BY <1>1, EmptySeq DEF TypeOK
<1>3. kind # "start"
  BY <1>1, <1>2 DEF StartsBehind
<1>4. StartsBehind'
  <2> SUFFICES ASSUME bot' \in {"playing", "asking"}, NEW i \in 1 .. Len(back'),
                      back'[i].kind = "start"
               PROVE  \E j \in 1 .. i - 1 : back'[j].kind = "rematch"
    BY DEF StartsBehind
  <2>1. i + 1 \in 1 .. Len(back) /\ back[i + 1].kind = "start"
    BY <1>1
  <2>2. PICK j \in 1 .. i : back[j].kind = "rematch"
    BY <1>1, <2>1 DEF StartsBehind
  <2>3. j # 1
    BY <1>1, <2>2
  <2>4. j - 1 \in 1 .. i - 1 /\ back'[j - 1] = back[j]
    BY <1>1, <2>2, <2>3
  <2> QED BY <2>2, <2>4
<1> QED BY <1>3, <1>4

\* Messages among which no game_start comes without a rematch.
Harmless(msgs) ==
  /\ msgs \in Seq(Message)
  /\ \A i \in 1 .. Len(msgs) :
       msgs[i].kind = "start" => \E j \in 1 .. i - 1 : msgs[j].kind = "rematch"

\* A single message that is not a game_start is harmless.
LEMMA OneHarmless ==
  ASSUME NEW m, m.kind # "start", <<m>> \in Seq(Message)
  PROVE  Harmless(<<m>>)
<1>1. Len(<<m>>) = 1 /\ <<m>>[1] = m
  OBVIOUS
<1> QED BY <1>1 DEF Harmless

LEMMA HarmlessOK ==
  /\ \A kind \in (Told \cup Untold) \ {"start"} : Harmless(<<[kind |-> kind]>>)
  /\ Harmless(<<[kind |-> "player_disconnected"], [kind |-> "left"]>>)
  /\ Harmless(<<[kind |-> "rematch"], [kind |-> "start"]>>)
  /\ \A dt \in 1 .. MoveAck, t \in Tank :
       Harmless(<<[kind |-> "tick", dt |-> dt, tank |-> t]>>)
<1>1. \A kind \in (Told \cup Untold) \ {"start"} : Harmless(<<[kind |-> kind]>>)
  <2> SUFFICES ASSUME NEW kind \in (Told \cup Untold) \ {"start"}
               PROVE  Harmless(<<[kind |-> kind]>>)
    OBVIOUS
  <2> DEFINE m == [kind |-> kind]
  <2>1. m.kind # "start" /\ <<m>> \in Seq(Message)
    BY MessageOK
  <2> HIDE DEF m
  <2>2. Harmless(<<m>>)
    BY <2>1, OneHarmless
  <2> QED BY <2>2 DEF m
<1>2. Harmless(<<[kind |-> "player_disconnected"], [kind |-> "left"]>>)
  BY MessageOK DEF Harmless, Told, Untold
<1>3. Harmless(<<[kind |-> "rematch"], [kind |-> "start"]>>)
  <2> DEFINE ms == <<[kind |-> "rematch"], [kind |-> "start"]>>
  <2>1. ms \in Seq(Message) /\ Len(ms) = 2 /\ ms[1].kind = "rematch"
    BY MessageOK DEF Told, Untold
  <2> HIDE DEF ms
  <2>2. \A i \in 1 .. 2 : ms[i].kind = "start" => 1 \in 1 .. i - 1
    BY <2>1
  <2> QED BY <2>1, <2>2 DEF Harmless, ms
<1>4. \A dt \in 1 .. MoveAck, t \in Tank :
        Harmless(<<[kind |-> "tick", dt |-> dt, tank |-> t]>>)
  <2> SUFFICES ASSUME NEW dt \in 1 .. MoveAck, NEW t \in Tank
               PROVE  Harmless(<<[kind |-> "tick", dt |-> dt, tank |-> t]>>)
    OBVIOUS
  <2> DEFINE m == [kind |-> "tick", dt |-> dt, tank |-> t]
  <2>1. m.kind # "start" /\ <<m>> \in Seq(Message)
    BY MessageOK
  <2> HIDE DEF m
  <2>2. Harmless(<<m>>)
    BY <2>1, OneHarmless
  <2> QED BY <2>2 DEF m
<1> QED BY <1>1, <1>2, <1>3, <1>4

\* What the server sends comes behind what is under way.
LEMMA SendKeeps ==
  ASSUME TypeOK, StartsBehind, UNCHANGED bot, NEW msgs, Harmless(msgs), Send(msgs)
  PROVE  StartsBehind'
<1>1. /\ Len(back) <= Len(back') /\ Len(back') <= Len(back) + Len(msgs)
      /\ Len(back) \in Nat /\ Len(back') \in Nat /\ Len(msgs) \in Nat
      /\ \A i \in 1 .. Len(back') :
           back'[i] = IF i <= Len(back) THEN back[i] ELSE msgs[i - Len(back)]
  BY SendLen DEF Harmless
<1> SUFFICES ASSUME bot \in {"playing", "asking"}, NEW i \in 1 .. Len(back'),
                    back'[i].kind = "start"
             PROVE  \E j \in 1 .. i - 1 : back'[j].kind = "rematch"
  BY DEF StartsBehind
<1>2. CASE i <= Len(back)
  <2>1. PICK j \in 1 .. i - 1 : back[j].kind = "rematch"
    BY <1>1, <1>2 DEF StartsBehind
  <2>2. j \in 1 .. Len(back') /\ j <= Len(back)
    BY <1>1, <1>2
  <2>3. back'[j] = back[j]
    BY <1>1, <2>2
  <2> QED BY <2>1, <2>3
<1>3. CASE i > Len(back)
  <2> DEFINE n == i - Len(back)
  <2>1. n \in 1 .. Len(msgs) /\ msgs[n].kind = "start"
    BY <1>1, <1>3
  <2>2. PICK j \in 1 .. n - 1 : msgs[j].kind = "rematch"
    BY <2>1 DEF Harmless
  <2>3. Len(back) + j \in 1 .. i - 1 /\ Len(back) + j > Len(back)
    BY <1>1, <1>3, <2>1, <2>2
  <2>4. Len(back) + j \in 1 .. Len(back') /\ Len(back) + j - Len(back) = j
    BY <1>1, <2>3
  <2>5. back'[Len(back) + j] = msgs[j]
    BY <1>1, <2>3, <2>4
  <2> QED BY <2>2, <2>3, <2>5
<1> QED BY <1>1, <1>2, <1>3

LEMMA ReceiveTogether ==
  ASSUME TypeOK, ClosedLoop, losses = 0, losses' = 0, Together, Receive
  PROVE  Together'
<1> USE DEF Together
<1>0. pend \in Keys \cup {None} /\ None \notin Keys /\ Moves \subseteq Keys
  BY PlayAssumption DEF TypeOK, Keys
<1>1. StartsBehind' /\ ~OnGameStart
  <2>1. CASE Decide
    BY <2>1, HearsKeeps DEF Decide, Acknowledged, GivesUp, Interrupts, Waits, Starts, Idles,
                            OnGameStart, Hears
  <2>2. CASE OnGameStart
    BY <2>2, HearsKeeps DEF OnGameStart
  <2>3. CASE OnGameOver \/ OnPlayAgainAck \/ Exits
    BY <2>3, HearsKeeps DEF OnGameOver, OnPlayAgainAck, Exits, OnGameStart, Hears
  <2>4. CASE UnknownType
    BY <2>4, HearsKeeps DEF UnknownType, OnGameStart, Hears, Untold
  <2> QED BY <2>1, <2>2, <2>3, <2>4 DEF Receive
<1>2. CASE Acknowledged
  <2>1. pend \in Keys /\ holds = {pend} /\ holds' = {} /\ Offer(Ups({pend})) /\ UNCHANGED down
    BY <1>0, <1>2 DEF Acknowledged, ClosedLoop, inputVars
  <2>2. Ups({pend}) = <<Up(pend)>> /\ Ups({pend}) \in Seq(Event)
    BY <2>1, UpsOK DEF Up
  <2>3. PressesEnd' /\ KeysEnd'
    BY <2>1, <2>2, OfferKeeps DEF Up, Down
  <2> QED BY <1>1, <2>3
<1>3. CASE GivesUp
  <2>1. pend \in Keys /\ holds = {pend} /\ holds' = {} /\ Offer(Ups({pend})) /\ UNCHANGED down
    BY <1>0, <1>3 DEF GivesUp, ClosedLoop, inputVars
  <2>2. Ups({pend}) = <<Up(pend)>> /\ Ups({pend}) \in Seq(Event)
    BY <2>1, UpsOK DEF Up
  <2>3. PressesEnd' /\ KeysEnd'
    BY <2>1, <2>2, OfferKeeps DEF Up, Down
  <2> QED BY <1>1, <2>3
<1>4. CASE Interrupts
  <2>1. pend \in Keys /\ holds = {pend} /\ holds' = {} /\ Offer(Ups({pend})) /\ UNCHANGED down
    <3>1. pend \in Moves /\ pend \in Keys /\ holds = {pend}
      BY <1>0, <1>4 DEF Interrupts, ClosedLoop
    <3>2. holds \cap Moves = {pend} /\ holds \ Moves = {}
      BY <3>1
    <3> QED BY <1>4, <3>1, <3>2 DEF Interrupts, inputVars
  <2>2. Ups({pend}) = <<Up(pend)>> /\ Ups({pend}) \in Seq(Event)
    BY <2>1, UpsOK DEF Up
  <2>3. PressesEnd' /\ KeysEnd'
    BY <2>1, <2>2, OfferKeeps DEF Up, Down
  <2> QED BY <1>1, <2>3
<1>5. CASE Starts
  <2>1. PICK k \in Moves \cup {"fire"} \cup {s \in Stores : Heard.tank.stock[s] > 0} :
          holds' = holds \cup {k} /\ Offer(OneEvent("down", k))
    BY <1>5 DEF Starts
  <2>2. k \in Keys /\ UNCHANGED down
    BY <1>5, PlayAssumption DEF Keys, Starts, inputVars
  <2>3. OneEvent("down", k) = <<Down(k)>> /\ OneEvent("down", k) \in Seq(Event)
    BY <2>2, MessageOK DEF OneEvent, Down
  <2>4. \A i \in 1 .. 1, x \in Keys : Down(k) = Down(x) => x \in holds'
    BY <2>1 DEF Down
  <2>5. PressesEnd' /\ KeysEnd'
    BY <2>1, <2>2, <2>3, <2>4, OfferKeeps DEF Down
  <2> QED BY <1>1, <2>5
<1>6. CASE OnGameOver
  <2>1. Offer(OneEvent("again", None)) /\ UNCHANGED <<down, holds>>
    BY <1>6 DEF OnGameOver, inputVars
  <2>2. /\ OneEvent("again", None) \in Seq(Event) /\ Len(OneEvent("again", None)) = 1
        /\ OneEvent("again", None)[1].act = "again"
    BY MessageOK DEF OneEvent
  <2>3. \A i \in 1 .. Len(OneEvent("again", None)), k \in Keys :
          OneEvent("again", None)[i] # Down(k)
    BY <2>2 DEF Down
  <2>4. PressesEnd' /\ KeysEnd'
    BY <2>1, <2>2, <2>3, OfferKeeps
  <2> QED BY <1>1, <2>4
<1>7. CASE Waits \/ Idles \/ OnPlayAgainAck \/ Exits \/ UnknownType
  <2>1. UNCHANGED <<out, down, holds>>
    BY <1>7 DEF Waits, Idles, OnPlayAgainAck, Exits, UnknownType, inputVars, botVars
  <2>2. PressesEnd' /\ KeysEnd'
    BY <2>1 DEF PressesEnd, KeysEnd, Behind
  <2> QED BY <1>1, <2>2
<1> QED BY <1>1, <1>2, <1>3, <1>4, <1>5, <1>6, <1>7 DEF Receive, Decide

\* When the server takes an event the others move up.
LEMMA TakesKeeps ==
  ASSUME TypeOK, PressesEnd, NEW acts, Takes(acts), UNCHANGED holds,
         \A k \in down' : k \in holds \/ Behind(1, k)
  PROVE  PressesEnd' /\ KeysEnd'
<1>1. /\ Len(out) \in Nat /\ Len(out) # 0 /\ Len(out') = Len(out) - 1
      /\ \A i \in 1 .. Len(out') : out'[i] = out[i + 1]
  BY TakesOK, EmptySeq DEF TypeOK
<1>2. \A i \in 0 .. Len(out') : \A k : Behind(i + 1, k) => Behind(i, k)'
  <2> SUFFICES ASSUME NEW i \in 0 .. Len(out'), NEW k, Behind(i + 1, k)
               PROVE  \E j \in i + 1 .. Len(out') : out'[j] = Up(k)
    BY DEF Behind
  <2>1. PICK j \in i + 2 .. Len(out) : out[j] = Up(k)
    BY DEF Behind
  <2>2. j - 1 \in i + 1 .. Len(out') /\ out'[j - 1] = out[j]
    BY <1>1
  <2> QED BY <2>1, <2>2
<1>3. PressesEnd'
  <2> SUFFICES ASSUME NEW k \in Keys, NEW i \in 1 .. Len(out'), out'[i] = Down(k), k \notin holds
               PROVE  Behind(i, k)'
    BY DEF PressesEnd, Down
  <2>1. i + 1 \in 1 .. Len(out) /\ out[i + 1] = Down(k)
    BY <1>1
  <2>2. Behind(i + 1, k)
    BY <2>1 DEF PressesEnd
  <2> QED BY <1>1, <1>2, <2>2
<1>4. KeysEnd'
  <2> SUFFICES ASSUME NEW k \in down', k \notin holds PROVE Behind(0, k)'
    BY DEF KeysEnd
  <2> QED BY <1>1, <1>2
<1> QED BY <1>3, <1>4

LEMMA InputTogether ==
  ASSUME TypeOK, losses = 0, losses' = 0, Together, HandleInput
  PROVE  Together'
<1> USE DEF Together
<1>1. Takes({"down", "up", "again"}) /\ UNCHANGED <<holds, bot>>
  BY DEF HandleInput, Rejected, KeyDown, KeyUp, HandlePlayAgain, Takes, botVars
<1>2. /\ out # <<>> /\ Head(out) = out[1] /\ Len(out) \in Nat /\ 1 \in 1 .. Len(out)
      /\ down \subseteq Keys
  BY <1>1, TakesOK, EmptySeq DEF TypeOK
<1>3. \A k \in down : k \in holds \/ out[1] = Up(k) \/ Behind(1, k)
  <2> SUFFICES ASSUME NEW k \in down, k \notin holds, out[1] # Up(k) PROVE Behind(1, k)
    OBVIOUS
  <2>1. PICK j \in 1 .. Len(out) : out[j] = Up(k)
    BY DEF KeysEnd, Behind
  <2>2. j # 1
    BY <2>1
  <2> QED BY <1>2, <2>1, <2>2 DEF Behind
<1>4. CASE KeyDown
  <2>1. out[1].act = "down" /\ out[1] \in Event /\ down' = down \cup {out[1].key}
    BY <1>2, <1>4, TakesOK DEF KeyDown, Key
  <2>2. out[1] = Down(out[1].key) /\ out[1].key \in Keys /\ \A k : out[1] # Up(k)
    BY <2>1 DEF Event, Up, Down
  <2>3. \A k \in down' : k \in holds \/ Behind(1, k)
    BY <1>2, <1>3, <2>1, <2>2 DEF PressesEnd
  <2>4. UNCHANGED <<back, bot>>
    BY <1>4 DEF KeyDown, botVars
  <2> QED BY <1>1, <2>3, <2>4, TakesKeeps DEF StartsBehind
<1>5. CASE KeyUp
  <2>1. down' = down \ {out[1].key}
    BY <1>2, <1>5 DEF KeyUp, Key
  <2>2. \A k : out[1] = Up(k) => out[1].key = k
    BY DEF Up
  <2>3. \A k \in down' : k \in down /\ out[1] # Up(k)
    BY <2>1, <2>2
  <2>4. \A k \in down' : k \in holds \/ Behind(1, k)
    BY <1>3, <2>3
  <2>5. UNCHANGED <<back, bot>>
    BY <1>5 DEF KeyUp, botVars
  <2> QED BY <1>1, <2>4, <2>5, TakesKeeps DEF StartsBehind
<1>6. CASE HandlePlayAgain
  <2>1. out[1].act = "again" /\ UNCHANGED down
    BY <1>2, <1>6, TakesOK DEF HandlePlayAgain, inputVars
  <2>2. \A k : out[1] # Up(k)
    BY <2>1 DEF Up
  <2>6. \A k \in down' : k \in holds \/ Behind(1, k)
    BY <1>3, <2>1, <2>2
  <2> DEFINE m == IF away THEN "error" ELSE "ack"
  <2>3. Send(<<[kind |-> m]>>) /\ m \in Told /\ m # "start"
    BY <1>6 DEF HandlePlayAgain, Told
  <2>4. Harmless(<<[kind |-> m]>>)
    BY <2>3, HarmlessOK
  <2> HIDE DEF m
  <2>5. StartsBehind'
    BY <1>1, <2>3, <2>4, SendKeeps
  <2> QED BY <1>1, <2>5, <2>6, TakesKeeps
<1>7. ~Rejected
  BY DEF Rejected
<1> QED BY <1>4, <1>5, <1>6, <1>7 DEF HandleInput

LEMMA ServerTogether ==
  ASSUME TypeOK, losses = 0, losses' = 0, Together, Loop \/ Others
  PROVE  Together'
<1> USE DEF Together
<1>1. UNCHANGED <<out, down, holds, bot>>
  BY BotAlone DEF Loop, Others, StepTick, BroadcastTick, EmitGameOver, MatchTimeout,
       StopsItself, Shutdown, OpponentDisconnects, SpectatorLeaves, Rematch, LateGameStart,
       inputVars, botVars
<1>2. PressesEnd' /\ KeysEnd'
  BY <1>1 DEF PressesEnd, KeysEnd, Behind
<1>3. ~LateGameStart
  BY DEF LateGameStart
<1>4. CASE StepTick \/ MatchTimeout \/ StopsItself
  BY <1>1, <1>2, <1>4 DEF StepTick, MatchTimeout, StopsItself, StartsBehind
<1>5. CASE BroadcastTick
  <2> DEFINE m == [kind |-> "tick", dt |-> skipped + 1, tank |-> tank]
  <2>1. skipped + 1 \in 1 .. MoveAck /\ tank \in Tank
    BY PlayAssumption DEF TypeOK
  <2>2. Send(<<m>>) /\ Harmless(<<m>>)
    BY <1>5, <2>1, HarmlessOK DEF BroadcastTick
  <2> HIDE DEF m
  <2>3. StartsBehind'
    BY <1>1, <2>2, SendKeeps
  <2> QED BY <1>2, <2>3
<1>6. CASE EmitGameOver \/ Shutdown \/ SpectatorLeaves
  <2>1. PICK kind \in {"over", "left", "spectator_left"} : Send(<<[kind |-> kind]>>)
    BY <1>6 DEF EmitGameOver, Shutdown, SpectatorLeaves
  <2>2. Harmless(<<[kind |-> kind]>>)
    BY HarmlessOK DEF Told, Untold
  <2>3. StartsBehind'
    BY <1>1, <2>1, <2>2, SendKeeps
  <2> QED BY <1>2, <2>3
<1>7. CASE OpponentDisconnects
  <2>1. /\ Send(<<[kind |-> "player_disconnected"], [kind |-> "left"]>>)
        /\ Harmless(<<[kind |-> "player_disconnected"], [kind |-> "left"]>>)
    BY <1>7, HarmlessOK DEF OpponentDisconnects
  <2>2. StartsBehind'
    BY <1>1, <2>1, SendKeeps
  <2> QED BY <1>2, <2>2
<1>8. CASE Rematch
  <2>1. /\ Send(<<[kind |-> "rematch"], [kind |-> "start"]>>)
        /\ Harmless(<<[kind |-> "rematch"], [kind |-> "start"]>>)
    BY <1>8, HarmlessOK DEF Rematch
  <2>2. StartsBehind'
    BY <1>1, <2>1, SendKeeps
  <2> QED BY <1>2, <2>2
<1> QED BY <1>3, <1>4, <1>5, <1>6, <1>7, <1>8 DEF Loop, Others

\* Losses are counted and not forgotten.
LEMMA LossesGrow == ASSUME TypeOK, [Next]_vars, losses' = 0 PROVE losses = 0
<1>1. losses \in Nat /\ losses \in 0 .. MaxLosses
  BY PlayAssumption DEF TypeOK
<1>2. CASE Receive
  <2>1. CASE Acknowledged \/ GivesUp \/ Interrupts \/ Starts \/ OnGameOver
    <3>1. PICK evs \in Seq(Event) : Offer(evs)
      <4>1. CASE Acknowledged \/ GivesUp \/ Interrupts
        <5>1. /\ holds \cap {pend} \in SUBSET Keys /\ holds \in SUBSET Keys
              /\ holds \cap Moves \in SUBSET Keys
          BY DEF TypeOK
        <5> QED BY <4>1, <5>1, UpsOK DEF Acknowledged, GivesUp, Interrupts
      <4>2. CASE Starts
        <5>1. PICK k \in Moves \cup {"fire"} \cup {s \in Stores : Heard.tank.stock[s] > 0} :
                Offer(OneEvent("down", k))
          BY <4>2 DEF Starts
        <5>2. k \in Keys
          BY PlayAssumption DEF Keys
        <5> QED BY <5>1, <5>2, MessageOK
      <4>3. CASE OnGameOver
        BY <4>3, MessageOK DEF OnGameOver
      <4> QED BY <2>1, <4>1, <4>2, <4>3
    <3>2. /\ Len(out') <= Len(out) + Len(evs) /\ Len(out) \in Nat /\ Len(evs) \in Nat
          /\ losses' = losses + Len(out) + Len(evs) - Len(out') /\ Len(out') \in Nat
      BY <3>1, OfferOK DEF TypeOK
    <3> QED BY <1>1, <3>2
  <2>2. CASE Waits \/ Idles \/ OnGameStart \/ OnPlayAgainAck \/ Exits \/ UnknownType
    BY <2>2 DEF Waits, Idles, OnGameStart, OnPlayAgainAck, Exits, UnknownType
  <2> QED BY <1>2, <2>1, <2>2 DEF Receive, Decide
<1>3. CASE Loop \/ Others \/ HandleInput
  BY <1>1, <1>3 DEF Loop, Others, HandleInput, StepTick, BroadcastTick, EmitGameOver,
       MatchTimeout, StopsItself, Shutdown, OpponentDisconnects, SpectatorLeaves, Rematch,
       LateGameStart, Rejected, KeyDown, KeyUp, HandlePlayAgain
<1>4. CASE UNCHANGED vars
  BY <1>4 DEF vars
<1> QED BY <1>2, <1>3, <1>4 DEF Next

LEMMA NextKeys == ASSUME TypeOK, ClosedLoop, KeysInv, [Next]_vars PROVE KeysInv'
<1> SUFFICES ASSUME losses' = 0 PROVE Together'
  BY DEF KeysInv
<1>1. losses = 0 /\ Together
  BY LossesGrow DEF KeysInv
<1>2. CASE UNCHANGED vars
  BY <1>1, <1>2 DEF vars, inputVars, botVars, Together, PressesEnd, KeysEnd, StartsBehind, Behind
<1> QED BY <1>1, <1>2, ReceiveTogether, InputTogether, ServerTogether DEF Next

\* No key is stuck as long as nothing was dropped and no game_start came late.
THEOREM KeysTogether == Spec => []NoKeyStuck
<1>1. Init => TypeOK /\ ClosedLoop /\ KeysInv
  <2>1. Init => KeysInv
    BY DEF Init, KeysInv, Together, PressesEnd, KeysEnd, StartsBehind
  <2> QED BY <2>1, InitType DEF Init, ClosedLoop
<1>2. TypeOK /\ ClosedLoop /\ KeysInv /\ [Next]_vars => (TypeOK /\ ClosedLoop /\ KeysInv)'
  BY NextType, NextLoop, NextKeys
<1>3. TypeOK /\ KeysInv => NoKeyStuck
  <2>1. ASSUME TypeOK, KeysEnd, NEW k \in down, k \notin holds
        PROVE  \E i \in 1 .. Len(out) : out[i] = [act |-> "up", key |-> k]
    <3>1. PICK i \in 0 + 1 .. Len(out) : out[i] = Up(k)
      BY <2>1 DEF KeysEnd, Behind
    <3> QED BY <3>1 DEF Up
  <2> QED BY <2>1 DEF KeysInv, Together, NoKeyStuck
<1> QED BY <1>1, <1>2, <1>3, PTL DEF Spec

----------------------------------------------------------------------------
(* Nothing of the match follows its end.                                   *)

NoOver == bot # "asking" /\ \A i \in 1 .. Len(back) : back[i].kind # "over"
(* As long as the loop has something to announce, or may yet step, the bot *)
(* has not heard of the end; and before the end is announced the match has *)
(* left its state "Running", so that the loop does not step again.         *)
NotOver == mstate = "Running" \/ phase # "wait" => NoOver
Ending == phase \in {"last", "over"} => mstate # "Running"
OverInv == OverLast /\ NotOver /\ Ending

\* Whatever comes behind messages without a game_over keeps their order.
LEMMA SendOver ==
  ASSUME TypeOK, OverLast, UNCHANGED bot, NEW m, <<m>> \in Seq(Message), Send(<<m>>),
         OfMatch(m) => NoOver
  PROVE  OverLast' /\ (NoOver /\ m.kind # "over" => NoOver')
<1>1. /\ Len(back) <= Len(back') /\ Len(back') <= Len(back) + 1
      /\ Len(back) \in Nat /\ Len(back') \in Nat
      /\ \A i \in 1 .. Len(back') :
           back'[i] = IF i <= Len(back) THEN back[i] ELSE <<m>>[i - Len(back)]
  <2> DEFINE ms == <<m>>
  <2>1. ms \in Seq(Message) /\ Len(ms) = 1 /\ Send(ms)
    OBVIOUS
  <2> HIDE DEF ms
  <2>2. /\ Len(back) <= Len(back') /\ Len(back') <= Len(back) + Len(ms)
        /\ Len(back) \in Nat /\ Len(back') \in Nat
        /\ \A i \in 1 .. Len(back') :
             back'[i] = IF i <= Len(back) THEN back[i] ELSE ms[i - Len(back)]
    BY <2>1, SendLen
  <2> QED BY <2>1, <2>2 DEF ms
<1>2. \A i \in 1 .. Len(back') :
        \/ i \in 1 .. Len(back) /\ back'[i] = back[i]
        \/ i = Len(back) + 1 /\ back'[i] = m
  <2> TAKE i \in 1 .. Len(back')
  <2>1. CASE i <= Len(back)
    BY <2>1, <1>1
  <2>2. CASE i > Len(back)
    <3>1. i = Len(back) + 1 /\ i - Len(back) = 1
      BY <2>2, <1>1
    <3> QED BY <3>1, <1>1
  <2> QED BY <2>1, <2>2, <1>1
<1>3. OverLast'
  <2> SUFFICES ASSUME NEW i \in 1 .. Len(back'), OfMatch(back'[i])
               PROVE  bot # "asking" /\ \A j \in 1 .. i - 1 : back'[j].kind # "over"
    BY DEF OverLast, OfMatch
  <2>1. \A j \in 1 .. i - 1 : j \in 1 .. Len(back) /\ back'[j] = back[j]
    BY <1>1
  <2>2. CASE i \in 1 .. Len(back) /\ back'[i] = back[i]
    BY <2>1, <2>2 DEF OverLast
  <2>3. CASE back'[i] = m
    BY <2>1, <2>3 DEF NoOver
  <2> QED BY <1>2, <2>2, <2>3
<1>4. NoOver /\ m.kind # "over" => NoOver'
  BY <1>2 DEF NoOver
<1> QED BY <1>3, <1>4

\* Two messages that are not of the match change nothing of it.
LEMMA SendTwoOver ==
  ASSUME TypeOK, OverLast, UNCHANGED bot, NEW k \in Told \cup Untold, NEW l \in Told \cup Untold,
         k # "over", l # "over", Send(<<[kind |-> k], [kind |-> l]>>)
  PROVE  OverLast' /\ (NoOver => NoOver')
<1> DEFINE ms == <<[kind |-> k], [kind |-> l]>>
<1>1. ms \in Seq(Message) /\ Len(ms) = 2
  BY MessageOK
<1>2. \A i \in 1 .. 2 : ms[i].kind \in {k, l}
  OBVIOUS
<1>3. Send(ms)
  OBVIOUS
<1> HIDE DEF ms
<1>4. /\ Len(back) <= Len(back') /\ Len(back') <= Len(back) + 2
      /\ Len(back) \in Nat /\ Len(back') \in Nat
      /\ \A i \in 1 .. Len(back') :
           back'[i] = IF i <= Len(back) THEN back[i] ELSE ms[i - Len(back)]
  <2>1. /\ Len(back) <= Len(back') /\ Len(back') <= Len(back) + Len(ms)
        /\ Len(back) \in Nat /\ Len(back') \in Nat
        /\ \A i \in 1 .. Len(back') :
             back'[i] = IF i <= Len(back) THEN back[i] ELSE ms[i - Len(back)]
    BY <1>1, <1>3, SendLen
  <2> QED BY <1>1, <2>1
<1>5. \A i \in 1 .. Len(back') :
        \/ i \in 1 .. Len(back) /\ back'[i] = back[i]
        \/ i > Len(back) /\ back'[i].kind \in {k, l}
  <2> TAKE i \in 1 .. Len(back')
  <2>1. CASE i <= Len(back)
    BY <2>1, <1>4
  <2>2. CASE i > Len(back)
    <3>1. i - Len(back) \in 1 .. 2
      BY <2>2, <1>4
    <3> QED BY <2>2, <3>1, <1>2, <1>4
  <2> QED BY <2>1, <2>2, <1>4
<1>6. k \notin {"tick", "over"} /\ l \notin {"tick", "over"}
  BY DEF Told, Untold
<1>7. OverLast'
  <2> SUFFICES ASSUME NEW i \in 1 .. Len(back'), OfMatch(back'[i])
               PROVE  bot # "asking" /\ \A j \in 1 .. i - 1 : back'[j].kind # "over"
    BY DEF OverLast, OfMatch
  <2>1. i \in 1 .. Len(back) /\ back'[i] = back[i]
    BY <1>5, <1>6 DEF OfMatch
  <2>2. \A j \in 1 .. i - 1 : j \in 1 .. Len(back') /\ j <= Len(back)
    BY <1>4, <2>1
  <2>3. \A j \in 1 .. i - 1 : back'[j] = back[j]
    BY <1>4, <2>2
  <2> QED BY <2>1, <2>3 DEF OverLast
<1>8. NoOver => NoOver'
  BY <1>5, <1>6 DEF NoOver
<1> QED BY <1>7, <1>8

\* What the bot takes from the front leaves the order of the rest.
LEMMA HearsOver ==
  ASSUME TypeOK, OverInv, NEW kind, Hears(kind), UNCHANGED <<mstate, phase>>,
         bot' # "asking" \/ bot' = bot \/ kind = "over"
  PROVE  OverInv'
<1>1. /\ back[1].kind = kind /\ Len(back) \in Nat /\ back # <<>> /\ Len(back') = Len(back) - 1
      /\ \A i \in 1 .. Len(back') : back'[i] = back[i + 1]
  BY HearsOK
<1>2. 1 \in 1 .. Len(back)
  BY <1>1, EmptySeq DEF TypeOK
<1>3. \A i \in 1 .. Len(back') : i + 1 \in 1 .. Len(back) /\ back'[i] = back[i + 1]
  BY <1>1
<1>4. OverLast'
  <2> SUFFICES ASSUME NEW i \in 1 .. Len(back'), OfMatch(back'[i])
               PROVE  bot' # "asking" /\ \A j \in 1 .. i - 1 : back'[j].kind # "over"
    BY DEF OverLast, OfMatch
  <2>1. OfMatch(back[i + 1]) /\ i + 1 \in 1 .. Len(back)
    BY <1>3
  <2>2. bot # "asking" /\ \A j \in 1 .. i : back[j].kind # "over"
    BY <2>1 DEF OverInv, OverLast
  <2>3. kind # "over"
    BY <1>1, <2>2
  <2>4. \A j \in 1 .. i - 1 : j \in 1 .. Len(back') /\ j + 1 \in 1 .. i
    BY <1>1
  <2>5. \A j \in 1 .. i - 1 : back'[j].kind # "over"
    BY <1>3, <2>2, <2>4
  <2> QED BY <2>2, <2>3, <2>5
<1>5. NotOver'
  <2> SUFFICES ASSUME NoOver PROVE NoOver'
    BY DEF OverInv, NotOver
  <2>1. kind # "over" /\ bot # "asking"
    BY <1>1, <1>2 DEF NoOver
  <2> QED BY <1>3, <2>1 DEF NoOver
<1>6. Ending'
  BY DEF OverInv, Ending
<1> QED BY <1>4, <1>5, <1>6 DEF OverInv

LEMMA LoopOver == ASSUME TypeOK, OverInv, Loop PROVE OverInv'
<1> USE DEF OverInv
<1>1. CASE StepTick
  <2>1. NoOver /\ UNCHANGED <<back, bot>> /\ Ending'
    BY <1>1 DEF StepTick, NotOver, Ending, botVars
  <2> QED BY <2>1 DEF OverLast, NotOver, NoOver
<1>2. CASE BroadcastTick
  <2> DEFINE m == [kind |-> "tick", dt |-> skipped + 1, tank |-> tank]
  <2>1. skipped + 1 \in 1 .. MoveAck /\ tank \in Tank
    BY PlayAssumption DEF TypeOK
  <2>2. Send(<<m>>) /\ <<m>> \in Seq(Message) /\ m.kind = "tick"
    BY <1>2, <2>1, MessageOK DEF BroadcastTick
  <2> HIDE DEF m
  <2>3. NoOver /\ UNCHANGED bot
    BY <1>2 DEF BroadcastTick, NotOver, botVars
  <2>4. OverLast' /\ NoOver'
    BY <2>2, <2>3, SendOver
  <2>5. Ending'
    BY <1>2 DEF BroadcastTick, Ending
  <2> QED BY <2>4, <2>5 DEF NotOver
<1>3. CASE EmitGameOver
  <2> DEFINE m == [kind |-> "over"]
  <2>1. Send(<<m>>) /\ <<m>> \in Seq(Message)
    BY <1>3, MessageOK DEF EmitGameOver, Told
  <2> HIDE DEF m
  <2>2. NoOver /\ UNCHANGED bot
    BY <1>3 DEF EmitGameOver, NotOver, botVars
  <2>3. OverLast'
    BY <2>1, <2>2, SendOver
  <2>4. mstate' # "Running" /\ phase' = "wait"
    BY <1>3 DEF EmitGameOver, Ending
  <2> QED BY <2>3, <2>4 DEF NotOver, Ending
<1>4. CASE MatchTimeout \/ StopsItself
  <2>1. UNCHANGED <<back, bot>> /\ NoOver /\ Ending'
    BY <1>4 DEF MatchTimeout, StopsItself, NotOver, Ending, botVars
  <2> QED BY <2>1 DEF OverLast, NotOver, NoOver
<1> QED BY <1>1, <1>2, <1>3, <1>4 DEF Loop

LEMMA OthersOver == ASSUME TypeOK, OverInv, Others PROVE OverInv'
<1> USE DEF OverInv
<1>1. UNCHANGED <<phase, bot>> /\ mstate' \in {mstate, "Stopped", "Replaced"}
  BY DEF Others, Shutdown, OpponentDisconnects, SpectatorLeaves, Rematch, LateGameStart,
         matchVars, botVars
<1>2. OverLast' /\ (NoOver => NoOver')
  <2>1. CASE Shutdown \/ SpectatorLeaves \/ LateGameStart
    <3>1. PICK kind \in {"left", "spectator_left", "start"} : Send(<<[kind |-> kind]>>)
      BY <2>1 DEF Shutdown, SpectatorLeaves, LateGameStart
    <3> DEFINE m == [kind |-> kind]
    <3>2. Send(<<m>>) /\ <<m>> \in Seq(Message) /\ m.kind \notin {"tick", "over"}
      BY <3>1, MessageOK DEF Told, Untold
    <3> HIDE DEF m
    <3> QED BY <1>1, <3>2, SendOver DEF OfMatch
  <2>2. CASE OpponentDisconnects \/ Rematch
    BY <1>1, <2>2, SendTwoOver DEF OpponentDisconnects, Rematch, Told, Untold
  <2> QED BY <2>1, <2>2 DEF Others
<1> QED BY <1>1, <1>2 DEF NotOver, Ending

LEMMA ReceiveOver == ASSUME TypeOK, OverInv, Receive PROVE OverInv'
<1>1. UNCHANGED <<mstate, phase>>
  BY DEF Receive, Decide, Acknowledged, GivesUp, Interrupts, Waits, Starts, Idles,
         OnGameStart, OnGameOver, OnPlayAgainAck, Exits, UnknownType, matchVars
<1>2. CASE OnGameOver
  BY <1>1, <1>2, HearsOver DEF OnGameOver
<1>3. CASE Exits \/ UnknownType
  BY <1>1, <1>3, HearsOver DEF Exits, UnknownType
<1>4. CASE Decide \/ OnGameStart \/ OnPlayAgainAck
  <2>1. UNCHANGED bot
    BY <1>4 DEF Decide, Acknowledged, GivesUp, Interrupts, Waits, Starts, Idles,
                OnGameStart, OnPlayAgainAck, botVars
  <2>2. \E kind : Hears(kind)
    BY <1>4 DEF Decide, Acknowledged, GivesUp, Interrupts, Waits, Starts, Idles,
                OnGameStart, OnPlayAgainAck
  <2> QED BY <1>1, <2>1, <2>2, HearsOver
<1> QED BY <1>2, <1>3, <1>4 DEF Receive

LEMMA InputOver == ASSUME TypeOK, OverInv, HandleInput PROVE OverInv'
<1> USE DEF OverInv
<1>1. UNCHANGED <<mstate, phase, bot>>
  BY DEF HandleInput, Rejected, KeyDown, KeyUp, HandlePlayAgain, matchVars, botVars
<1>2. OverLast' /\ (NoOver => NoOver')
  <2>1. CASE Rejected \/ KeyDown \/ KeyUp
    BY <1>1, <2>1 DEF Rejected, KeyDown, KeyUp, OverLast, NoOver
  <2>2. CASE HandlePlayAgain
    <3>1. PICK kind \in {"error", "ack"} : Send(<<[kind |-> kind]>>)
      BY <2>2 DEF HandlePlayAgain
    <3> DEFINE m == [kind |-> kind]
    <3>2. Send(<<m>>) /\ <<m>> \in Seq(Message) /\ m.kind \notin {"tick", "over"}
      BY <3>1, MessageOK DEF Told, Untold
    <3> HIDE DEF m
    <3> QED BY <1>1, <3>2, SendOver DEF OfMatch
  <2> QED BY <2>1, <2>2 DEF HandleInput
<1> QED BY <1>1, <1>2 DEF NotOver, Ending

LEMMA NextOver == ASSUME TypeOK, OverInv, [Next]_vars PROVE OverInv'
<1>1. CASE UNCHANGED vars
  BY <1>1 DEF vars, matchVars, botVars, OverInv, OverLast, NotOver, Ending, NoOver
<1> QED BY <1>1, LoopOver, OthersOver, ReceiveOver, InputOver DEF Next

\* No tick and no second game_over follows a game_over, whoever stops the match.
THEOREM OverIsLast == Spec => []OverLast
<1>1. Init => TypeOK /\ OverInv
  BY InitType DEF Init, OverInv, OverLast, NotOver, Ending, NoOver
<1>2. TypeOK /\ OverInv /\ [Next]_vars => (TypeOK /\ OverInv)'
  BY NextType, NextOver
<1>3. OverInv => OverLast
  BY DEF OverInv
<1> QED BY <1>1, <1>2, <1>3, PTL DEF Spec
============================================================================
