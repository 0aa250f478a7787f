----------------------------- MODULE LobbyProofs ---------------------------
(***************************************************************************)
(* What TLAPS proves of Lobby: its types, and with them that the room's    *)
(* event stream tells the page no event twice, for any number of polls.    *)
(*                                                                         *)
(* That is not inductive: the stream looks at what it has seen, not at     *)
(* what it has sent.  StreamKnows says that a join it has sent is one it   *)
(* has seen, unless the room has closed since, and that the start of the   *)
(* match likewise; RoomKnown and SeenIsTrue say that what it has seen is   *)
(* still so, for a closed room is never filled and a match never unstarts. *)
(***************************************************************************)
EXTENDS Lobby, TLAPS, FiniteSetTheorems

Joins == {"player_joined", "bot_joined"}

\* The event has been sent and the page has not heard it.
Pending(e) == \E i \in 1..Len(sent) : sent[i] = e

RoomKnown ==
  /\ here => state \in {"ready", "playing"}
  /\ hub => state # "none"

SeenIsTrue ==
  /\ lastPlayerCount = 2 => here \/ state = "closed"
  /\ lastState = "playing" => state = "playing"

StreamKnows ==
  /\ \A e \in Joins : Pending(e) => lastPlayerCount = 2 \/ state = "closed"
  /\ Pending("game_starting") => lastState = "playing"
  /\ Pending("room_expired") => ~serving

LobbyInv == TypeOK /\ RoomKnown /\ SeenIsTrue /\ StreamKnows

\* Nothing is pending in an empty stream, and hearing one event leaves the others.
LEMMA Hearing ==
  ASSUME TypeOK
  PROVE  /\ sent' = <<>> => /\ sent' \in Seq(Events)
                            /\ \A i, j \in 1..Len(sent') : sent'[i] = sent'[j] => i = j
                            /\ \A e : ~Pending(e)'
         /\ sent # <<>> /\ sent' = Tail(sent) =>
              /\ sent' \in Seq(Events)
              /\ \A i, j \in 1..Len(sent') : sent'[i] = sent'[j] => i = j
              /\ \A e : Pending(e)' => Pending(e)
<1>1. sent \in Seq(Events)
  BY DEF TypeOK
<1>2. ASSUME sent' = <<>>
      PROVE  /\ sent' \in Seq(Events)
             /\ \A i, j \in 1..Len(sent') : sent'[i] = sent'[j] => i = j
             /\ \A e : ~Pending(e)'
  BY <1>2 DEF Pending
<1>3. ASSUME sent # <<>>, sent' = Tail(sent)
      PROVE  /\ sent' \in Seq(Events)
             /\ \A i, j \in 1..Len(sent') : sent'[i] = sent'[j] => i = j
             /\ \A e : Pending(e)' => Pending(e)
  <2>1. /\ sent' \in Seq(Events) /\ Len(sent') = Len(sent) - 1
        /\ \A i \in 1..Len(sent') : i + 1 \in 1..Len(sent) /\ sent'[i] = sent[i + 1]
    BY <1>1, <1>3
  <2>2. \A i, j \in 1..Len(sent') : sent'[i] = sent'[j] => i = j
    BY <1>1, <2>1 DEF TypeOK
  <2>3. \A e : Pending(e)' => Pending(e)
    BY <2>1 DEF Pending
  <2> QED BY <2>1, <2>2, <2>3
<1> QED BY <1>2, <1>3

\* An event that is not pending may be sent.
LEMMA Telling ==
  ASSUME NEW s \in Seq(Events), NEW e \in Events,
         \A i, j \in 1..Len(s) : s[i] = s[j] => i = j,
         \A i \in 1..Len(s) : s[i] # e
  PROVE  /\ Append(s, e) \in Seq(Events) /\ Len(Append(s, e)) = Len(s) + 1
         /\ \A i \in 1..Len(s) : Append(s, e)[i] = s[i]
         /\ Append(s, e)[Len(s) + 1] = e
         /\ \A i, j \in 1..Len(Append(s, e)) : Append(s, e)[i] = Append(s, e)[j] => i = j
<1> DEFINE t == Append(s, e)
<1>1. /\ t \in Seq(Events) /\ Len(t) = Len(s) + 1 /\ Len(s) \in Nat
      /\ \A i \in 1..Len(s) : t[i] = s[i]
      /\ t[Len(s) + 1] = e
  OBVIOUS
<1> HIDE DEF t
<1>2. ASSUME NEW i \in 1..Len(t), NEW j \in 1..Len(t), t[i] = t[j] PROVE i = j
  <2>1. /\ i \in 1..Len(s) \/ i = Len(s) + 1
        /\ j \in 1..Len(s) \/ j = Len(s) + 1
    BY <1>1
  <2> QED BY <1>1, <1>2, <2>1
<1> QED BY <1>1, <1>2 DEF t

\* Before the page creates a room, nothing is said about it.
LEMMA InitLobby == Init => LobbyInv
<1> SUFFICES ASSUME Init PROVE LobbyInv
  OBVIOUS
<1>1. TypeOK
  <2>1. 0 \in 0..MaxPolls
    BY MaxPollsAssumption
  <2>2. sent \in Seq(Events) /\ Len(sent) = 0
    BY DEF Init
  <2>3. \A i, j \in 1..Len(sent) : sent[i] = sent[j] => i = j
    BY <2>2
  <2>4. {hub, here, janitor, token, serving, roomCode, leaving} \subseteq BOOLEAN
    BY DEF Init
  <2> QED BY <2>1, <2>2, <2>3, <2>4 DEF Init, TypeOK, States
<1>2. \A e : ~Pending(e)
  BY DEF Init, Pending
<1> QED BY <1>1, <1>2 DEF Init, LobbyInv, RoomKnown, SeenIsTrue, StreamKnows

\* A change to the room leaves the stream's memory of it true: a room that is full
\* empties by closing only, and a closed room and a match stay so.
LEMMA RoomStepOK ==
  ASSUME LobbyInv,
         \/ \E ai \in BOOLEAN : PostRoom(ai)
         \/ \E who \in {"human", "bot"} : OpponentJoins(who)
         \/ OpponentLeaves \/ MatchStarts \/ JanitorReads \/ JanitorDeletes \/ TokenExpires
  PROVE  LobbyInv'
<1> USE DEF LobbyInv
<1>1. /\ UNCHANGED <<streamVars, pollVars>>
      /\ UNCHANGED <<roomCode, link, leaving>> /\ screen' \in {screen, "creating"}
  BY DEF PostRoom, OpponentJoins, OpponentLeaves, MatchStarts, JanitorReads, JanitorDeletes,
         TokenExpires, pageVars
<1>2. /\ {hub', here', janitor', token'} \subseteq BOOLEAN /\ state' \in States
      /\ opponent' \in {"none", "human", "bot"}
  BY DEF PostRoom, OpponentJoins, OpponentLeaves, MatchStarts, JanitorReads, JanitorDeletes,
         TokenExpires, TypeOK, States
<1>3. TypeOK'
  BY <1>1, <1>2 DEF TypeOK, streamVars, pollVars
<1>4. /\ RoomKnown'
      /\ here => here' \/ state' = "closed"
      /\ state = "closed" => state' = "closed"
      /\ state = "playing" => state' = "playing"
  BY DEF PostRoom, OpponentJoins, OpponentLeaves, MatchStarts, JanitorReads, JanitorDeletes,
         TokenExpires, TypeOK, RoomKnown
<1>5. SeenIsTrue'
  BY <1>1, <1>4 DEF SeenIsTrue, streamVars
<1>6. StreamKnows'
  BY <1>1, <1>4 DEF StreamKnows, Pending, streamVars
<1> QED BY <1>3, <1>4, <1>5, <1>6

\* The stream's look at the room tells what it had not seen, which is nothing that
\* is still pending.
LEMMA StreamTickOK ==
  ASSUME LobbyInv, StreamTick
  PROVE  LobbyInv'
<1> USE DEF LobbyInv
<1> DEFINE j == ConnectedCount > lastPlayerCount /\ ConnectedCount = 2
           g == state = "playing" /\ lastState # "playing"
           t == IF j THEN Append(sent, JoinEvent) ELSE sent
<1>1. /\ sent \in Seq(Events) /\ JoinEvent \in Joins /\ Joins \subseteq Events
      /\ "game_starting" \in Events \ Joins /\ "room_expired" \in Events \ Joins
      /\ "game_starting" # "room_expired"
      /\ \A i, k \in 1..Len(sent) : sent[i] = sent[k] => i = k
  BY DEF TypeOK, JoinEvent, Joins, Events
<1>2. /\ UNCHANGED <<roomVars, serving, pollVars, pageVars>> /\ serving
      /\ lastPlayerCount' = ConnectedCount /\ lastState' = state
      /\ sent' = IF g THEN Append(t, "game_starting") ELSE t
  <2>1. sent' = sent \o Changes
    BY DEF StreamTick
  <2>2. CASE j /\ g
    <3>1. Changes = <<JoinEvent>> \o <<"game_starting">>
      BY <2>2 DEF Changes
    <3>2. sent \o (<<JoinEvent>> \o <<"game_starting">>) = Append(Append(sent, JoinEvent), "game_starting")
      BY <1>1
    <3> QED BY <2>1, <2>2, <3>1, <3>2 DEF StreamTick, Seen
  <2>3. CASE j /\ ~g
    <3>1. Changes = <<JoinEvent>> \o <<>>
      BY <2>3 DEF Changes
    <3>2. sent \o (<<JoinEvent>> \o <<>>) = Append(sent, JoinEvent)
      BY <1>1
    <3> QED BY <2>1, <2>3, <3>1, <3>2 DEF StreamTick, Seen
  <2>4. CASE ~j /\ g
    <3>1. Changes = <<>> \o <<"game_starting">>
      BY <2>4 DEF Changes
    <3>2. sent \o (<<>> \o <<"game_starting">>) = Append(sent, "game_starting")
      BY <1>1
    <3> QED BY <2>1, <2>4, <3>1, <3>2 DEF StreamTick, Seen
  <2>5. CASE ~j /\ ~g
    <3>1. Changes = <<>> \o <<>>
      BY <2>5 DEF Changes
    <3>2. sent \o (<<>> \o <<>>) = sent
      BY <1>1
    <3> QED BY <2>1, <2>5, <3>1, <3>2 DEF StreamTick, Seen
  <2> QED BY <2>2, <2>3, <2>4, <2>5
<1>3. j => here /\ \A e \in Joins : ~Pending(e)
  <2>1. j => here /\ lastPlayerCount # 2 /\ state # "closed"
    BY DEF ConnectedCount, RoomKnown, TypeOK
  <2> QED BY <2>1 DEF StreamKnows
<1>4. g => ~Pending("game_starting")
  BY DEF StreamKnows
<1>5. j => lastPlayerCount' = 2
  BY <1>2
<1> HIDE DEF j, g
<1>6. /\ t \in Seq(Events)
      /\ \A i, k \in 1..Len(t) : t[i] = t[k] => i = k
      /\ \A i \in 1..Len(t) : \/ \E k \in 1..Len(sent) : t[i] = sent[k]
                              \/ j /\ t[i] = JoinEvent
  <2>1. CASE ~j
    BY <1>1, <2>1
  <2>2. CASE j
    <3>1. JoinEvent \in Events /\ \A i \in 1..Len(sent) : sent[i] # JoinEvent
      BY <1>1, <1>3, <2>2 DEF Pending
    <3>2. /\ t = Append(sent, JoinEvent) /\ t \in Seq(Events) /\ Len(t) = Len(sent) + 1
          /\ \A i \in 1..Len(sent) : t[i] = sent[i]
          /\ t[Len(sent) + 1] = JoinEvent
          /\ \A i, k \in 1..Len(t) : t[i] = t[k] => i = k
      BY <1>1, <2>2, <3>1, Telling
    <3>3. Len(sent) \in Nat
      BY <1>1
    <3> QED BY <2>2, <3>2, <3>3
  <2> QED BY <2>1, <2>2
<1> HIDE DEF t
<1>7. /\ sent' \in Seq(Events)
      /\ \A i, k \in 1..Len(sent') : sent'[i] = sent'[k] => i = k
      /\ \A i \in 1..Len(sent') : \/ \E k \in 1..Len(t) : sent'[i] = t[k]
                                  \/ g /\ sent'[i] = "game_starting"
  <2>1. CASE ~g
    BY <1>2, <1>6, <2>1
  <2>2. CASE g
    <3>1. \A i \in 1..Len(t) : t[i] # "game_starting"
      BY <1>1, <1>4, <1>6, <2>2 DEF Pending
    <3>2. /\ sent' = Append(t, "game_starting")
          /\ sent' \in Seq(Events) /\ Len(sent') = Len(t) + 1
          /\ \A i \in 1..Len(t) : sent'[i] = t[i]
          /\ sent'[Len(t) + 1] = "game_starting"
          /\ \A i, k \in 1..Len(sent') : sent'[i] = sent'[k] => i = k
      BY <1>1, <1>2, <1>6, <2>2, <3>1, Telling
    <3>3. Len(t) \in Nat
      BY <1>6
    <3> QED BY <2>2, <3>2, <3>3
  <2> QED BY <2>1, <2>2
<1>8. \A e : Pending(e)' => Pending(e) \/ (j /\ e = JoinEvent) \/ (g /\ e = "game_starting")
  BY <1>6, <1>7 DEF Pending
<1>9. TypeOK'
  BY <1>2, <1>7 DEF TypeOK, roomVars, pollVars, pageVars, ConnectedCount
<1>10. RoomKnown'
  BY <1>2 DEF RoomKnown, roomVars
<1>11. SeenIsTrue'
  BY <1>2 DEF SeenIsTrue, roomVars, ConnectedCount
<1>12. StreamKnows'
  <2>1. \A e \in Joins : Pending(e)' => lastPlayerCount' = 2 \/ state' = "closed"
    <3>1. \A e \in Joins : Pending(e)' => Pending(e) \/ j
      BY <1>1, <1>8
    <3>2. \A e \in Joins : Pending(e) => ConnectedCount = 2 \/ state = "closed"
      BY DEF StreamKnows, SeenIsTrue, ConnectedCount
    <3> QED BY <1>2, <1>5, <3>1, <3>2 DEF roomVars
  <2>2. Pending("game_starting")' => lastState' = "playing"
    <3>1. Pending("game_starting")' => Pending("game_starting") \/ g
      BY <1>1, <1>8
    <3> QED BY <1>2, <3>1 DEF StreamKnows, SeenIsTrue, g
  <2>3. ~Pending("room_expired")'
    BY <1>1, <1>2, <1>8 DEF StreamKnows
  <2> QED BY <2>1, <2>2, <2>3 DEF StreamKnows
<1> QED BY <1>9, <1>10, <1>11, <1>12

\* A stream that opens says that the room is full if it is, and has seen it; one
\* that ends because the room is gone says so once; one that just ends says nothing.
LEMMA StreamStepOK ==
  ASSUME LobbyInv, OpenStream \/ StreamExpires \/ StreamStops
  PROVE  LobbyInv'
<1> USE DEF LobbyInv
<1>1. CASE OpenStream
  <2>1. InitialEvents \in {<<>>, <<JoinEvent>>} /\ JoinEvent \in Joins /\ JoinEvent \in Events
    BY DEF InitialEvents, JoinEvent, Joins, Events
  <2>2. /\ sent' \in Seq(Events) /\ Len(sent') \in {0, 1}
        /\ \A e : Pending(e)' => e \in Joins /\ hub /\ ConnectedCount = 2
    <3>1. CASE hub /\ ConnectedCount = 2
      <4>1. sent' = <<JoinEvent>>
        BY <1>1, <3>1 DEF OpenStream, InitialEvents
      <4>2. Len(sent') = 1 /\ sent'[1] = JoinEvent /\ sent' \in Seq(Events)
        BY <2>1, <4>1
      <4> QED BY <2>1, <3>1, <4>2 DEF Pending
    <3>2. CASE ~(hub /\ ConnectedCount = 2)
      <4>1. sent' = <<>>
        BY <1>1, <3>2 DEF OpenStream, InitialEvents
      <4> QED BY <4>1 DEF Pending
    <3> QED BY <3>1, <3>2
  <2>3. TypeOK'
    BY <1>1, <2>2 DEF OpenStream, TypeOK, roomVars, pollVars, ConnectedCount, States
  <2>4. RoomKnown' /\ SeenIsTrue'
    BY <1>1 DEF OpenStream, RoomKnown, SeenIsTrue, roomVars, ConnectedCount
  <2>5. StreamKnows'
    <3>1. \A e \in Joins : e # "game_starting" /\ e # "room_expired"
      BY DEF Joins
    <3>2. hub /\ ConnectedCount = 2 => lastPlayerCount' = 2
      BY <1>1 DEF OpenStream
    <3> QED BY <2>2, <3>1, <3>2 DEF StreamKnows
  <2> QED BY <2>3, <2>4, <2>5
<1>2. CASE StreamExpires
  <2>1. \A i \in 1..Len(sent) : sent[i] # "room_expired"
    BY <1>2 DEF StreamExpires, StreamKnows, Pending
  <2>2. /\ sent \in Seq(Events) /\ "room_expired" \in Events
        /\ \A i, j \in 1..Len(sent) : sent[i] = sent[j] => i = j
    BY DEF TypeOK, Events
  <2>3. /\ sent' \in Seq(Events) /\ Len(sent') = Len(sent) + 1
        /\ \A i \in 1..Len(sent) : sent'[i] = sent[i]
        /\ sent'[Len(sent) + 1] = "room_expired"
        /\ \A i, j \in 1..Len(sent') : sent'[i] = sent'[j] => i = j
    BY <1>2, <2>1, <2>2, Telling DEF StreamExpires
  <2>4. \A e : Pending(e)' => Pending(e) \/ e = "room_expired"
    <3>1. Len(sent) \in Nat
      BY <2>2
    <3> QED BY <2>3, <3>1 DEF Pending
  <2>5. TypeOK'
    BY <1>2, <2>3 DEF StreamExpires, TypeOK, roomVars, pollVars, pageVars
  <2>6. RoomKnown' /\ SeenIsTrue'
    BY <1>2 DEF StreamExpires, RoomKnown, SeenIsTrue, roomVars
  <2>7. StreamKnows'
    <3>1. \A e \in Joins : e # "room_expired"
      BY DEF Joins
    <3> QED BY <1>2, <2>4, <3>1 DEF StreamExpires, StreamKnows, roomVars
  <2> QED BY <2>5, <2>6, <2>7
<1>3. CASE StreamStops
  BY <1>3 DEF StreamStops, TypeOK, RoomKnown, SeenIsTrue, StreamKnows, Pending, roomVars, pollVars,
              pageVars
<1> QED BY <1>1, <1>2, <1>3

\* What the page does takes events away, and sends none.
LEMMA PageStepOK ==
  ASSUME LobbyInv,
         \/ GetsRoom \/ Hears \/ Leaves \/ StreamEnds \/ Cancel
         \/ Poll \/ ServeStatus \/ HearsAnswer \/ LosesAnswer
  PROVE  LobbyInv'
<1> USE DEF LobbyInv
<1>1. /\ UNCHANGED <<roomVars, lastPlayerCount, lastState>> /\ serving' \in {serving, FALSE}
      /\ sent' = sent \/ sent' = <<>> \/ (sent # <<>> /\ sent' = Tail(sent))
  BY DEF GetsRoom, Hears, Leaves, StreamEnds, Cancel, Poll, ServeStatus, HearsAnswer,
         LosesAnswer, streamVars
<1>2. /\ sent' \in Seq(Events)
      /\ \A i, j \in 1..Len(sent') : sent'[i] = sent'[j] => i = j
      /\ \A e : Pending(e)' => Pending(e)
  BY <1>1, Hearing DEF TypeOK, Pending
<1>3. /\ screen' \in {"lobby", "creating", "waiting", "game", "nowhere"}
      /\ link' \in {"none", "opening", "stream", "poll"}
      /\ {roomCode', leaving'} \subseteq BOOLEAN
  BY DEF GetsRoom, Hears, Leaves, StreamEnds, Cancel, Poll, ServeStatus, HearsAnswer,
         LosesAnswer, OnEvent, OnAnswer, BackToLobby, Redirect, pageVars, TypeOK
<1>4. asked' \in 0..MaxPolls /\ answers' \subseteq Answers
  <2>1. asked \in 0..MaxPolls /\ answers \subseteq Answers /\ MaxPolls \in Nat
    BY MaxPollsAssumption DEF TypeOK
  <2>2. CASE Poll
    <3>1. IsFiniteSet(Answers)
      <4>1. \A x : IsFiniteSet({x})
        BY FS_Singleton
      <4>2. /\ IsFiniteSet({"waiting"} \cup {"playing"})
            /\ IsFiniteSet({"closed"} \cup {"not found"})
        BY <4>1, FS_Union
      <4>3. IsFiniteSet(({"waiting"} \cup {"playing"}) \cup ({"closed"} \cup {"not found"}))
        BY <4>2, FS_Union
      <4>4. Answers = ({"waiting"} \cup {"playing"}) \cup ({"closed"} \cup {"not found"})
        BY DEF Answers
      <4> QED BY <4>3, <4>4
    <3>2. Cardinality(answers) \in Nat
      BY <2>1, <3>1, FS_Subset, FS_CardinalityType
    <3> QED BY <2>1, <2>2, <3>2 DEF Poll
  <2>3. CASE ServeStatus
    <3>1. Status \in Answers
      BY DEF Status, Answers, TypeOK, States, RoomKnown
    <3> QED BY <2>1, <2>3, <3>1 DEF ServeStatus
  <2>4. CASE HearsAnswer \/ LosesAnswer
    BY <2>1, <2>4 DEF HearsAnswer, LosesAnswer
  <2>5. CASE GetsRoom \/ Hears \/ Leaves \/ StreamEnds \/ Cancel
    BY <2>1, <2>5 DEF GetsRoom, Hears, Leaves, StreamEnds, Cancel, pollVars
  <2> QED BY <2>2, <2>3, <2>4, <2>5
<1>5. TypeOK'
  <2>1. {hub', here', janitor', token', serving', roomCode', leaving'} \subseteq BOOLEAN
    BY <1>1, <1>3 DEF TypeOK, roomVars
  <2>2. /\ state' \in States /\ lastState' \in States /\ lastPlayerCount' \in 0..2
        /\ opponent' \in {"none", "human", "bot"}
    BY <1>1 DEF TypeOK, roomVars
  <2> QED BY <1>2, <1>3, <1>4, <2>1, <2>2 DEF TypeOK
<1>6. RoomKnown' /\ SeenIsTrue'
  BY <1>1 DEF RoomKnown, SeenIsTrue, roomVars
<1>7. StreamKnows'
  <2>1. serving' => serving
    BY <1>1
  <2> QED BY <1>1, <1>2, <2>1 DEF StreamKnows, roomVars
<1> QED BY <1>5, <1>6, <1>7

\* Every variable of the lobby keeps its type, and the room's stream sends the page
\* no event that it has sent already and the page has not heard.
THEOREM EventsOnce == FairSpec => []TypeOK
<1>1. LobbyInv /\ [Next]_vars => LobbyInv'
  <2> SUFFICES ASSUME LobbyInv, [Next]_vars PROVE LobbyInv'
    OBVIOUS
  <2>1. CASE UNCHANGED vars
    BY <2>1 DEF vars, roomVars, streamVars, pollVars, pageVars, LobbyInv, TypeOK, RoomKnown,
                SeenIsTrue, StreamKnows, Pending
  <2> QED BY <2>1, RoomStepOK, StreamTickOK, StreamStepOK, PageStepOK DEF Next
<1>2. LobbyInv => TypeOK
  BY DEF LobbyInv
<1> QED BY InitLobby, <1>1, <1>2, PTL DEF FairSpec
=============================================================================
