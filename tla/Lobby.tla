-------------------------------- MODULE Lobby ------------------------------
(***************************************************************************)
(* The page of a player who has created a room over HTTP and waits in it   *)
(* (web/app.js), and what the server tells it: the room's event stream     *)
(* (RoomAPI.handleRoomEvents), which samples the room twice a second and   *)
(* reports what has changed, and the status the page polls once its stream *)
(* has ended (handleRoomStatus).                                           *)
(*                                                                         *)
(* The page holds no websocket yet: it opens one when it goes to the game, *)
(* and no match starts before.  What the opponent and the janitor do to    *)
(* the room is here as far as the page can see it; module Session has the  *)
(* rest.                                                                   *)
(***************************************************************************)
EXTENDS Integers, Sequences, FiniteSets

CONSTANT MaxPolls    \* bound: status requests and answers under way

ASSUME MaxPollsAssumption == MaxPolls \in Nat \ {0}

VARIABLES
  hub,               \* the room is in Hub.rooms
  state,             \* Room.State
  opponent,          \* who sits in Room.Players[1]
  here,              \* Connected of that player
  janitor,           \* the janitor has read the room and is about to delete it
  token,             \* the page's token is in the token store
  serving,           \* the goroutine of the page's event stream runs
  lastPlayerCount,   \* what it has seen: handleRoomEvents, lastPlayerCount
  lastState,         \* ... and lastState
  sent,              \* events on their way to the page
  screen,            \* what the page shows
  roomCode,          \* the page's roomCode is set
  link,              \* eventSource or pollInterval
  leaving,           \* the half second after player_joined is running
  asked,             \* status requests on their way
  answers            \* their answers, in no order

roomVars == <<hub, state, opponent, here, janitor, token>>
streamVars == <<serving, lastPlayerCount, lastState, sent>>
pollVars == <<asked, answers>>
pageVars == <<screen, roomCode, link, leaving>>
vars == <<roomVars, streamVars, pollVars, pageVars>>

States == {"none", "waiting", "ready", "playing", "closed"}
Events == {"player_joined", "bot_joined", "game_starting", "room_expired"}
Answers == {"waiting", "playing", "closed", "not found"}

Init ==
  /\ hub = FALSE /\ state = "none" /\ opponent = "none" /\ here = FALSE
  /\ janitor = FALSE /\ token = FALSE
  /\ serving = FALSE /\ lastPlayerCount = 0 /\ lastState = "waiting" /\ sent = <<>>
  /\ screen = "lobby" /\ roomCode = FALSE /\ link = "none" /\ leaving = FALSE
  /\ asked = 0 /\ answers = {}

----------------------------------------------------------------------------
(* The room.                                                               *)

(* POST /api/room.  With vs_ai the bot is seated before the answer goes.   *)
PostRoom(ai) ==
  /\ state = "none"
  /\ hub' = TRUE /\ token' = TRUE
  /\ state' = IF ai THEN "ready" ELSE "waiting"
  /\ opponent' = IF ai THEN "bot" ELSE "none"
  /\ here' = ai
  /\ screen' = "creating"
  /\ UNCHANGED <<janitor, streamVars, pollVars, roomCode, link, leaving>>

(* A join over HTTP, or the bot of the auto-fill timer.                    *)
OpponentJoins(who) ==
  /\ hub /\ state = "waiting"
  /\ opponent' = who /\ here' = TRUE /\ state' = "ready"
  /\ UNCHANGED <<hub, janitor, token, streamVars, pollVars, pageVars>>

(* The opponent's connection ends before the match: RemovePlayer.  The     *)
(* creator's seat counts as connected, so the room is not empty and stays. *)
OpponentLeaves ==
  /\ here /\ state = "ready"
  /\ here' = FALSE /\ state' = "closed"
  /\ UNCHANGED <<hub, opponent, janitor, token, streamVars, pollVars, pageVars>>

(* startMatchForRoom, once the creator has come to the game as well.       *)
MatchStarts ==
  /\ screen = "game" /\ here /\ state = "ready"
  /\ state' = "playing"
  /\ UNCHANGED <<hub, opponent, here, janitor, token, streamVars, pollVars, pageVars>>

(* CleanupStaleRooms looks at the state under the room's lock and deletes  *)
(* after: a room that was waiting for too long may have filled meanwhile.  *)
JanitorReads ==
  /\ hub /\ ~janitor /\ state \in {"waiting", "closed"}
  /\ janitor' = TRUE
  /\ UNCHANGED <<hub, state, opponent, here, token, streamVars, pollVars, pageVars>>

JanitorDeletes ==
  /\ janitor
  /\ janitor' = FALSE /\ hub' = FALSE
  /\ UNCHANGED <<state, opponent, here, token, streamVars, pollVars, pageVars>>

(* CleanupStaleTokens.  Tokens live longer (max-room-age) than the server  *)
(* lets a stream run (WriteTimeout), so the page polls by then, and a room *)
(* that still waits at that age has been deleted just before.              *)
TokenExpires ==
  /\ token /\ link = "poll" /\ (hub => state # "waiting")
  /\ token' = FALSE
  /\ UNCHANGED <<hub, state, opponent, here, janitor, streamVars, pollVars, pageVars>>

----------------------------------------------------------------------------
(* The event stream of the page's token.                                   *)

ConnectedCount == IF here THEN 2 ELSE 1
JoinEvent == IF opponent = "bot" THEN "bot_joined" ELSE "player_joined"

\* Mutant: as it was before version 0.9.2.
NoInitialEvents == <<>>

(* A room that is full when the stream opens is reported at once: no edge  *)
(* would be seen later.                                                    *)
InitialEvents == IF hub /\ ConnectedCount = 2 THEN <<JoinEvent>> ELSE <<>>

OpenStream ==
  /\ link = "opening" /\ token
  /\ link' = "stream" /\ serving' = TRUE
  /\ sent' = InitialEvents
  /\ lastPlayerCount' = IF hub THEN ConnectedCount ELSE 0
  /\ lastState' = IF hub THEN state ELSE "waiting"
  /\ UNCHANGED <<roomVars, pollVars, screen, roomCode, leaving>>

Changes ==
  (IF ConnectedCount > lastPlayerCount /\ ConnectedCount = 2 THEN <<JoinEvent>> ELSE <<>>)
    \o (IF state = "playing" /\ lastState # "playing" THEN <<"game_starting">> ELSE <<>>)

\* Mutant: the count is not remembered.
SeenState == lastState' = state /\ UNCHANGED lastPlayerCount

Seen == lastPlayerCount' = ConnectedCount /\ lastState' = state

StreamTick ==
  /\ serving /\ hub
  /\ sent' = sent \o Changes
  /\ Seen
  /\ UNCHANGED <<roomVars, serving, pollVars, pageVars>>

StreamExpires ==
  /\ serving /\ ~hub
  /\ sent' = Append(sent, "room_expired") /\ serving' = FALSE
  /\ UNCHANGED <<roomVars, lastPlayerCount, lastState, pollVars, pageVars>>

(* The request's context ends some time after the page has closed it.      *)
StreamStops ==
  /\ serving /\ link # "stream"
  /\ serving' = FALSE
  /\ UNCHANGED <<roomVars, lastPlayerCount, lastState, sent, pollVars, pageVars>>

----------------------------------------------------------------------------
(* The page.                                                               *)

Gone == screen \in {"game", "nowhere"}

(* cleanup and showLobby.                                                  *)
BackToLobby == screen' = "lobby" /\ link' = "none"

(* cleanup and redirectToGame, with whatever room the page has by then.    *)
Redirect == screen' = (IF roomCode THEN "game" ELSE "nowhere") /\ link' = "none"

GetsRoom ==
  /\ screen = "creating"
  /\ screen' = "waiting" /\ roomCode' = TRUE /\ link' = "opening"
  /\ UNCHANGED <<roomVars, streamVars, pollVars, leaving>>

(* What the page does with an event: after a join it waits half a second.  *)
OnEvent(e) ==
  IF e \in {"player_joined", "bot_joined"} THEN leaving' = TRUE /\ UNCHANGED <<screen, link>>
  ELSE UNCHANGED leaving /\ IF e = "room_expired" THEN BackToLobby ELSE Redirect

Hears ==
  /\ link = "stream" /\ sent # <<>>
  /\ sent' = Tail(sent)
  /\ OnEvent(Head(sent))
  /\ UNCHANGED <<roomVars, serving, lastPlayerCount, lastState, pollVars, roomCode>>

(* The timer set by player_joined.  Nothing takes it back.                 *)
Leaves ==
  /\ leaving /\ ~Gone
  /\ Redirect /\ leaving' = FALSE
  /\ UNCHANGED <<roomVars, streamVars, pollVars, roomCode>>

(* onerror: the connection breaks, or the server ends the response after   *)
(* five minutes.  What was on its way is lost.                             *)
StreamEnds ==
  /\ link \in {"opening", "stream"}
  /\ link' = "poll" /\ sent' = <<>> /\ serving' = FALSE
  /\ UNCHANGED <<roomVars, lastPlayerCount, lastState, pollVars, screen, roomCode, leaving>>

(* cancelRoom: the server is not told.                                     *)
Cancel ==
  /\ screen = "waiting"
  /\ BackToLobby /\ roomCode' = FALSE
  /\ UNCHANGED <<roomVars, streamVars, pollVars, leaving>>

(* The interval of startPolling does not wait for the last answer.         *)
Poll ==
  /\ link = "poll" /\ asked + Cardinality(answers) < MaxPolls
  /\ asked' = asked + 1
  /\ UNCHANGED <<roomVars, streamVars, answers, pageVars>>

(* handleRoomStatus.  Without a valid token only an open room is shown.    *)
Status ==
  IF ~hub \/ (~token /\ state # "waiting") THEN "not found"
  ELSE IF state = "ready" THEN "waiting" ELSE state

ServeStatus ==
  /\ asked > 0
  /\ asked' = asked - 1 /\ answers' = answers \cup {Status}
  /\ UNCHANGED <<roomVars, streamVars, pageVars>>

\* Mutant: res.ok is not looked at.
EndsClosed(a) == a = "closed"

(* What the page takes for the end of its room.                            *)
Ends(a) == a \in {"not found", "closed"}

OnAnswer(a) ==
  IF Ends(a) THEN BackToLobby
  ELSE IF a = "playing" THEN Redirect ELSE UNCHANGED <<screen, link>>

HearsAnswer ==
  /\ ~Gone
  /\ \E a \in answers : answers' = answers \ {a} /\ OnAnswer(a)
  /\ UNCHANGED <<roomVars, streamVars, asked, roomCode, leaving>>

LosesAnswer ==
  /\ \E a \in answers : answers' = answers \ {a}
  /\ UNCHANGED <<roomVars, streamVars, asked, pageVars>>

----------------------------------------------------------------------------
Next ==
  \/ \E ai \in BOOLEAN : PostRoom(ai)
  \/ \E who \in {"human", "bot"} : OpponentJoins(who)
  \/ OpponentLeaves \/ MatchStarts
  \/ JanitorReads \/ JanitorDeletes \/ TokenExpires
  \/ OpenStream \/ StreamTick \/ StreamExpires \/ StreamStops
  \/ GetsRoom \/ Hears \/ Leaves \/ StreamEnds \/ Cancel
  \/ Poll \/ ServeStatus \/ HearsAnswer \/ LosesAnswer

(* Goroutines, timers and the page's event loop go on, the janitor comes   *)
(* round, and of the answers to endless polls some arrive.                 *)
Fairness ==
  /\ WF_vars(GetsRoom) /\ WF_vars(OpenStream)
  /\ WF_vars(StreamTick) /\ WF_vars(StreamExpires)
  /\ WF_vars(Hears) /\ WF_vars(Leaves)
  /\ WF_vars(Poll) /\ WF_vars(ServeStatus) /\ SF_vars(HearsAnswer)
  /\ WF_vars(JanitorReads /\ state = "closed") /\ WF_vars(JanitorDeletes)

FairSpec == Init /\ [][Next]_vars /\ Fairness

----------------------------------------------------------------------------
(* Every variable has its type, and the stream tells each event at most    *)
(* once, however often it looks (handleRoomEvents is edge-triggered).      *)
TypeOK ==
  /\ {hub, here, janitor, token, serving, roomCode, leaving} \subseteq BOOLEAN
  /\ state \in States /\ lastState \in States
  /\ opponent \in {"none", "human", "bot"}
  /\ lastPlayerCount \in 0 .. 2
  /\ sent \in Seq(Events) /\ \A i, j \in 1 .. Len(sent) : sent[i] = sent[j] => i = j
  /\ screen \in {"lobby", "creating", "waiting", "game", "nowhere"}
  /\ link \in {"none", "opening", "stream", "poll"}
  /\ asked \in 0 .. MaxPolls /\ answers \subseteq Answers

OpponentWaits == here /\ screen = "waiting"
RoomOver == state = "closed" \/ ~hub

(* A page with its stream goes to the game when an opponent has joined, be *)
(* it before the stream opened or between two looks at the room, unless    *)
(* the room ends first or the player cancels.                              *)
OpponentSeen ==
  OpponentWaits ~> (screen = "game" \/ ~roomCode \/ RoomOver \/ link = "poll")

(* A page does not wait in a room that is closed or gone, whichever way it *)
(* is told: by room_expired, by a status, or not at all while one breaks.  *)
EndSeen == (RoomOver /\ screen = "waiting") ~> (screen # "waiting")

(* A page that polls goes to the game as well: tokens are sent with the    *)
(* status poll for the "lobby poll -> game redirect".                      *)
PollSeesOpponent ==
  OpponentWaits ~> (screen = "game" \/ ~roomCode \/ RoomOver)
============================================================================
