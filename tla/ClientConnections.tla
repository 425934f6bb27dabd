------------------------- MODULE ClientConnections -------------------------
(***************************************************************************)
(* The two threads of the game client that share its connections: the main *)
(* loop (client.cpp), which builds the interface and asks for connections  *)
(* and actions, and the network loop (net_client.cpp), which connects,     *)
(* sends and receives.  They share one mutex; the network loop holds it to *)
(* take a copy of what is asked (Take), around each exchange of data, and  *)
(* to publish its connections (Publish), and works on its own copies in    *)
(* between, while the main loop goes on asking.                            *)
(*                                                                         *)
(* An iteration of the network loop is a sequence of steps here, and every *)
(* step of the main loop may come between two of them.  The three servers  *)
(* are external: a connect succeeds or fails, a packet is there or not, a  *)
(* connection is lost.                                                     *)
(***************************************************************************)
EXTENDS Naturals, Sequences, FiniteSets

CONSTANTS
    Users, NoUser,          \* NO_USER, and no connection to the user or market server
    Rooms, NoRoom,
    PendingLength,          \* ARRLEN(room->pending_actions)
    MaxActions,             \* how many actions and views of the market the player asks for
    MaxWishes,              \* how many of those, and of users and rooms to connect to
    MaxLost                 \* how many connections break or are ended by a server

ASSUME ClientAssumption ==
    /\ NoUser \notin Users /\ NoRoom \notin Rooms
    /\ PendingLength \in Nat /\ MaxActions \in Nat /\ MaxWishes \in Nat /\ MaxLost \in Nat

VARIABLES
    user_requested, room_requested, market_requested,   \* *_connect_requested, requested_*
    room_actions,       \* connections.room_action_queue
    market_actions,     \* connections.market_action_queue: how many views are asked for
    con,                \* connections.room, .user and .market, as published
    user,               \* client->user.id, once it is initialized
    player,             \* the user whose player is among client->room.entities
    pending, answered,  \* room->pending_rs_operations without and with a result
    waiting,            \* market.waiting_for_view_update
    article_shown,      \* market.view is of an article, so its chart can be seen
    should_exit,        \* Network_Loop::SHOULD_EXIT
    pc,                 \* where the network loop is
    taken,              \* its copies of what is asked
    did_connect,        \* did_connect_to_*_this_loop
    local,              \* rs_connection, us_connection, ms_connection
    inited,             \* the room server has sent ROOM_INIT on the connection
    unanswered,         \* the actions the room server has still to answer
    views,              \* how many views the market server has still to send
    last_sent,          \* the last action that was sent to a room server
    user_lost,          \* the connection to the user server has broken once
    asked, connects, lost,  \* what was used of the bounds
    failed              \* the Assert that has failed

requestVars == <<user_requested, room_requested, market_requested>>
actionVars  == <<room_actions, market_actions>>
shownVars   == <<user, player, pending, answered, waiting, article_shown>>
serverVars  == <<inited, unanswered, views, last_sent, user_lost, lost>>
boundVars   == <<asked, connects>>
vars == <<requestVars, actionVars, con, shownVars, should_exit, pc, taken, did_connect, local,
          serverVars, boundVars, failed>>

Steps == {"take", "connect", "write_room", "read_room", "read_user", "read_market", "publish", "ended"}

NoRoomConnection == [room |-> NoRoom, as_user |-> NoUser]

Connections == [room : [room : Rooms, as_user : Users] \cup {NoRoomConnection},
                user : Users \cup {NoUser}, market : Users \cup {NoUser}]

\* What the player asks of a room: an action of the player or a chat message, the room that was
\* shown, and whether the network loop was already on its way to another.
Action == [id : 1..MaxActions, type : {"PLAYER_ACTION", "CHAT"}, room : Rooms \cup {NoRoom}, late : BOOLEAN]

AskedTypes ==
    /\ user_requested \in Users \cup {NoUser}
    /\ room_requested \in Rooms \cup {NoRoom}
    /\ market_requested \in BOOLEAN
    /\ room_actions \in Seq(Action) /\ market_actions \in Nat
    /\ asked \in 0..MaxActions /\ connects \in 0..MaxWishes

ShownTypes ==
    /\ con \in Connections
    /\ user \in Users \cup {NoUser} /\ player \in Users \cup {NoUser}
    /\ pending \in SUBSET (1..MaxActions) /\ answered \in SUBSET (1..MaxActions)
    /\ Cardinality(pending \cup answered) <= PendingLength
    /\ waiting \in BOOLEAN /\ article_shown \in BOOLEAN /\ should_exit \in BOOLEAN

TakenTypes ==
    taken \in [room : Rooms \cup {NoRoom}, user : Users \cup {NoUser}, market : BOOLEAN,
               actions : Seq(Action), views : Nat]

LoopTypes ==
    /\ pc \in Steps
    /\ local \in Connections
    /\ did_connect \in SUBSET {"room", "user", "market"}
    /\ failed \in {"none", "no player", "no user", "too many pending", "result unknown", "room not empty"}

ServerTypes ==
    /\ inited \in BOOLEAN /\ unanswered \in SUBSET (1..MaxActions) /\ views \in Nat
    /\ last_sent \in 0..MaxActions /\ user_lost \in BOOLEAN /\ lost \in 0..MaxLost

TypeOK == AskedTypes /\ ShownTypes /\ TakenTypes /\ LoopTypes /\ ServerTypes

NothingTaken == [room |-> NoRoom, user |-> NoUser, market |-> FALSE, actions |-> <<>>, views |-> 0]

Init ==
    /\ user_requested = NoUser /\ room_requested = NoRoom /\ market_requested = FALSE
    /\ room_actions = <<>> /\ market_actions = 0
    /\ con = [room |-> NoRoomConnection, user |-> NoUser, market |-> NoUser]
    /\ local = con
    /\ user = NoUser /\ player = NoUser
    /\ pending = {} /\ answered = {}
    /\ waiting = FALSE /\ article_shown = FALSE /\ should_exit = FALSE
    /\ pc = "take"
    /\ taken = NothingTaken
    /\ did_connect = {}
    /\ inited = FALSE /\ unanswered = {} /\ views = 0
    /\ last_sent = 0 /\ user_lost = FALSE
    /\ asked = 0 /\ connects = 0 /\ lost = 0
    /\ failed = "none"

Running == failed = "none"

Fails(assertion) ==
    /\ failed' = assertion
    /\ UNCHANGED <<requestVars, actionVars, con, shownVars, should_exit, pc, taken, did_connect, local,
                   serverVars, boundVars>>

-----------------------------------------------------------------------------
(* The main loop *)

\* current_user, find_current_player_entity
CurrentUser == IF con.user = NoUser THEN NoUser ELSE user
PlayerIsThere == CurrentUser # NoUser /\ player = CurrentUser

\* The main loop has the mutex: whatever it does, the network loop does not.
Main == Running /\ ~should_exit

\* The bound on what the player asks for.
Wishes == connects + asked < MaxWishes

threadVars == <<con, pc, taken, did_connect, local, serverVars, failed>>

\* request_connection_to_user: the buttons are disabled while a request is outstanding.
RequestUser ==
    /\ Main
    /\ user_requested = NoUser
    /\ Wishes /\ connects' = connects + 1
    /\ \E u \in Users : user_requested' = u
    /\ UNCHANGED <<room_requested, market_requested, actionVars, shownVars, should_exit, asked, threadVars>>

\* request_connection_to_room
RequestRoom ==
    /\ Main
    /\ room_requested = NoRoom
    /\ Wishes /\ connects' = connects + 1
    /\ \E r \in Rooms : room_requested' = r
    /\ UNCHANGED <<user_requested, market_requested, actionVars, shownVars, should_exit, asked, threadVars>>

\* update_client asks for the market by itself.
RequestMarket ==
    /\ Main
    /\ CurrentUser # NoUser /\ con.market = NoUser /\ ~market_requested
    /\ market_requested' = TRUE
    /\ UNCHANGED <<user_requested, room_requested, actionVars, shownVars, should_exit, boundVars, threadVars>>

\* The network loop has taken a request for a room and has not published the connection yet.
OnItsWay == pc \notin {"take", "ended"} /\ taken.room # NoRoom

\* A click in the room, or on SAY, without a look at the connection.
AskForAction ==
    /\ Main
    /\ Wishes /\ asked < MaxActions /\ asked' = asked + 1
    /\ \E type \in {"PLAYER_ACTION", "CHAT"} :
          /\ type = "PLAYER_ACTION" => PlayerIsThere
          /\ type = "CHAT" => CurrentUser # NoUser /\ \A i \in DOMAIN room_actions : room_actions[i].type # "CHAT"
          /\ room_actions' = Append(room_actions, [id |-> asked', type |-> type,
                                                   room |-> con.room.room, late |-> OnItsWay])
    /\ UNCHANGED <<requestVars, market_actions, shownVars, should_exit, connects, threadVars>>

\* What asks for a view: the selected item of the inventory, whose article is shown, and the buttons
\* for articles and orders, none of them while an answer is awaited; and the buttons for the period of a
\* chart that is shown, at any time.
ViewCanBeAsked ==
    \/ ~waiting /\ CurrentUser # NoUser
    \/ ~waiting /\ con.market # NoUser /\ ~market_requested
    \/ article_shown

\* request_market_set_view
SetView ==
    /\ Main
    /\ ViewCanBeAsked
    /\ Wishes /\ asked < MaxActions /\ asked' = asked + 1
    /\ market_actions' = market_actions + 1
    /\ waiting' = TRUE
    /\ UNCHANGED <<requestVars, room_actions, user, player, pending, answered, article_shown, should_exit,
                   connects, threadVars>>

\* update_client: PENDING PLAYER ACTIONS
HandleResults ==
    /\ Main
    /\ PlayerIsThere
    /\ answered # {} /\ answered' = {}
    /\ UNCHANGED <<requestVars, actionVars, user, player, pending, waiting, article_shown, should_exit,
                   boundVars, threadVars>>

\* stop_network_loop.  Only the top of the network loop looks at the state that is set, and the
\* main loop does nothing more after it, so it is set there.
Quit ==
    /\ Main /\ pc = "take"
    /\ should_exit' = TRUE
    /\ UNCHANGED <<requestVars, actionVars, shownVars, boundVars, threadVars>>

-----------------------------------------------------------------------------
(* The network loop, up to the connections *)

mainVars == <<should_exit, boundVars>>

Go(from, to) == Running /\ pc = from /\ pc' = to

\* Mutant: the actions stay in the shared queue.
ActionsLeft_All == room_actions
ActionsLeft == <<>>

Take ==
    /\ ~should_exit
    /\ Go("take", "connect")
    /\ taken' = [room |-> room_requested, user |-> user_requested, market |-> market_requested,
                 actions |-> room_actions, views |-> market_actions]
    /\ room_actions' = ActionsLeft
    /\ market_actions' = 0
    /\ UNCHANGED <<requestVars, con, shownVars, did_connect, local, serverVars, mainVars, failed>>

\* Says goodbye to the room and the user server; the market server is left out.
End ==
    /\ should_exit
    /\ Go("take", "ended")
    /\ local' = [local EXCEPT !.room = NoRoomConnection, !.user = NoUser]
    /\ UNCHANGED <<requestVars, actionVars, con, shownVars, taken, did_connect, serverVars, mainVars, failed>>

(***************************************************************************)
(* The three connects of an iteration, one after the other; each takes     *)
(* what the one before it leaves of the connections, and succeeds if its   *)
(* server is in ok.  They touch nothing that is shared.                    *)
(***************************************************************************)
\* CONNECT TO ROOM SERVER
AfterRoom(c, ok) ==
    IF taken.room = NoRoom \/ c.user = NoUser THEN c
    ELSE [c EXCEPT !.room = IF "room" \in ok THEN [room |-> taken.room, as_user |-> c.user] ELSE NoRoomConnection]

\* Mutant: the market server is forgotten.
WithoutUser_MarketStays(c) == IF c.user = NoUser THEN c ELSE [c EXCEPT !.room = NoRoomConnection, !.user = NoUser]
\* DISCONNECT FROM ROOM AND MARKET SERVERS, because they depend on the current user ID: but not
\* when the connection to the user server is already gone.
WithoutUser(c) == IF c.user = NoUser THEN c ELSE [room |-> NoRoomConnection, user |-> NoUser, market |-> NoUser]

\* CONNECT TO USER SERVER
AfterUser(c, ok) ==
    IF taken.user = NoUser THEN c
    ELSE [WithoutUser(c) EXCEPT !.user = IF "user" \in ok THEN taken.user ELSE NoUser]

\* CONNECT TO MARKET SERVER
AfterMarket(c, ok) ==
    IF ~taken.market \/ c.user = NoUser THEN c
    ELSE [c EXCEPT !.market = IF "market" \in ok THEN c.user ELSE NoUser]

Connect(ok) ==
    LET c1 == AfterRoom(local, ok)
        c2 == AfterUser(c1, ok)
        tries == {s \in {"room", "user", "market"} : CASE s = "room"   -> taken.room # NoRoom /\ local.user # NoUser
                                                      [] s = "user"   -> taken.user # NoUser
                                                      [] s = "market" -> taken.market /\ c2.user # NoUser}
    IN
    /\ Go("connect", "write_room")
    /\ ok \subseteq tries
    /\ local' = AfterMarket(c2, ok)
    /\ did_connect' = ok
    /\ inited' = (inited /\ "room" \notin tries)
    /\ unanswered' = IF "room" \in tries \/ local'.room = NoRoomConnection THEN {} ELSE unanswered
    /\ views' = IF "market" \in tries \/ local'.market = NoUser THEN 0 ELSE views
    /\ UNCHANGED <<requestVars, actionVars, con, shownVars, taken, last_sent, user_lost, lost, mainVars, failed>>

-----------------------------------------------------------------------------
(* The network loop talks to the servers *)

\* Mutant: a new connection is talked on at once.
TalksToRoom_AtOnce == local.room # NoRoomConnection
\* Not on a connection made in this iteration: the main loop has not seen it.
TalksToRoom == local.room # NoRoomConnection /\ "room" \notin did_connect
TalksToUser == local.user # NoUser /\ "user" \notin did_connect
TalksToMarket == local.market # NoUser /\ "market" \notin did_connect

PlayerActions == {i \in DOMAIN taken.actions : taken.actions[i].type = "PLAYER_ACTION"}

\* Mutant: one more fits.
TooManyPending_ButOne(n) == Cardinality(pending \cup answered) + n > PendingLength + 1
\* What the Assert about ARRLEN(pending_actions) forbids.
TooManyPending(n) == Cardinality(pending \cup answered) + n > PendingLength

PlayerActionIds == {taken.actions[i].id : i \in PlayerActions}

\* talk_to_room_server: WRITE, of player actions and CHAT.  What was taken while there is no connection is
\* lost.  Left out are the other actions (a click on a tile, a dequeue, a pause), which change nothing
\* here, and the Asserts that compare with the client's copy of the player's queue (99, 120).
WriteRoom ==
    /\ Running /\ pc = "write_room"
    /\ CASE ~TalksToRoom \/ taken.actions = <<>> ->
               pc' = "read_room" /\ UNCHANGED <<pending, unanswered, last_sent, failed>>
         [] PlayerActions # {} /\ ~PlayerIsThere ->     \* player_e of no player is looked at
               failed' = "no player" /\ UNCHANGED <<pc, pending, unanswered, last_sent>>
         [] CurrentUser = NoUser ->
               failed' = "no user" /\ UNCHANGED <<pc, pending, unanswered, last_sent>>
         [] TooManyPending(Cardinality(PlayerActions)) ->
               failed' = "too many pending" /\ UNCHANGED <<pc, pending, unanswered, last_sent>>
         [] OTHER ->
               /\ pending' = pending \cup PlayerActionIds
               /\ unanswered' = unanswered \cup PlayerActionIds
               /\ last_sent' = taken.actions[Len(taken.actions)].id
               /\ pc' = "read_room"
               /\ UNCHANGED failed
    /\ UNCHANGED <<requestVars, actionVars, con, user, player, answered, waiting, article_shown, taken,
                   did_connect, local, inited, views, user_lost, lost, mainVars>>

talkVars == <<requestVars, actionVars, con, taken, did_connect, mainVars>>

\* RCB_ROOM_INIT
ReadRoomInit ==
    /\ Running /\ pc = "read_room" /\ TalksToRoom
    /\ ~inited
    /\ IF player # NoUser
       THEN Fails("room not empty")
       ELSE /\ inited' = TRUE
            /\ player' = local.room.as_user
            /\ UNCHANGED <<talkVars, user, pending, answered, waiting, article_shown, pc, local, unanswered,
                           views, last_sent, user_lost, lost, failed>>

\* RCB_PACKET_RESULT
ReadResult ==
    /\ Running /\ pc = "read_room" /\ TalksToRoom
    /\ inited
    /\ \E id \in unanswered :
          IF id \notin pending
          THEN Fails("result unknown")
          ELSE /\ pending' = pending \ {id}
               /\ answered' = answered \cup {id}
               /\ unanswered' = unanswered \ {id}
               /\ UNCHANGED <<talkVars, user, player, waiting, article_shown, pc, local, inited, views,
                              last_sent, user_lost, lost, failed>>

\* The connection is gone, or the server has said goodbye.
Loses(from, to) == Go(from, to) /\ lost < MaxLost /\ lost' = lost + 1

LoseRoom ==
    /\ TalksToRoom
    /\ Loses("read_room", "read_user")
    /\ local' = [local EXCEPT !.room = NoRoomConnection]
    /\ unanswered' = {}
    /\ UNCHANGED <<talkVars, shownVars, inited, views, last_sent, user_lost, failed>>

NoMoreFromRoom ==
    /\ Go("read_room", "read_user")
    /\ UNCHANGED <<talkVars, shownVars, local, serverVars, failed>>

\* UCB_USER_INIT
ReadUserInit ==
    /\ Running /\ pc = "read_user" /\ TalksToUser
    /\ user # local.user
    /\ user' = local.user
    /\ UNCHANGED <<talkVars, player, pending, answered, waiting, article_shown, pc, local, serverVars, failed>>

\* talk_to_market_server: WRITE.  It follows on the user server's turn, and only the market server
\* sees it.
WriteMarket == views' = IF TalksToMarket THEN views + taken.views ELSE views

LoseUser ==
    /\ TalksToUser
    /\ Loses("read_user", "read_market")
    /\ local' = [local EXCEPT !.user = NoUser]
    /\ user_lost' = TRUE
    /\ WriteMarket
    /\ UNCHANGED <<talkVars, shownVars, inited, unanswered, last_sent, failed>>

NoMoreFromUser ==
    /\ Go("read_user", "read_market")
    /\ WriteMarket
    /\ UNCHANGED <<talkVars, shownVars, local, inited, unanswered, last_sent, user_lost, lost, failed>>

\* MCB_MARKET_UPDATE for a view that was asked for, of an article or of the orders.  It may be another
\* than the last that was asked for; the wait is over all the same.
MarketAnswers ==
    /\ Running /\ pc = "read_market" /\ TalksToMarket
    /\ views > 0 /\ views' = views - 1
    /\ waiting' = FALSE
    /\ article_shown' \in BOOLEAN
    /\ UNCHANGED <<talkVars, user, player, pending, answered, pc, local, inited, unanswered, last_sent,
                   user_lost, lost, failed>>

\* MCB_MARKET_UPDATE because a trade has changed the article the client watches.
MarketChanges ==
    /\ Running /\ pc = "read_market" /\ TalksToMarket
    /\ article_shown
    /\ waiting' = FALSE
    /\ UNCHANGED <<talkVars, user, player, pending, answered, article_shown, pc, local, serverVars, failed>>

LoseMarket ==
    /\ TalksToMarket
    /\ Loses("read_market", "publish")
    /\ local' = [local EXCEPT !.market = NoUser]
    /\ views' = 0
    /\ UNCHANGED <<talkVars, shownVars, inited, unanswered, last_sent, user_lost, failed>>

NoMoreFromMarket ==
    /\ Go("read_market", "publish")
    /\ UNCHANGED <<talkVars, shownVars, local, serverVars, failed>>

-----------------------------------------------------------------------------
\* Mutant: whatever is requested by now is taken for done.
StillRequested_None == [user |-> NoUser, room |-> NoRoom, market |-> FALSE]
\* IMPORTANT that we do this 'if' here: what was requested since Take stays.
StillRequested ==
    [user   |-> IF taken.user # NoUser THEN NoUser ELSE user_requested,
     room   |-> IF taken.room # NoRoom THEN NoRoom ELSE room_requested,
     market |-> IF taken.market THEN FALSE ELSE market_requested]

\* Mutant: who was shown is still there when another has come.
UserShown_Kept == user
UserShown == IF "user" \in did_connect THEN NoUser ELSE user

\* Mutant: the market is not reset.
StillWaiting_Kept == waiting
StillWaiting == waiting /\ "market" \notin did_connect

\* Update Network Info
Publish ==
    /\ Go("publish", "take")
    /\ user_requested' = StillRequested.user
    /\ room_requested' = StillRequested.room
    /\ market_requested' = StillRequested.market
    /\ con' = local
    /\ user' = UserShown
    /\ IF "room" \in did_connect
       THEN player' = NoUser /\ pending' = {} /\ answered' = {}
       ELSE UNCHANGED <<player, pending, answered>>
    /\ waiting' = StillWaiting
    /\ article_shown' = (article_shown /\ "market" \notin did_connect)
    /\ taken' = NothingTaken
    /\ did_connect' = {}
    /\ UNCHANGED <<actionVars, local, serverVars, mainVars, failed>>

MarketConnects == \E ok \in SUBSET {"room", "user", "market"} : "market" \in ok /\ Connect(ok)

MainLoop ==
    \/ RequestUser \/ RequestRoom \/ RequestMarket
    \/ AskForAction \/ SetView \/ HandleResults \/ Quit

NetworkLoop ==
    \/ Take \/ End
    \/ \E ok \in SUBSET {"room", "user", "market"} : Connect(ok)
    \/ WriteRoom \/ ReadRoomInit \/ ReadResult \/ LoseRoom \/ NoMoreFromRoom
    \/ ReadUserInit \/ LoseUser \/ NoMoreFromUser
    \/ MarketAnswers \/ MarketChanges \/ LoseMarket \/ NoMoreFromMarket
    \/ Publish

Next == MainLoop \/ NetworkLoop

Spec == Init /\ [][Next]_vars

\* Both threads run, and the main loop asks for the market in each of its rounds.  A connect that
\* is tried again and again succeeds some time, and a market server that is asked answers.
Fairness ==
    /\ WF_vars(NetworkLoop) /\ WF_vars(RequestMarket)
    /\ SF_vars(MarketConnects) /\ SF_vars(MarketAnswers)

FairSpec == Spec /\ Fairness

-----------------------------------------------------------------------------
(* Properties *)

\* A room action that was sent is neither in the shared queue nor will it be taken again: the
\* network loop empties the queue under the mutex under which it copies it.
ActionsGoOnce ==
    /\ \A i \in DOMAIN room_actions : room_actions[i].id > last_sent
    /\ pc \in {"connect", "write_room"} =>
            \A i \in DOMAIN taken.actions : taken.actions[i].id > last_sent

\* Only an action that was asked for while the network loop was on its way to another room can
\* reach a room it was not asked for in.
OnlyLateActionsStray ==
    pc = "write_room" /\ TalksToRoom =>
        \A i \in DOMAIN taken.actions : taken.actions[i].late \/ taken.actions[i].room = local.room.room

\* A result is that of an operation the client knows, and a room that is initialised is empty:
\* the Asserts of talk_to_room_server about what it reads.
ResultsAreKnown == failed \notin {"result unknown", "room not empty"}

\* The Assert of current_user_id: the user that is shown is the one of the connection.
ShownUserIsConnected == con.user # NoUser /\ user # NoUser => user = con.user

\* As long as the connection to the user server has not broken, the client is in its room and at
\* the market as the user it is connected to.
OneUser ==
    ~user_lost /\ pc # "ended" =>
        /\ local.room # NoRoomConnection => local.room.as_user = local.user
        /\ local.market # NoUser => local.market = local.user

\* A request is withdrawn only by an iteration that took this very request; one that is made
\* while the network loop is at work is there for the next.
RequestsAreServed ==
    [][ /\ user_requested # NoUser /\ user_requested' # user_requested => taken.user = user_requested
        /\ room_requested # NoRoom /\ room_requested' # room_requested => taken.room = room_requested
        /\ market_requested /\ ~market_requested' => taken.market ]_vars

\* What client.h:84 asks: the controls of the market do not stay disabled, though a view that is
\* asked for while there is no connection, or on one that breaks, is never sent, and though another
\* may be asked for before the first is answered.
WaitingEnds ==
    waiting ~> (~waiting \/ CurrentUser = NoUser \/ should_exit \/ ~Running)

=============================================================================
