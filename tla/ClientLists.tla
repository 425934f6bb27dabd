---------------------------- MODULE ClientLists ----------------------------
(***************************************************************************)
(* The clients of a server: how they get from the queue into its list, how *)
(* they are disconnected while the list is walked, and how they learn of   *)
(* changes.  One list is modelled: the clients of one room, of one user,   *)
(* or of the market with the watchers of one article.                      *)
(*                                                                         *)
(* The three servers do the same things in different orders, and each      *)
(* order matters: disconnect_room_client removes the client from the array *)
(* and then says goodbye through a pointer that has come to be its         *)
(* neighbour's; the loop that updates the players of a user goes on at the *)
(* next index after a client was removed; the market walks watchers that   *)
(* may be removed on the way.                                              *)
(***************************************************************************)
EXTENDS ListeningLoop, SequencesExt

CONSTANT Players    \* clients that are players; the others are servers

ASSUME PlayersAssumption == Players \subseteq Clients

VARIABLES
    list,           \* server->clients (of one room, of one user, of the market)
    at,             \* the index of the loop under way
    did_change,     \* Room::did_change, User::did_change, Market_Article::did_change
    told,           \* the clients that have been sent the state as it is
    watchers,       \* Market_Article::watchers
    aborted         \* an Assert has failed

listVars == <<list, watchers, told>>
clVars   == <<kind, loopVars, threadVars, queue, main, conn, accept_failures, list, at, did_change, told, watchers, aborted>>

TypeOK ==
    /\ ListeningTypeOK
    /\ list \in Seq(Clients)
    /\ at \in Nat \ {0}
    /\ did_change \in BOOLEAN
    /\ told \in SUBSET Clients
    /\ watchers \in Seq(Clients)
    /\ aborted \in BOOLEAN

Init ==
    /\ ListeningInit
    /\ list = <<>>
    /\ at = 1
    /\ did_change = FALSE
    /\ told = {}
    /\ watchers = <<>>
    /\ aborted = FALSE

Watches(c) == c \in Range(watchers)

\* array_unordered_remove: the last element fills the gap.
SwapRemove(s, i) == [j \in 1..Len(s) - 1 |-> IF j = i THEN s[Len(s)] ELSE s[j]]

\* Mutant: disconnect_market_client leaves the view connections.
WithoutWatcher_Left(c) == watchers
\* remove_view_connections
WithoutWatcher(c) ==
    IF Watches(c) THEN SwapRemove(watchers, CHOOSE i \in DOMAIN watchers : watchers[i] = c) ELSE watchers

\* Mutant: the user and market servers send through the pointer after the removal, as
\* the room server does.
Dismissed_AfterRemoval(i) == IF i < Len(list) THEN list[i + 1] ELSE list[i]

\* Whom disconnect_..._client(&list[i]) says goodbye to, and whose socket it closes.  The
\* room server does so after the removal: the pointer is then at the next client, or past
\* the end at what is left of the last one.
Dismissed(i) == IF kind = "room" /\ i < Len(list) THEN list[i + 1] ELSE list[i]

Disconnect(i) ==
    /\ conn' = [conn EXCEPT ![Dismissed(i)] = "closed"]
    /\ list' = RemoveAt(list, i)
    /\ watchers' = WithoutWatcher(list[i])
    /\ told' = told \ {list[i]}

\* An Assert fails: the process ends.
Abort ==
    /\ aborted' = TRUE
    /\ UNCHANGED <<kind, loopVars, threadVars, queue, main, conn, accept_failures, listVars, at, did_change>>

EnterPhase(m) == main' = m /\ at' = 1

-----------------------------------------------------------------------------
(* Listening to what the clients have to say *)

receiveFrame == UNCHANGED <<kind, loopVars, threadVars, queue, accept_failures, did_change, aborted>>

Receiving == main = "receiving" /\ at <= Len(list)

\* The client has sent nothing, or what its handler answers; its changes are ChangeState's.
HearClient ==
    /\ Receiving
    /\ conn[list[at]] \in {"well", "lost"}
    /\ at' = at + 1
    /\ UNCHANGED <<main, conn, listVars>>
    /\ receiveFrame

\* A goodbye, a packet that is refused, or a socket that is closed already.
LoseClient ==
    /\ Receiving
    /\ conn[list[at]] \in {"leaving", "closed"}
    /\ Disconnect(at)
    /\ UNCHANGED <<main, at>>
    /\ receiveFrame

\* RSB_PLAYER_ACTION and RSB_PLACE_FROM_INVENTORY: PACKET_RESULT cannot be sent.  RCB_Packet
\* disconnects the client, and so does the main loop: the first by an answer of FALSE, the
\* second by the next receive through a pointer to a closed connection.  If the client
\* was the last, the pointer is past the end and disconnect_room_client's Assert fails.
RoomReplyFails ==
    /\ Receiving
    /\ kind = "room"
    /\ conn[list[at]] = "lost"
    /\ IF at = Len(list) THEN Abort
       ELSE LET second == IF at + 1 < Len(list) THEN list[at + 2] ELSE list[at + 1] IN
            /\ conn' = [conn EXCEPT ![list[at + 1]] = "closed", ![second] = "closed"]
            /\ list' = RemoveAt(RemoveAt(list, at), at)
            /\ told' = told \ {list[at], list[at + 1]}
            /\ UNCHANGED <<main, at, watchers>>
            /\ receiveFrame

\* MSB_SET_VIEW_TARGET: set_view_target, and a MARKET_UPDATE if that can be sent.
SetViewTarget ==
    /\ Receiving
    /\ kind = "market"
    /\ conn[list[at]] \in {"well", "lost"}
    /\ \E watch \in BOOLEAN :
            watchers' = IF watch THEN Append(WithoutWatcher(list[at]), list[at]) ELSE WithoutWatcher(list[at])
    /\ told' = told \cup {list[at]}
    /\ UNCHANGED <<main, at, conn, list>>
    /\ receiveFrame

\* ... and if it cannot: MCB_Packet disconnects the client and forgets only its own
\* pointer to it, so that the main loop goes on with whoever is at this index now.  Past
\* the end that is a connection already closed, and array_ordered_remove's Assert fails.
MarketReplyFails ==
    /\ Receiving
    /\ kind = "market"
    /\ conn[list[at]] = "lost"
    /\ IF at = Len(list) THEN Abort
       ELSE /\ Disconnect(at)
            /\ UNCHANGED <<main, at>>
            /\ receiveFrame

-----------------------------------------------------------------------------
(* Sending updates *)

\* All clients have been heard.  Handlers, the simulation and the matching of orders may
\* have changed what clients are told of.
EndReceiving ==
    /\ main = "receiving"
    /\ at > Len(list)
    /\ \E changed \in BOOLEAN :
            /\ did_change' = (did_change \/ changed)
            /\ told' = IF changed THEN {} ELSE told
    /\ EnterPhase("updating")
    /\ UNCHANGED <<kind, loopVars, threadVars, queue, conn, accept_failures, list, watchers, aborted>>

\* Whom the update loop visits: the list, but in the market the article's watchers.
Audience == IF kind = "market" THEN watchers ELSE list

updateFrame == UNCHANGED <<kind, loopVars, threadVars, queue, accept_failures, did_change, aborted>>

Updating == main = "updating" /\ did_change /\ at <= Len(Audience)

\* The user server's update is for players.
SkipServer ==
    /\ Updating
    /\ kind = "user" /\ Audience[at] \notin Players
    /\ at' = at + 1
    /\ UNCHANGED <<main, conn, listVars>>
    /\ updateFrame

IsTold(c) == kind = "user" => c \in Players

\* find_market_client may find no client of a watcher's id: Assert(false).
SendUpdate ==
    /\ Updating
    /\ IsTold(Audience[at])
    /\ conn[Audience[at]] # "closed"
    /\ IF Audience[at] \in Range(list) THEN
            /\ told' = told \cup {Audience[at]}
            /\ at' = at + 1
            /\ UNCHANGED <<main, conn, list, watchers>>
            /\ updateFrame
       ELSE Abort

\* Mutant: the room server forgets "c--".
IndexAfterLoss_Skips == at + 1
\* Mutant: it steps back twice.
IndexAfterLoss_TwoBack == IF kind = "room" THEN at - 1 ELSE at + 1
\* Where the loop goes on after a client was removed: only the room server steps back.
IndexAfterLoss == IF kind = "room" THEN at ELSE at + 1

UpdateFails ==
    /\ Updating
    /\ IsTold(Audience[at])
    /\ CanFailSend(Audience[at])
    /\ \E i \in DOMAIN list : list[i] = Audience[at] /\ Disconnect(i)
    /\ at' = IndexAfterLoss
    /\ UNCHANGED main
    /\ updateFrame

EndUpdating ==
    /\ main = "updating"
    /\ did_change => at > Len(Audience)
    /\ did_change' = FALSE
    /\ EnterPhase("admitting")
    /\ UNCHANGED <<kind, loopVars, threadVars, queue, conn, accept_failures, listVars, aborted>>

-----------------------------------------------------------------------------
(* add_new_..._clients, under the mutex *)

admitFrame == UNCHANGED <<kind, loopVars, threadVars, main, accept_failures, at, aborted>>

Admitting == main = "admitting" /\ queue # <<>>

\* Mutant: the queue is not emptied.
QueueAfterOne_Kept == queue
QueueAfterOne == Tail(queue)

\* No such room or user, or a HELLO that cannot be sent.
TurnAway ==
    /\ Admitting
    /\ kind # "market" \/ CanFailSend(Head(queue))
    /\ conn' = [conn EXCEPT ![Head(queue)] = "closed"]
    /\ queue' = QueueAfterOne
    /\ UNCHANGED <<listVars, did_change>>
    /\ admitFrame

\* The client is sent the state as it is; then a room may get an entity for the new
\* player, which is a change.
Admit ==
    /\ Admitting
    /\ list' = Append(list, Head(queue))
    /\ queue' = QueueAfterOne
    /\ \E changed \in BOOLEAN :
            /\ changed => kind = "room"
            /\ did_change' = (did_change \/ changed)
            /\ told' = IF changed THEN {} ELSE IF kind = "market" THEN told ELSE told \cup {Head(queue)}
    /\ UNCHANGED <<conn, watchers>>
    /\ admitFrame

\* The state of the user or the market cannot be sent to a client that has been added.
AdmitAndLose ==
    /\ Admitting
    /\ kind # "room" /\ Head(queue) \in Players
    /\ CanFailSend(Head(queue))
    /\ conn' = [conn EXCEPT ![Head(queue)] = "closed"]
    /\ queue' = QueueAfterOne
    /\ UNCHANGED <<listVars, did_change>>
    /\ admitFrame

\* ROOM_INIT cannot be sent to a client that is not in the array yet: RCB_Packet calls
\* disconnect_room_client all the same, where an Assert fails.
RoomInitFails ==
    /\ Admitting
    /\ kind = "room"
    /\ CanFailSend(Head(queue))
    /\ Abort

EndTurn ==
    /\ main = "admitting"
    /\ queue = <<>>
    /\ EnterPhase("top")
    /\ UNCHANGED <<kind, loopVars, threadVars, queue, conn, accept_failures, did_change, listVars, aborted>>

-----------------------------------------------------------------------------
lists == <<list, at, did_change, told, watchers, aborted>>

ThreadMoves == ~aborted /\ ThreadStep /\ UNCHANGED lists

MainMoves ==
    /\ ~aborted
    /\ \/ (BeginTurn \/ RestartListening \/ StopListening) /\ UNCHANGED lists
       \/ HearClient \/ LoseClient \/ RoomReplyFails \/ MarketReplyFails
       \/ EndReceiving \/ SkipServer \/ SendUpdate \/ UpdateFails \/ EndUpdating
       \/ TurnAway \/ Admit \/ AdmitAndLose \/ RoomInitFails \/ EndTurn

Environment ==
    /\ ~aborted
    /\ \/ (AcceptFails \/ RestartFails \/ RequestExit \/ \E c \in Clients : AcceptClient(c) \/ HelloFails(c) \/ Depart(c))
          /\ UNCHANGED lists
       \/ SetViewTarget

Next == ThreadMoves \/ MainMoves \/ Environment

Spec == Init /\ [][Next]_clVars

\* Both threads run as long as the process does.  A mutex that is free again and again is
\* got in the end: the main loop sleeps without it once per turn.
FairSpec ==
    /\ Spec
    /\ WF_clVars(ThreadMoves) /\ WF_clVars(MainMoves)
    /\ SF_clVars(ThreadMoves /\ EnqueueClient)

-----------------------------------------------------------------------------
Held == {c \in Clients : c \in Range(queue) \cup Range(list) \/ (c = greeted)}

\* The thread, the queue and the list never have the same connection twice, and but for
\* the room server, which closes its clients' neighbours, what they have is exactly what
\* is open: nothing is dropped on the way and nothing is closed that is still in use
\* (enqueue_client, add_new_..._clients, disconnect_..._client).
HandedOverOnce ==
    /\ IsInjective(queue \o list)
    /\ greeted \notin Range(queue \o list)
    /\ kind # "room" => Held = {c \in Clients : Open(c)}

\* No client is dismissed for nothing: it is leaving or lost, or, in a room, one before it
\* in the list is (disconnect_room_client lets its neighbour pay for it, and the neighbour's
\* neighbour when that is found closed).
DismissedForCause ==
    [][\A j \in DOMAIN list :
            conn[list[j]] = "well" /\ conn'[list[j]] = "closed" =>
                kind = "room" /\ \E i \in 1..j - 1 : conn[list[i]] # "well"]_clVars

\* Once a room has sent its changes, every client still in it has them, however many were
\* lost on the way (the update loop of room_server_main_loop).
RoomIsTold == kind = "room" /\ ~did_change => Range(list) \subseteq told

\* A watcher is a client, and watches once, whatever became of the clients in between:
\* the Assert(false) of market_server_main_loop cannot fail.
WatchersAreClients == IsInjective(watchers) /\ Range(watchers) \subseteq Range(list)

Accepting == thread = "accepting" /\ ~client_accept_failed

Over == main = "ended" \/ aborted

\* When accepting fails, the room server's listening loop is joined and accepts again ("If you want
\* to restart the loop, call start_listening_loop again", net_server.h), whatever the thread is busy
\* with, and also after the queue was full.  The user and the market server do not zero the loop, so
\* they join the new thread, too, and wait for ever.
RoomAcceptsAgain == (kind = "room" /\ ~Accepting) ~> Accepting \/ Over

\* "This will request the loop to exit, and wait for it to do so": it does exit if there
\* was room in the queue for the connection the thread may be busy with.
StopEnds == (main = "stopping" /\ Len(queue) < QueueCapacity) ~> Over
=============================================================================
