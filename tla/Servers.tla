------------------------------ MODULE Servers ------------------------------
(***************************************************************************)
(* The room server, the market server and the user server together, as     *)
(* server.cpp starts them: one thread each, talking over connections.      *)
(* Both coordinators prepare transactions on the same accounts.            *)
(***************************************************************************)
EXTENDS MarketProperties, RoomItems

allVars == <<coordinatorVars, marketVars, entities>>

ServersInit == Init /\ RoomInit

ServersNext ==
    \/ MarketTurn /\ UNCHANGED entities
    \/ RoomTurn /\ UNCHANGED marketVars
    \/ UserServerTurn /\ UNCHANGED <<marketVars, entities>>
    \/ Disconnect /\ UNCHANGED <<marketVars, entities>>

ServersSpec == ServersInit /\ [][ServersNext]_allVars

(***************************************************************************)
(* Fairness, as in MarketProperties.  Nothing makes players act.           *)
(***************************************************************************)
RoomGoesOn ==
    /\ \/ CoordinatorStep(RoomServer) /\ UNCHANGED entities
       \/ \E fits, sent \in BOOLEAN : FinishFromInventory(fits, sent) \/ FinishToInventory(sent)
    /\ UNCHANGED marketVars

ServersFairness ==
    /\ \A u \in Users, s \in Servers :
        SF_allVars(HandlePacket(u, s) /\ UNCHANGED <<session, faults, marketVars, entities>>)
    /\ \A u \in Users :
        WF_allVars(SendUserUpdate(u) /\ UNCHANGED <<session, faults, marketVars, entities>>)
    /\ WF_allVars(MarketGoesOn /\ UNCHANGED entities)
    /\ WF_allVars(RoomGoesOn)

ServersFairSpec == ServersSpec /\ ServersFairness

-----------------------------------------------------------------------------
\* No account that could pay for its reservations ever loses that: what one server reserved
\* is not spent by a transaction of the other (user_server.cpp:691-715, 464-490).
StaysSolvent ==
    [][\A u \in Users : Solvent(account[u]) => Solvent(account'[u])]_allVars

\* What a server has reserved is out of reach of the other: a slot it holds keeps its item
\* and its holder, and its money stays reserved, unless the step handles a decision of its own.
ReservationsRespected ==
    [][\A u \in Users, s \in Servers :
        to_us'[u][s] = to_us[u][s] =>
            /\ account'[u].money_reservations[s] = account[u].money_reservations[s]
            /\ \A n \in Slots :
                account[u].inventory_reservations[n] = s =>
                    /\ account'[u].inventory_reservations[n] = s
                    /\ account'[u].inventory[n] = account[u].inventory[n]]_allVars

\* No decision to commit is under way.
Quiet == \A u \in Users, s \in Servers : ~WillCommit(u, s)

\* A slot of one inventory or one entity of the room.
EachItemInOnePlace ==
    \A it \in Items :
        Cardinality({p \in Users \X Slots : account[p[1]].inventory[p[2]].item = it})
        + MapThenSumSet(LAMBDA u : entities[<<it, u>>], Users) = 1

\* Whenever no commit is under way, every item is in exactly one place: neither a trade nor
\* placing nor taking copies or loses an item, even when both servers work on the same user
\* (market_server.cpp:461-562, room_server.cpp:1927-1987 and 999-1040).
ItemsConserved == Quiet /\ ~aborted => EachItemInOnePlace

\* Coins are neither made nor lost by trading (market_server.cpp:461-562).
Coins(accounts) == MapThenSumSet(LAMBDA u : accounts[u].money, Users)

MoneyConserved ==
    Quiet /\ ~aborted => \E initially \in InitialAccounts : Coins(account) = Coins(initially)

\* Once no commit is under way, the slot a buy order names, where the item will end up, is
\* held for it (market_server.h:57, market_server.cpp:374-422).
BuyersHaveTheirSlots ==
    Quiet /\ ~aborted =>
        \A a \in Articles : \A i \in DOMAIN orders[a] :
            orders[a][i].is_buy_order =>
                account[orders[a][i].user].inventory_reservations[orders[a][i].slot] = MarketServer

-----------------------------------------------------------------------------
\* The room server never waits for ever either: whatever breaks or times out, it turns to the
\* next player (room_server.cpp:529-634, 999-1040, 1927-1987).
RoomSessionsEnd == ~Idle(RoomServer) ~> (Idle(RoomServer) \/ aborted)
=============================================================================
