-------------------------- MODULE MarketProperties --------------------------
(***************************************************************************)
(* What the market has to keep true across its own book, the accounts at   *)
(* the user server and the messages between them.                          *)
(***************************************************************************)
EXTENDS MarketOrders

\* The book without the two orders of a trade that is decided.
SettledBook(a) ==
    IF TradeDecided /\ matching.article = a
    THEN RemoveAt(RemoveAt(orders[a], BestMatch(orders[a], matching.i)), matching.i)
    ELSE orders[a]

\* Where in the book the orders of a user stand.
Standing(u) ==
    {p \in Articles \X (1..MaxOrders) :
        p[2] <= Len(SettledBook(p[1])) /\ SettledBook(p[1])[p[2]].user = u}

-----------------------------------------------------------------------------
\* No Assert of the user server's transaction code ever fails: what a server voted to
\* commit can still be committed when the decision arrives (user_server.cpp:286-522), and
\* decisions come exactly when one is awaited (user_server.cpp:762, 804).
NoAssertFails == ~aborted

\* Every standing order has at the user server exactly what it was placed with: each of a
\* user's orders holds a slot of its own, that slot is reserved by the market server, no
\* other slot is, and the money the market server has reserved is the sum of the bids.
\* So nothing is promised twice, and no reservation outlives its order
\* (market_server.cpp:374-459 against user_server.cpp:416-490).
OrdersBacked ==
    ~aborted => \A u \in Users :
        LET a     == Settled(u)
            mine  == Standing(u)
            order == [p \in mine |-> SettledBook(p[1])[p[2]]]
            bids  == {p \in mine : order[p].is_buy_order}
            held  == {order[p].slot : p \in bids} \cup {SlotOf(a, order[p].item) : p \in mine \ bids}
        IN  /\ \A p \in mine \ bids : SlotsHolding(a, order[p].item) # {}
            /\ Cardinality(held) = Cardinality(mine)
            /\ held = {n \in Slots : a.inventory_reservations[n] = MarketServer}
            /\ a.money_reservations[MarketServer] = MapThenSumSet(LAMBDA p : order[p].price, bids)

\* Every item is in exactly one inventory, in one slot: a trade neither copies nor loses it
\* (market_server.cpp:461-562).
EachItemOnce ==
    ~aborted =>
        LET settled == [u \in Users |-> Settled(u)]
        IN  \A it \in Items :
                Cardinality({p \in Users \X Slots : settled[p[1]].inventory[p[2]].item = it}) = 1

\* No trade is under way: the market server is between two sessions, and every transaction it had prepared
\* has been decided at its user server.
NoTradeUnderWay == Idle(MarketServer) /\ \A u \in Users : ~current[u][MarketServer].exists

\* What is offered for sale has not been sold already: when no trade is under way, an item in the book is
\* in nobody's inventory but its seller's.  The code's comment on a decision that cannot be sent to the
\* seller, after the buyer's was, is "This should not happen" (market_server.cpp:549-557).
ItemOnSaleIsUnsold ==
    ~aborted /\ NoTradeUnderWay =>
        \A a \in Articles : \A i \in DOMAIN orders[a] :
            ~orders[a][i].is_buy_order =>
                \A u \in Users \ {orders[a][i].user} : SlotsHolding(account[u], orders[a][i].item) = {}

\* What the players own and what is on offer, seen through settled accounts.
OwnedNow  == [u \in Users |-> {it \in Items : SlotsHolding(Settled(u), it) # {}}]
MoneyNow  == [u \in Users |-> Settled(u).money]
OfferOf(o) ==
    IF o.is_buy_order THEN [is_buy_order |-> TRUE, user |-> o.user, price |-> o.price]
    ELSE [is_buy_order |-> FALSE, user |-> o.user, price |-> o.price, item |-> o.item]
OffersNow == [a \in Articles |-> [i \in DOMAIN SettledBook(a) |-> OfferOf(SettledBook(a)[i])]]

\* Seen through settled accounts, the market is the Trading specification: every trade is
\* one step that moves the item and the price together, between a bid and an ask that cross.
T == INSTANCE Trading WITH owned <- OwnedNow, money <- MoneyNow, book <- OffersNow

TradesAreAtomic == T!Spec

\* Whenever an account changes, its players are owed an update: did_change is set in the
\* same step, although the MONEY operations leave it alone (user_server.cpp:464-515).
ChangesAreAnnounced == [][\A u \in Users : account'[u] # account[u] => did_change'[u]]_vars

-----------------------------------------------------------------------------
(***************************************************************************)
(* Fairness.  Every thread's main loop runs for as long as the process     *)
(* does and comes to every connection and every article in turn, a         *)
(* blocking read returns within a second, and a send succeeds or fails at  *)
(* once.  The user server may always have another user's update to send    *)
(* first, and an order may always come between two passes, but each lasts  *)
(* one turn of the loop: hence strong fairness for HandlePacket and        *)
(* BeginPass.  Nothing makes players place orders, connections break or    *)
(* reads time out.                                                         *)
(***************************************************************************)
MarketGoesOn ==
    \/ CoordinatorStep(MarketServer) /\ UNCHANGED marketVars
    \/ \E sent \in BOOLEAN : FinishPlaceOrder(sent) \/ FinishExchange(sent)
    \/ ContinuePass

Fairness ==
    /\ \A u \in Users :
        /\ SF_vars(HandlePacket(u, MarketServer) /\ UNCHANGED <<session, faults, marketVars>>)
        /\ WF_vars(SendUserUpdate(u) /\ UNCHANGED <<session, faults, marketVars>>)
    /\ WF_vars(MarketGoesOn)
    /\ \A a \in Articles : SF_vars(BeginPass(a))

FairSpec == Spec /\ Fairness

\* As long as every connection holds and every answer is in time, no two orders that could
\* trade stand in the book for ever, however many orders come in meanwhile
\* (market_server.cpp:740-813).
CrossingOrdersTrade ==
    \A a \in Articles : Matchable(orders[a], 1) # {} ~> (Matchable(orders[a], 1) = {} \/ ~AllWell)

\* The market server never waits for ever: whatever breaks or times out, its session ends
\* and it turns to the next player (market_server.cpp:317-562).
SessionsEnd == ~Idle(MarketServer) ~> (Idle(MarketServer) \/ aborted)

\* A transaction a user server has prepared does not stay undecided: it is committed,
\* aborted, or dropped with its connection (user_server.cpp:735-815, 825-859).
PreparedIsDecided ==
    \A u \in Users :
        current[u][MarketServer].exists ~> (~current[u][MarketServer].exists \/ aborted)

\* However transactions, faults and decisions fall together, the books of an account agree:
\* a slot is flagged RESERVED exactly when a server is recorded for it, and
\* total_money_reserved is the sum of what the servers hold (user_server.cpp:286-522).
AccountsWellFormed == \A u \in Users : WellFormed(account[u])
=============================================================================
