---------------------------- MODULE MarketOrders ----------------------------
(***************************************************************************)
(* The market server's order book (market_server.cpp): placing an order    *)
(* reserves at the user server what the order promises, and each turn of   *)
(* the main loop matches the orders of every article and exchanges item    *)
(* and money between the two users of a match.  All of it runs on one      *)
(* thread, so while a session is under way no other order is handled, and  *)
(* a matching pass over an article is never interrupted by a new order.    *)
(***************************************************************************)
EXTENDS Coordinator, SequencesExt

CONSTANTS
    Articles,       \* item types
    ItemType,       \* [Item -> Articles]
    MaxOrders       \* bound: orders standing on an article

ASSUME ArticlesAssumption == IsFiniteSet(Articles)
ASSUME ItemTypeAssumption == ItemType \in [Item -> Articles]
ASSUME MaxOrdersAssumption == MaxOrders \in Nat

VARIABLES
    orders,     \* [Articles -> Seq(Market_Order)]
    matching    \* the pass under way: update_article's article and its i, or NoPass

marketVars == <<orders, matching>>

\* A Market_Order.  A buy order uses "slot", where the item will end up; a sell order "item".
BuyOrder(u, price, slot)  == [is_buy_order |-> TRUE,  user |-> u, price |-> price, slot |-> slot, item |-> NoItem]
SellOrder(u, price, item) == [is_buy_order |-> FALSE, user |-> u, price |-> price, slot |-> 0, item |-> item]

Market_Order ==
         [is_buy_order : {TRUE},  user : Users, price : Prices, slot : Slots, item : {NoItem}]
    \cup [is_buy_order : {FALSE}, user : Users, price : Prices, slot : {0}, item : Item]

NoPass == [article |-> "none", i |-> 0]

MarketInit ==
    /\ orders = [a \in Articles |-> <<>>]
    /\ matching = NoPass

-----------------------------------------------------------------------------
(***************************************************************************)
(* MSB_PLACE_ORDER.                                                        *)
(***************************************************************************)
PlaceOrder(u) ==
    /\ matching = NoPass
    /\ \A a \in Articles : Len(orders[a]) < MaxOrders
    /\ \/ \E a \in Articles, p \in Prices : Begin(MarketServer, Buy(u, a, p))
       \/ \E it \in Items, p \in Prices   : Begin(MarketServer, Sell(u, it, p))
    /\ UNCHANGED marketVars

\* reserve_slot_and_money_for_buy and reserve_item_for_sale end: the order stands if
\* the vote was to commit and the decision could be sent.
FinishPlaceOrder(sent) ==
    LET it == session[MarketServer]
        p  == it.purpose
    IN  /\ ~Idle(MarketServer)
        /\ p.kind \in {"BUY", "SELL"}
        /\ DecideFirstLeg(MarketServer, session[MarketServer].can_commit, sent)
        /\ orders' = IF ~(it.can_commit /\ sent) THEN orders
                     ELSE IF p.kind = "BUY"
                     THEN [orders EXCEPT ![p.article] = Append(@, BuyOrder(p.user, p.price, it.slot))]
                     ELSE [orders EXCEPT ![ItemType[it.item]] = Append(@, SellOrder(p.user, p.price, it.item))]
        /\ UNCHANGED matching

-----------------------------------------------------------------------------
(***************************************************************************)
(* update_article.  Order i is matched with the order after it that leaves *)
(* the largest difference between bid and ask, the first of these if there *)
(* are several.                                                            *)
(***************************************************************************)
MoneyDelta(o) == IF o.is_buy_order THEN -o.price ELSE o.price
Combined(os, i, j) == MoneyDelta(os[i]) + MoneyDelta(os[j])

Matches(os, i) ==
    {j \in (i+1)..Len(os) : /\ os[i].is_buy_order # os[j].is_buy_order
                            /\ os[i].user # os[j].user
                            /\ Combined(os, i, j) <= 0}

BestMatch(os, i) ==
    CHOOSE j \in Matches(os, i) :
        \A k \in Matches(os, i) : \/ Combined(os, i, j) < Combined(os, i, k)
                                  \/ Combined(os, i, j) = Combined(os, i, k) /\ j <= k

Matchable(os, from) == {i \in from..Len(os) : Matches(os, i) # {}}

\* Mutant: at the bid.
TradeOf_AtBid(os, i, j) ==
    LET buy  == IF os[i].is_buy_order THEN os[i] ELSE os[j]
        sell == IF os[i].is_buy_order THEN os[j] ELSE os[i]
    IN  Exchange(buy.user, sell.user, sell.item, buy.slot, buy.price, buy.price)

\* exchange_item_and_money for orders i and j of an article, at the lower of the two prices.
TradeOf(os, i, j) ==
    LET buy  == IF os[i].is_buy_order THEN os[i] ELSE os[j]
        sell == IF os[i].is_buy_order THEN os[j] ELSE os[i]
    IN  Exchange(buy.user, sell.user, sell.item, buy.slot, buy.price, Min({buy.price, sell.price}))

\* Go on with the pass over article a from order "from": the orders in between match nothing.
ExchangeNext(a, from) ==
    LET i == Min(Matchable(orders[a], from))
    IN  /\ Matchable(orders[a], from) # {}
        /\ Begin(MarketServer, TradeOf(orders[a], i, BestMatch(orders[a], i)))
        /\ matching' = [article |-> a, i |-> i]
        /\ UNCHANGED orders

BeginPass(a) == matching = NoPass /\ ExchangeNext(a, 1)

ContinuePass ==
    /\ ~aborted
    /\ matching # NoPass
    /\ Idle(MarketServer)
    /\ \/ ExchangeNext(matching.article, matching.i)
       \/ /\ Matchable(orders[matching.article], matching.i) = {}
          /\ matching' = NoPass
          /\ UNCHANGED <<coordinatorVars, orders>>

\* The exchange ends.  If it succeeded both orders go, and the pass looks at the order
\* that is now i-th; if not both stay, to be tried again in the next pass.
FinishExchange(sent) ==
    LET a  == matching.article
        os == orders[a]
    IN  /\ ~Idle(MarketServer)
        /\ session[MarketServer].purpose.kind = "EXCHANGE"
        /\ DecideFirstLeg(MarketServer, session[MarketServer].can_commit, sent)
        /\ IF session[MarketServer].can_commit /\ sent
           THEN /\ orders' = [orders EXCEPT ![a] = RemoveAt(RemoveAt(os, BestMatch(os, matching.i)), matching.i)]
                /\ UNCHANGED matching
           ELSE /\ matching' = [matching EXCEPT !.i = @ + 1]
                /\ UNCHANGED orders

MarketTurn ==
    \/ CoordinatorStep(MarketServer) /\ UNCHANGED marketVars
    \/ \E u \in Users : PlaceOrder(u)
    \/ \E sent \in BOOLEAN : FinishPlaceOrder(sent)
    \/ \E a \in Articles : BeginPass(a)
    \/ ContinuePass
    \/ \E sent \in BOOLEAN : FinishExchange(sent)

-----------------------------------------------------------------------------
(***************************************************************************)
(* The market with the user server, and no room server.                    *)
(***************************************************************************)
vars == <<coordinatorVars, marketVars>>

Init == CoordinatorInit /\ MarketInit

Next ==
    \/ MarketTurn
    \/ UserServerTurn /\ UNCHANGED marketVars
    \/ Disconnect /\ UNCHANGED marketVars

Spec == Init /\ [][Next]_vars

TypeOK ==
    /\ CoordinatorTypeOK(Articles)
    /\ orders \in [Articles -> Seq(Market_Order)]
    /\ matching \in {NoPass} \cup [article : Articles, i : Nat]
=============================================================================
