------------------------------ MODULE Trading ------------------------------
(***************************************************************************)
(* What the market promises its players, with no servers, no messages and  *)
(* no reservations: items and coins have one owner each at any time, an    *)
(* offer stands only while its owner can honour it, and a trade moves one  *)
(* item one way and the price the other way in one step.                   *)
(***************************************************************************)
EXTENDS Integers, SequencesExt

CONSTANTS Users, Items, Articles, ItemType, Prices

VARIABLES
    owned,      \* [Users -> SUBSET Items]
    money,      \* [Users -> Nat]
    book        \* [Articles -> Seq(Offers)]

tradingVars == <<owned, money, book>>

Bid(u, p)     == [is_buy_order |-> TRUE,  user |-> u, price |-> p]
Ask(u, p, it) == [is_buy_order |-> FALSE, user |-> u, price |-> p, item |-> it]

BidsOf(u, a) == {i \in DOMAIN book[a] : book[a][i].is_buy_order /\ book[a][i].user = u}

\* The coins a user has bid and the coins left to bid.
Promised(u)  == MapThenSumSet(LAMBDA a : MapThenSumSet(LAMBDA i : book[a][i].price, BidsOf(u, a)), Articles)
Available(u) == money[u] - Promised(u)

OnSale(it) == \E a \in Articles : \E i \in DOMAIN book[a] : ~book[a][i].is_buy_order /\ book[a][i].item = it

Init ==
    /\ owned \in [Users -> SUBSET Items]
    /\ \A u, v \in Users : u # v => owned[u] \cap owned[v] = {}
    /\ money \in [Users -> Nat]
    /\ book = [a \in Articles |-> <<>>]

PlaceBid(u, a, p) ==
    /\ p <= Available(u)
    /\ book' = [book EXCEPT ![a] = Append(@, Bid(u, p))]
    /\ UNCHANGED <<owned, money>>

PlaceAsk(u, it, p) ==
    /\ it \in owned[u]
    /\ ~OnSale(it)
    /\ book' = [book EXCEPT ![ItemType[it]] = Append(@, Ask(u, p, it))]
    /\ UNCHANGED <<owned, money>>

\* Bid i and ask j of article a, of two users, meet at the ask's price.
Trade(a, i, j) ==
    LET bid == book[a][i]
        ask == book[a][j]
    IN  /\ bid.is_buy_order /\ ~ask.is_buy_order
        /\ bid.user # ask.user
        /\ ask.price <= bid.price
        /\ owned' = [owned EXCEPT ![ask.user] = @ \ {ask.item}, ![bid.user] = @ \cup {ask.item}]
        /\ money' = [money EXCEPT ![ask.user] = @ + ask.price, ![bid.user] = @ - ask.price]
        /\ book' = [book EXCEPT ![a] = RemoveAt(RemoveAt(@, Max({i, j})), Min({i, j}))]

Next ==
    \/ \E u \in Users, a \in Articles, p \in Prices : PlaceBid(u, a, p)
    \/ \E u \in Users, it \in Items, p \in Prices : PlaceAsk(u, it, p)
    \/ \E a \in Articles : \E i, j \in DOMAIN book[a] : Trade(a, i, j)

Spec == Init /\ [][Next]_tradingVars
=============================================================================
