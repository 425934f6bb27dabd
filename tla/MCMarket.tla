------------------------------ MODULE MCMarket ------------------------------
(***************************************************************************)
(* Instances of MarketOrders for TLC, and what the market promises.        *)
(***************************************************************************)
EXTENDS MarketProperties

CONSTANTS u1, u2, i1, i2

EmptySlot == [item |-> NoItem, reserved |-> FALSE]

\* An account with the given items in its first slots, and nothing reserved.
AccountWith(items, money) ==
    [inventory |-> [n \in Slots |-> IF n <= Len(items) THEN [item |-> items[n], reserved |-> FALSE] ELSE EmptySlot],
     inventory_reservations |-> [n \in Slots |-> NoServer],
     money |-> money,
     total_money_reserved |-> 0,
     money_reservations |-> [s \in Servers |-> 0]]

MCItemType == [it \in Item |-> "chair"]

\* Two users with two items and three coins between them.
TwoTraders == {u1 :> AccountWith(<<i1>>, 2) @@ u2 :> AccountWith(<<i2>>, 1)}

\* One user with an item, one with coins to bid for it more than once.
OneSeller == {u1 :> AccountWith(<<i1>>, 0) @@ u2 :> AccountWith(<<>>, 2)}

\* One user with an item, one with a coin to bid for it.
SellerAndBuyer == {u1 :> AccountWith(<<i1>>, 0) @@ u2 :> AccountWith(<<>>, 1)}
=============================================================================
