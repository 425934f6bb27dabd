----------------------------- MODULE MCServers -----------------------------
(***************************************************************************)
(* Instances of the three servers together for TLC.                        *)
(***************************************************************************)
EXTENDS Servers

CONSTANTS u1, u2, i1

EmptySlot == [item |-> NoItem, reserved |-> FALSE]

\* An account with the given items in its first slots, and nothing reserved.
AccountWith(items, money) ==
    [inventory |-> [n \in Slots |-> IF n <= Len(items) THEN [item |-> items[n], reserved |-> FALSE] ELSE EmptySlot],
     inventory_reservations |-> [n \in Slots |-> NoServer],
     money |-> money,
     total_money_reserved |-> 0,
     money_reservations |-> [s \in Servers |-> 0]]

MCItemType == [it \in Item |-> "chair"]

\* One user with an item, one with a coin to bid for it.
SellerAndBuyer == {u1 :> AccountWith(<<i1>>, 1) @@ u2 :> AccountWith(<<>>, 1)}

\* One user, with an item and a coin.
OneUser == {u1 :> AccountWith(<<i1>>, 1)}

\* One user with a coin, whose item is in the room.
OneEmptyHanded == {u1 :> AccountWith(<<>>, 1)}
OneEntity == {[e \in Item \X Users |-> IF e = <<i1, u1>> THEN 1 ELSE 0]}

\* The room holds nothing.
NoEntity == {[e \in Item \X Users |-> 0]}
=============================================================================
