---------------------------- MODULE UserAccount ----------------------------
(***************************************************************************)
(* What the user server keeps for one user (user.h), and the two           *)
(* procedures that decide a transaction on it: transaction_possible, run   *)
(* when a PREPARE arrives, and commit_transaction, run when a COMMIT does  *)
(* (user_server.cpp).  There are no variables here: a state machine that   *)
(* holds accounts extends this module.                                     *)
(*                                                                         *)
(* Abstractions.  A slot's FILLED flag is "item # NoItem": the code reads  *)
(* an item only after testing the flag.  Slots are numbered from 1, so a   *)
(* slot number here is the code's slot_ix_plus_one.  money_reservations,   *)
(* an array with at most one entry per server whose entry is removed when  *)
(* it reaches 0, is a function from servers to amounts.  Exactly two       *)
(* servers prepare transactions: server.cpp creates one room server and    *)
(* one market server.  Money is s64 in the code and stays far from its     *)
(* ends here, so it is an integer.                                         *)
(***************************************************************************)
EXTENDS Integers, Sequences, FiniteSetsExt

CONSTANTS
    NumSlots,       \* ARRLEN(S__User::inventory)
    Items,          \* item identities
    NoItem,         \* what a slot that is not FILLED holds
    BlankItem,      \* the item read from a vote payload that holds none (zeroes, or what was on the stack)
    RoomServer,     \* server_id of the room server
    MarketServer,   \* server_id of the market server
    NoServer        \* 0 in inventory_reservations

ASSUME NumSlotsAssumption == NumSlots \in Nat \ {0}
ASSUME ItemAssumption ==
    /\ NoItem \notin Items
    /\ BlankItem \notin Items
    /\ BlankItem # NoItem
ASSUME ServerAssumption ==
    /\ RoomServer # MarketServer
    /\ NoServer # RoomServer
    /\ NoServer # MarketServer

Slots   == 1..NumSlots
Servers == {RoomServer, MarketServer}
Item    == Items \cup {BlankItem}

Inventory_Slot == [item : Item \cup {NoItem}, reserved : BOOLEAN]

Account ==
    [inventory              : [Slots -> Inventory_Slot],
     inventory_reservations : [Slots -> Servers \cup {NoServer}],
     money                  : Int,
     total_money_reserved   : Int,
     money_reservations     : [Servers -> Nat]]

(***************************************************************************)
(* Operations.  A transaction is a sequence of at most                     *)
(* MAX_US_TRANSACTION_OPERATIONS of them.                                  *)
(***************************************************************************)
MAX_US_TRANSACTION_OPERATIONS == 4

ItemToServer(item)       == [type |-> "ITEM_TO_SERVER", item |-> item]                 \* client_bound: out of the inventory
ItemToInventory(item, n) == [type |-> "ITEM_TO_INVENTORY", item |-> item, slot |-> n]  \* server_bound: into slot n, or anywhere if n = 0
ItemReserve(item)        == [type |-> "ITEM_RESERVE", item |-> item]
ItemUnreserve(item)      == [type |-> "ITEM_UNRESERVE", item |-> item]
SlotReserve              == [type |-> "SLOT_RESERVE"]
SlotUnreserve(n)         == [type |-> "SLOT_UNRESERVE", slot |-> n]
MoneyTransfer(x, unres)  == [type |-> "MONEY_TRANSFER", amount |-> x, do_unreserve |-> unres]
MoneyReserve(x)          == [type |-> "MONEY_RESERVE", amount |-> x]
MoneyUnreserve(x)        == [type |-> "MONEY_UNRESERVE", amount |-> x]

Amounts == Nat \ {0}

Operations ==
         [type : {"ITEM_TO_SERVER", "ITEM_RESERVE", "ITEM_UNRESERVE"}, item : Item]
    \cup [type : {"ITEM_TO_INVENTORY"}, item : Item, slot : 0..NumSlots]
    \cup [type : {"SLOT_RESERVE"}]
    \cup [type : {"SLOT_UNRESERVE"}, slot : Slots]
    \cup [type : {"MONEY_TRANSFER"}, amount : Int, do_unreserve : BOOLEAN]
    \cup [type : {"MONEY_RESERVE", "MONEY_UNRESERVE"}, amount : Amounts]

Transactions == {t \in Seq(Operations) : Len(t) <= MAX_US_TRANSACTION_OPERATIONS}

(***************************************************************************)
(* Lookups: the loops over the inventory that stop at the first hit.       *)
(***************************************************************************)
\* Mutants: a slot that is only RESERVED counts as empty; the ids of the items are not compared.
EmptySlots_ReservedToo(a) == {n \in Slots : a.inventory[n].item = NoItem}
SlotOf_FirstFilled(a, it) == Min({n \in Slots : a.inventory[n].item # NoItem})

EmptySlots(a)       == {n \in Slots : a.inventory[n].item = NoItem /\ ~a.inventory[n].reserved}
SlotsHolding(a, it) == {n \in Slots : a.inventory[n].item = it}
SlotOf(a, it)       == Min(SlotsHolding(a, it))

\* The slot an ITEM_TO_INVENTORY goes to: the one it names, else find_first_empty_inventory_slot.
HasTarget(op, a)  == op.slot > 0 \/ EmptySlots(a) # {}
TargetSlot(op, a) == IF op.slot > 0 THEN op.slot ELSE Min(EmptySlots(a))

\* Mutant: nobody asks whose reservation it is.
OpenTo_Anyone(a, n, s) == TRUE
\* "Not RESERVED, or reserved by the server whose transaction this is."
OpenTo(a, n, s) == a.inventory[n].reserved => a.inventory_reservations[n] = s

\* Mutant: one coin too few is enough.
Affordable_OffByOne(a, x) == a.money - a.total_money_reserved >= x - 1
\* What is not reserved yet is enough for x.
Affordable(a, x) == a.money - a.total_money_reserved >= x

-----------------------------------------------------------------------------
(***************************************************************************)
(* transaction_possible.  Every operation is tested against the account as *)
(* it is now, not as the operations before it will have left it.  The loop *)
(* stops at the first operation that is not possible, so an Assert of an   *)
(* operation is reached only when all those before it are possible.        *)
(***************************************************************************)
OperationPossible(op, a, s) ==
    CASE op.type = "ITEM_TO_INVENTORY" ->
            /\ HasTarget(op, a)
            /\ a.inventory[TargetSlot(op, a)].item = NoItem
            /\ OpenTo(a, TargetSlot(op, a), s)
      [] op.type = "ITEM_TO_SERVER" ->
            /\ SlotsHolding(a, op.item) # {}
            /\ OpenTo(a, SlotOf(a, op.item), s)
      [] op.type = "ITEM_RESERVE" ->
            /\ SlotsHolding(a, op.item) # {}
            /\ ~a.inventory[SlotOf(a, op.item)].reserved
      [] op.type = "ITEM_UNRESERVE" ->
            /\ SlotsHolding(a, op.item) # {}
            /\ a.inventory[SlotOf(a, op.item)].reserved
            /\ a.inventory_reservations[SlotOf(a, op.item)] = s
      [] op.type = "SLOT_RESERVE" ->
            EmptySlots(a) # {}
      [] op.type = "SLOT_UNRESERVE" ->
            /\ a.inventory[op.slot].reserved
            /\ a.inventory_reservations[op.slot] = s
      [] op.type = "MONEY_RESERVE" ->
            Affordable(a, op.amount)
      [] op.type = "MONEY_UNRESERVE" ->
            /\ a.money_reservations[s] > 0
            /\ a.money_reservations[s] >= op.amount
      [] op.type = "MONEY_TRANSFER" ->
            LET mine == IF op.do_unreserve THEN a.money_reservations[s] ELSE 0
            IN  /\ op.do_unreserve => op.amount < 0 /\ mine >= -op.amount
                /\ a.money + op.amount - (a.total_money_reserved - mine) >= 0

PossibleAsserts(op, a, s) ==
    CASE op.type = "ITEM_UNRESERVE" ->
            (SlotsHolding(a, op.item) # {} /\ a.inventory[SlotOf(a, op.item)].reserved)
                => a.inventory_reservations[SlotOf(a, op.item)] # NoServer
      [] op.type = "SLOT_UNRESERVE" ->
            a.inventory[op.slot].reserved => a.inventory_reservations[op.slot] # NoServer
      [] op.type = "MONEY_RESERVE" ->
            op.amount > 0 /\ a.total_money_reserved <= a.money
      [] OTHER -> TRUE

transaction_possible(t, a, s) == \A i \in DOMAIN t : OperationPossible(t[i], a, s)

VoteAssertFails(t, a, s) ==
    \E i \in DOMAIN t : /\ ~PossibleAsserts(t[i], a, s)
                        /\ \A j \in 1..(i-1) : OperationPossible(t[j], a, s)

-----------------------------------------------------------------------------
(***************************************************************************)
(* commit_transaction.  CommitAsserts collects the Asserts of one          *)
(* operation: the server is built with DEBUG=1 (build.bat), where a failed *)
(* Assert ends the process.  CommitEffect is what the operation assigns    *)
(* when they hold.                                                         *)
(***************************************************************************)
Unreservable(a, s, x) == a.money_reservations[s] > 0 /\ a.money_reservations[s] >= x

\* Mutant: the total is forgotten.
unreserve_money_NoTotal(a, s, x) == [a EXCEPT !.money_reservations[s] = @ - x]
unreserve_money(a, s, x) ==
    [a EXCEPT !.money_reservations[s] = @ - x, !.total_money_reserved = @ - x]

\* Mutant: the total is forgotten.
reserve_money_NoTotal(a, s, x) == [a EXCEPT !.money_reservations[s] = @ + x]
reserve_money(a, s, x) ==
    [a EXCEPT !.money_reservations[s] = @ + x, !.total_money_reserved = @ + x]

CommitAsserts(op, a, s) ==
    CASE op.type = "ITEM_TO_INVENTORY" ->
            /\ HasTarget(op, a)
            /\ a.inventory[TargetSlot(op, a)].item = NoItem
            /\ OpenTo(a, TargetSlot(op, a), s)
      [] op.type = "ITEM_TO_SERVER" ->
            /\ SlotsHolding(a, op.item) # {}
            /\ OpenTo(a, SlotOf(a, op.item), s)
      [] op.type = "ITEM_RESERVE" ->
            /\ SlotsHolding(a, op.item) # {}
            /\ ~a.inventory[SlotOf(a, op.item)].reserved
            /\ a.inventory_reservations[SlotOf(a, op.item)] = NoServer
      [] op.type = "ITEM_UNRESERVE" ->
            /\ SlotsHolding(a, op.item) # {}
            /\ a.inventory[SlotOf(a, op.item)].reserved
            /\ a.inventory_reservations[SlotOf(a, op.item)] # NoServer
      [] op.type = "SLOT_RESERVE" ->
            /\ EmptySlots(a) # {}
            /\ a.inventory_reservations[Min(EmptySlots(a))] = NoServer
      [] op.type = "SLOT_UNRESERVE" ->
            /\ a.inventory[op.slot].reserved
            /\ a.inventory_reservations[op.slot] = s
      [] op.type = "MONEY_RESERVE" ->
            /\ op.amount > 0
            /\ Affordable(a, op.amount)
      [] op.type = "MONEY_UNRESERVE" ->
            /\ a.total_money_reserved >= op.amount
            /\ Unreservable(a, s, op.amount)
      [] op.type = "MONEY_TRANSFER" ->
            /\ op.do_unreserve => op.amount < 0 /\ Unreservable(a, s, -op.amount)
            /\ LET left == IF op.do_unreserve THEN unreserve_money(a, s, -op.amount) ELSE a
               IN  left.money + op.amount - left.total_money_reserved >= 0

CommitEffect(op, a, s) ==
    CASE op.type = "ITEM_TO_INVENTORY" ->
            [a EXCEPT !.inventory[TargetSlot(op, a)].item = op.item]
      [] op.type = "ITEM_TO_SERVER" ->
            [a EXCEPT !.inventory[SlotOf(a, op.item)] = [item |-> NoItem, reserved |-> FALSE],
                      !.inventory_reservations[SlotOf(a, op.item)] = NoServer]
      [] op.type = "ITEM_RESERVE" ->
            [a EXCEPT !.inventory[SlotOf(a, op.item)].reserved = TRUE,
                      !.inventory_reservations[SlotOf(a, op.item)] = s]
      [] op.type = "ITEM_UNRESERVE" ->
            [a EXCEPT !.inventory[SlotOf(a, op.item)].reserved = FALSE,
                      !.inventory_reservations[SlotOf(a, op.item)] = NoServer]
      [] op.type = "SLOT_RESERVE" ->
            [a EXCEPT !.inventory[Min(EmptySlots(a))].reserved = TRUE,
                      !.inventory_reservations[Min(EmptySlots(a))] = s]
      [] op.type = "SLOT_UNRESERVE" ->
            [a EXCEPT !.inventory[op.slot].reserved = FALSE,
                      !.inventory_reservations[op.slot] = NoServer]
      [] op.type = "MONEY_RESERVE" ->
            reserve_money(a, s, op.amount)
      [] op.type = "MONEY_UNRESERVE" ->
            unreserve_money(a, s, op.amount)
      [] op.type = "MONEY_TRANSFER" ->
            [(IF op.do_unreserve THEN unreserve_money(a, s, -op.amount) ELSE a) EXCEPT !.money = @ + op.amount]

\* The i-th turn of commit_transaction's loop; r says how the turns before it went.
CommitTurn(r, t, i, s) ==
    IF i > Len(t) \/ ~r.ok
    THEN r
    ELSE [ok      |-> CommitAsserts(t[i], r.account, s),
          account |-> IF CommitAsserts(t[i], r.account, s)
                      THEN CommitEffect(t[i], r.account, s) ELSE r.account]

\* [ok, account]: whether every Assert held, and the account the loop leaves.
commit_transaction(t, a, s) ==
    LET start == [ok |-> TRUE, account |-> a]
        one   == CommitTurn(start, t, 1, s)
        two   == CommitTurn(one,   t, 2, s)
        three == CommitTurn(two,   t, 3, s)
    IN  CommitTurn(three, t, MAX_US_TRANSACTION_OPERATIONS, s)

-----------------------------------------------------------------------------
(***************************************************************************)
(* The bookkeeping the code relies on without ever testing it as a whole.  *)
(***************************************************************************)
\* A slot is flagged RESERVED exactly when a server is recorded as its holder.
SlotReservationsAgree(a) ==
    \A n \in Slots : a.inventory[n].reserved <=> a.inventory_reservations[n] # NoServer

\* total_money_reserved is the sum of the reservations.
MoneyReservationsAgree(a) ==
    a.total_money_reserved = a.money_reservations[RoomServer] + a.money_reservations[MarketServer]

\* No money is promised that is not there.
ReservationsCovered(a) == a.total_money_reserved <= a.money

WellFormed(a) == SlotReservationsAgree(a) /\ MoneyReservationsAgree(a)
Solvent(a)    == WellFormed(a) /\ ReservationsCovered(a)
=============================================================================
