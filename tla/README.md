# Citrus in TLA+

Citrus is a multiplayer game in C++. One
process, `server.exe`, runs three servers; the game client is another program.
This directory models four parts of it, each where actors meet:

* the servers among themselves: who owns which item, who has how many coins, and
  what is promised to whom while an order stands on the market or an item is
  carried between a room and an inventory;
* a server and its clients: how connections are accepted, handed from one thread
  to another, kept in a list, told of changes and dismissed;
* the players of a room: what is in their action queues, and what they hold, sit
  on and lie in;
* the two threads of the game client that share its connections.

All line numbers refer to files of the repository; `PROJECT.json` gives for
every definition the lines it stands for.

## 1. The system

| part | where | state | operations |
|---|---|---|---|
| Accounts | `user.h`, `user_server.cpp` 47-700 | per user: inventory slots with FILLED and RESERVED flags, the server that holds each slot, money, money reserved per server, their total | `transaction_possible`, `commit_transaction`: eight operation types on items, slots and money |
| User server | `user_server.cpp` 700-1100 | clients per user; per client of a server at most one prepared transaction; `did_change` | PREPARE, COMMIT, ABORT, USER_UPDATE to players, disconnection |
| Coordinators | `user_client.cpp`, `room_server.cpp` 497-634, `market_server.cpp` 287-562 | one connection per user, the transaction under way (on the stack) | connect, send a PREPARE, block for the vote (one second), send a decision |
| Market | `market_server.cpp` 700-1000 | per article the standing orders in the order they came | place an order, match the orders of an article, exchange item and money |
| Room items | `room_server.cpp` 900-1040, 1927-1987 | the item entities of a room | an inventory item becomes an entity and back |
| Market views | `market_server.cpp` 138-174, 564-633 | watchers of an article, ring of the last 128 prices | watch, publish MARKET_UPDATE |
| Player actions | `room_server.cpp` 675-1789 and the handlers from 1892, `world_shared.cpp` 1500-2275 | per player the queue of actions with ids and pauses, what it holds and is on; per item who holds and who locks it | enqueue, merge, pause, dequeue, begin, carry out, end and retry actions |
| Room simulation | `room_server.cpp`, `plant.cpp` | a clock, needs, plants, the array of entities | step the room; destroy entities |
| Listening loops | `net_server.h/.cpp`, and the main loop of each server | the accept thread, its queue of 32 connections, `client_accept_failed` | start, accept, hand over, restart, stop |
| Client lists | the three `*_server.cpp` | the clients of a room, of a user, of the market | receive, reply, update, add, disconnect |
| Server process | `server.cpp` | the threads | start all, wait for the room server to end, stop all |
| Packets and sockets | `network_node.cpp`, `network_*.cpp` | buffers | encode, decode, blocking read with a time-out |
| Client network loop | `net_client.cpp`, `client.cpp` | requests and action queues copied under a mutex, pending operations, what is shown | connect, reconnect, send actions, take updates, publish |
| Chess, path finding, machines and recipes | `chess.cpp`, `pathfinding*.cpp`, `machine*.cpp`, `recipe.cpp` | sequential | rules and searches |
| Interface, drawing, platform, libraries | the rest | - | - |

**How they interact.** Each server is one thread with one main loop; nothing is
shared between servers but the connections. Players talk to all three. The
market server and the room server change accounts only by two-phase commit with
the user server: PREPARE, a vote, COMMIT or ABORT. A coordinator blocks for its
vote, so it works on one thing at a time; the user server never blocks, and
keeps the prepared transaction *per connection*. A trade is a transaction on
two users: the seller is prepared, then the buyer, then the buyer is decided,
then the seller.

**What is hard.**

* The two coordinators may have transactions prepared on the same user at the
  same time, and nothing locks what a vote promised.
* Votes and decisions carry no transaction number. A read that times out leaves
  its vote on the connection.
* A connection that breaks takes the prepared transaction with it and is never
  replaced; between the two decisions of a trade that tears the trade apart.
* A reservation is kept twice (flag and holder of a slot; a server's entry and
  the total), and must be given back exactly, by other code and much later than
  it was taken, and possibly after the price it is settled at has changed.
* A transaction is voted on operation by operation against the account as it
  is, and carried out one operation after the other.
* Failed Asserts end the process (`build.bat` builds with DEBUG=1), hence all
  three servers, and nothing is stored.
* A listening thread and a main loop share a queue and three flags. Each may wait
  for the other without a limit.
* The three servers disconnect a client in three different orders, from within
  handlers and loops that hold a pointer or an index into the array it leaves.
* The procedures of the action queue call each other in turns, and across
  players: a dequeue begins the next action, which may move an entity, which
  makes every path be found again, which may dequeue an action of somebody else.
* The client's network loop works on copies, while the player goes on asking, and
  for an iteration has connections the main loop does not know of.

**What makes it correct.** The books of an account agree (accounts); what was
voted possible can be carried out (user server); nothing prepared stays
undecided and no coordinator hangs (coordinators); every order is backed, items
and coins are conserved, crossing orders trade, a trade is one step (market);
an item is in one place (room with market); neither server takes what the other
reserved (accounts with both). A connection is in one place and in no two, nobody
is dismissed for nothing, and everybody is told (client lists); accepting goes on
after a failure and ends on a stop (listening loops). What two records say of a
hand or a seat agrees, a queue that may go on does, ids and pauses stay with
their actions (player actions). No request is ignored, no action sent twice or
to the wrong server, no result is a surprise, and the client is one user (client
network loop).

## 2. The modules

| module | models | variables |
|---|---|---|
| `UserAccount` | one account; `transaction_possible`, `commit_transaction` as operators, with the Asserts of each | none |
| `UserServer` | the participant: one action per packet handler, player updates, loss of a connection | `account`, `did_change`, `link`, `current`, `to_us`, `from_us`, `aborted` |
| `Coordinator` | both coordinators: one action per send and per blocking read, faults | + `session`, `faults` |
| `MarketOrders` | placing, matching and exchanging; with the user server it is a system of its own (`Spec`) | + `orders`, `matching` |
| `Trading` | the abstract market: owners, coins and offers; no servers, messages or reservations | `owned`, `money`, `book` |
| `MarketProperties` | what the market must keep; fairness; the refinement of `Trading` | - |
| `RoomItems` | the two transactions of the room server | + `entities` |
| `Servers` | market, room and user server together (`ServersSpec`) | all |
| `ListeningLoop` | the listening thread, the queue, and the main loop as far as the thread is concerned | `kind`, `server_should_exit`, `loop_should_exit`, `client_accept_failed`, `thread`, `greeted`, `queue`, `main`, `conn` |
| `ClientLists` | a server's turn: receive, update, admit, for each of the three servers; with the thread it is a system of its own | + `list`, `at`, `did_change`, `told`, `watchers`, `aborted` |
| `RoomActions` | the action queues of a room and the entities they act on, with the stack of calls still to be made | `queue`, `action_ids`, `pauses`, `next_id`, `exists`, `holding`, `held_by`, `is_on`, `locked_by`, `todo`, `aborted` |
| `ClientConnections` | the main loop and the network loop of the game client; the three servers are external | requests, action queues, connections as published (`con`) and as they are (`local`), what is shown, what the servers owe |
| `MCMarket`, `MCServers`, `MCClients`, `MCRoomActions`, `MCConnections` | instances for TLC | - |
| `UserAccountProofs`, `CoordinatorProofs`, `MarketProofs`, `OrderProofs`, `ServersProofs`, `ClientListsProofs`, `RoomActionsProofs`, `ClientConnectionsProofs` | theorems about the modules they are named after; `UserAccountProofs` begins with sums over finite sets, `OrderProofs` is about the market as a whole while nothing fails | - |

**State.** `account[u]` is an `S__User` with the arrays of reservations as
functions. `current[u][s]` is `current_transaction` of the `US_Client` by which
server `s` talks about user `u`; `link`, `to_us` and `from_us` are the two ends
of that connection. `session[s]` is the C++ stack of coordinator `s` while it is
in `user_server_transaction_prepare` or in `exchange_item_and_money`: which
packet it is about to send or read, for which leg, whether it can still commit,
and what it read of the votes. `matching` is `update_article`'s loop variable.
`orders[a]` is the article's array of orders.

In `ListeningLoop`, `conn[c]` is the state of the other end: `leaving` has sent a
goodbye or something no handler accepts, `lost` may be found out by a send only.
`main` is the phase of the main loop's turn and `at` the index of the loop under
way. `told` is a history variable: who was sent the state as it is now. In
`RoomActions` the times of an action (`reach_t`, `update_t`, `end_t`,
`end_retry_t`) are the phase of the first action of a queue; `todo` is the C++
stack. In `ClientConnections` `pc` is where the network loop is; the fields
`room` and `late` of an action, `last_sent` and `user_lost` are history.

**Actions.** A handler of the user server is one action, as its loop is one
thread. Of a coordinator every send and every blocking read is an action, and
everything it does between two of them belongs to the later one: the order is
appended, the matched orders are removed, the entity is created or destroyed in
the step that sends the last decision. While a session is under way its server
does nothing else (`Idle`).

In `ClientLists` hearing one client, updating one client and taking one client
from the queue are actions, since others may depart or be accepted in between.
The order inside a disconnection (who is removed, who is sent the goodbye, whose
socket is closed) differs by server and is what `Dismissed` and `RoomReplyFails`
translate. In `RoomActions` a handler is its first step and the steps of
`Continue` until `todo` is empty; nothing else happens meanwhile, as the room
server is one thread. In `ClientConnections` the network loop's iteration is eight
steps, and every step of the main loop may come between two of them; the three
connects are one step, as they touch nothing that is shared.

**Abstractions.** Slots are numbered from 1, as `slot_ix_plus_one` is. An item
is its identity; its type is a constant function and its owner is the user of
the transaction. Money is an unbounded integer (`s64` in the code). Prices are
numbers in a small set. A connection is a pair of FIFO queues: TCP neither
reorders nor drops, so messages are lost only with their connection. Reading the
vote payload's union as the wrong member gives the blank item or slot 1, as
`VoteCommit` explains. Whether an entity fits where the player wants it, and in
which order the user server's loop meets connections with a packet waiting, are
nondeterministic. After a failed Assert nothing happens (`aborted`).

Geometry in `RoomActions` is a choice: whether there is a path, whether it takes
time, whether an item fits, whether there is a place to get up to. Needs
(bladder, sleep) never forbid an action there. USE_TOILET is SLEEP; water, power
and chess are WALK. In `ClientConnections` the contents of rooms, users and
markets are left out but for what an Assert compares; a packet is there or not. Of the
market's view there is whether it is of an article, since then the buttons for a chart's
period can be clicked, and an update nobody asked for may come (`ViewCanBeAsked`,
`MarketChanges`). The network loop sends player actions and chat; clicks on tiles,
dequeues and pauses, which change nothing in the client, are left out of `WriteRoom`,
and so are its two Asserts about the client's copy of the player's queue
(`net_client.cpp:99`, 120) and the one of a pause about the player (118).
In `ClientLists` one list stands for all of a server, as no code relates two
rooms or two users; the packets clients send are reduced to whether they are
answered, refused, or answered to a connection that is gone.

**Settled accounts.** A decision takes time to arrive, so what a coordinator
keeps is ahead of the account. `Settled(u)` is the account as it will be when
the decisions already taken have arrived; for a trade the decision is taken for
both users at the moment the second vote is read. With `SettledBook`, the book
without the two orders of a decided trade, this is the refinement mapping to
`Trading`, and the account `OrdersBacked` and `EachItemOnce` speak of. The
properties of `Servers`, where that decision may fail, are stated instead for
moments when no commit is under way (`Quiet`).

## 3. The runs

| run | instance | question |
|---|---|---|
| `market_safety` | 2 users, 2 items, 2 slots, 3 coins, prices 1-2, up to 2 orders, no faults | Does any Assert fail? Is each order backed by exactly its reservations, each item in one slot, each change announced? Do the books of each account agree? (`TypeOK`, `NoAssertFails`, `OrdersBacked`, `EachItemOnce`, `AccountsWellFormed`, `ChangesAreAnnounced`) |
| `market_trading` | 2 users, 1 item, 2 slots, 2 coins, prices 1-2, up to 3 orders, no faults, fairness | Is the market an implementation of `Trading`? Do crossing orders trade, whatever else is asked of the market meanwhile? (`TradesAreAtomic`, `CrossingOrdersTrade`) |
| `market_faults` | 2 users, 1 item, 1 slot, 1 coin, up to 2 orders, a time-out and a lost connection anywhere, fairness | Does everything begun end? (`SessionsEnd`, `PreparedIsDecided`) |
| `servers_safety` | 2 users, 1 item, 1 slot, both coordinators, no faults | Are items and coins conserved until an Assert stops the process, do the books agree, are reservations covered? (`ItemsConserved`, `MoneyConserved`, `AccountsWellFormed`, `StaysSolvent`) |
| `servers_faults` | 1 user, 1 item, 1 slot, both coordinators, a time-out, a lost connection and a failed connect anywhere, fairness | Are reservations respected, does the room server go on? (`ReservationsRespected`, `RoomSessionsEnd`) |
| `client_lists` | 3 connections (2 players and a server), each of the three servers, a queue of 1, one failure to accept, connections that leave or get lost anywhere, fairness | Is each connection handed over once and each dismissal justified? Are all told? Do a restart and a stop end? (`HandedOverOnce`, `DismissedForCause`, `RoomIsTold`, `WatchersAreClients`, `RoomAcceptsAgain`, `StopEnds`) |
| `room_actions` | 2 players, a bed and a chair, queues of 2, 3 actions, 1 pause, fairness | Do hands and seats agree with the entities, ids and pauses with the actions? Does no action stay at the front? (`HoldsAgree`, `SeatIsLocked`, `FrontHasBegun`, `IdsNameActions`, `PausesHold`, `QueueGetsDone`) |
| `client_connections` | 2 users, 2 rooms, room for 1 pending operation, 4 requests of which 3 may be actions and views, 1 lost connection, fairness | Is every request served, every action sent at most once and to its room, every result known? Does waiting for the market end, also when a view is asked for while another is awaited? (`ActionsGoOnce`, `OnlyLateActionsStray`, `ResultsAreKnown`, `ShownUserIsConnected`, `OneUser`, `RequestsAreServed`, `WaitingEnds`) |
| `two_coordinators` | as `servers_safety` | `NoAssertFails` is violated |
| `slot_taken` | 1 user, 2 slots, an item in the room | `BuyersHaveTheirSlots` is violated |
| `late_vote` | as `market_faults`, one time-out, no lost connection | `NoAssertFails` is violated |
| `lost_decision` | as `market_faults`, one lost connection, no time-out | `ItemOnSaleIsUnsold` is violated |

**Bounds.** `MaxOrders` bounds the orders standing on an article,
`MaxTimeouts`, `MaxLostConnections` and `MaxFailedConnects` the faults;
`MAX_ENTITIES_PER_ROOM` is the code's own limit, made small. Two users are what
a trade needs, and both can be buyer and seller. With prices 1 and 2 a bid may be
above the ask, so that a surplus is given back; with three orders there is a
second-best match and an order that waits. In `market_trading` the third order may
come while two others cross, and any number of orders may be asked for and voted
down before they trade. `servers_safety` has two users, as the market trades no user with
themselves; that a surplus is given back (MONEY_UNRESERVE) takes two prices and is in
`market_safety`, where the books are checked, too. `servers_faults` has one user, as
what it asks is about one account. One slot makes inventories full, two let a reserved
and a free slot stand side by side. One fault of a kind is the case the code has an
answer for; a second one finds the connection already gone or meets the same code
again. Sequences of any length are covered, since orders
disappear when they trade and can be placed again. No symmetry is used.

In `client_lists`, `QueueCapacity` is `ARRLEN(queue->clients)` made small, so that
the thread waits; three connections are a client, its neighbour in the array and
the neighbour's neighbour, which is as far as a wrong pointer reaches; each
connection is made once. `MaxAcceptFailures` is 1: the flag is then set for good
in two of the servers. In `room_actions`, `QueueLength` 2 makes queues full and
lets an action wait behind one; `MaxActions` bounds the ids ever given: three are
one more than a queue holds, so ids outlive their actions; `MaxPauses` is the
number of pauses at a time; that two pauses become one when the action between them
goes takes a second one, and is left to the proof of `PausesAreKept`. With two players,
one bed and one chair each entity is contended. In `client_connections`, `PendingLength` is
`ARRLEN(pending_actions)` made small, so that its Assert is reached; `MaxWishes`
bounds the requests for users, rooms, actions and views together, `MaxActions`
actions and views, `MaxLost` the connections that break. Two users and two rooms
are what changing from one to the other takes; three views are what it takes to ask for one
while another is awaited, since the first brings the chart with the buttons.

**Deadlock** is not checked: when an order stands at the bound and nothing
matches it, or after a failed Assert, the servers rightly have nothing to do.
That no server waits for ever is what the liveness properties say. In the
runs about threads and clients the system may stop for good reasons, too: a
main loop that ended, no more requests within the bounds.

**Fairness.** Main loops run as long as the process and visit every connection
and every article in turn; a blocking read returns after at most a second; a
send succeeds or fails at once. So each step of a coordinator and each update to
players is weakly fair. A packet that waits may be passed over for as long as
another user's update goes first, and a pass over an article may find an order
being placed; each is over within one turn of the loop, hence strong fairness for
`HandlePacket` and `BeginPass`. Nothing makes players act, connections break or
reads time out.

In `ClientLists` both threads are weakly fair; the thread's enqueueing is
strongly fair, as the main loop frees the mutex and sleeps in every turn. In
`RoomActions` a handler runs to its end (`Continue`, weak), and the main loop
updates the room between one round of its clients and the next however much they
ask (`Arrive`, `FindOverdue`, strong); nothing makes a sleeper find a place to get
up to. In `ClientConnections` both loops are weakly fair; that a connect to the
market which is tried again and again succeeds some time, and that a market
server which is asked answers, is assumed of the other end (strong), since
`client.h:84` asks what becomes of the client when *its* request is lost.

## 4. What the runs show

The market by itself is right as long as no message is lost or late: no Assert
fails, the books match the orders exactly, and the market is `Trading`. With
faults everything still ends, the books of each account agree and no server
takes what the other reserved. A decision that follows a failed connect finds no
transaction and fails an Assert (`user_server.cpp:804`): it is sent whether or not there
was a PREPARE, so an ABORT may open the connection that the PREPARE could not. That an order whose best match
cannot be reached is never tried with the second best is in the model, too, and no
property claims that it is. Four statements made in the code do not hold:

1. **Two coordinators** (`two_coordinators`). A vote locks nothing
   (`user_server.cpp:788` records the transaction for that client only). If the
   room server's commit comes between the market's vote and its commit, an
   Assert of `commit_transaction` fails, and with it the process.
2. **The slot of a buy order** (`slot_taken`). `market_server.h:57`: "Where in
   the buyer's inventory the item will end up". The slot is chosen at the vote
   and again at the commit (`user_server.cpp:421`); if an item came in between,
   the order names one slot and another one is reserved, for good.
3. **A late vote** (`late_vote`). After a time-out the vote stays on the
   connection and is read as the answer to the next PREPARE; only the number of
   operations is compared (`market_server.cpp:337`).
4. **A lost decision** (`lost_decision`). "Failed to send transaction decision
   to MR. (This should not happen)" (`market_server.cpp:556`). When the seller's
   connection breaks after both votes, the buyer's COMMIT is sent and carried out, the
   seller's is not, and both orders stay: the item the buyer has is on sale, and the
   seller still has it. The property (`ItemOnSaleIsUnsold`) is about the accounts as they
   are, when no trade is under way.

Of clients and their lists the runs show what holds in spite of the differences
between the servers, and where the differences tell:

* Nothing is dropped or served twice between `accept` and the list, and in the
  user and market servers exactly the open connections are held. A room closes
  the *neighbour* of a client it disconnects (`room_server.cpp:337`), so there the
  property is about the list only, and `DismissedForCause` says how far the
  damage goes: never to someone before the lost client.
* Only the room server's update loop steps back after a client was removed; the
  user server's and the market's skip one, who learns of the change with the next
  one. `RoomIsTold` is therefore stated for the room.
* The market's `Assert(false)` about a watcher without a client cannot fail.
* Only the room server accepts again after a failure: the others do not zero
  the loop and join the new, healthy thread (`user_server.cpp:993`).
* A stop ends if there is room in the queue. If it is full, the thread waits for a
  main loop that waits for the thread.
* Who is disconnected need not be in the list any more, or not yet. A room client that is
  lost before its ROOM_INIT has not been added, and the Assert of `disconnect_room_client`
  fails (`RoomInitFails`), as the comment at `room_server.cpp:432` warns. A market client
  that is lost before the answer to its SET_VIEW_TARGET is disconnected twice, because
  "MS_Client_Ptr is set to NULL" (`market_server.cpp:205`) is true of the callee's pointer
  only (`MarketReplyFails`). The properties say nothing of what follows such an Assert, and
  none says that it cannot fail.

Of the action queues: hands, seats, ids and pauses stay in agreement at every
depth of the nested calls, and every queue gets done or is paused, asleep or
ended by an Assert. The last is no rare case: an action that is refused on
arrival stays until `max_update_step_delta_time_for_entity` asserts
(`room_server.cpp:1775`), and a PICK_UP that has a way to go afterwards
fails a deferred Assert (1215, by 1242, the code of MOVE). The reverse of `SeatIsLocked` does not hold: whoever
lies down from a chair leaves the chair locked for good.

Of the game client: no request made while the network loop is at work is lost,
no action is sent twice, results and inits find what they expect. An action can
reach a room it was not asked for in, but only when it was asked for while the
network loop was on its way there. The client is one user everywhere until the
connection to the user server breaks; connecting as another user then leaves room
and market connected as the first (`net_client.cpp:776`), although
"they depend on the current user ID" (781). `OneUser` therefore ends there.

## 5. What is proved

For every number of users, items, slots, articles, orders and faults, and every
set of prices:

| theorem | says |
|---|---|
| `CommitKeepsBooks` | committing any transaction keeps slot flags with holders, and the total with the sum of the reservations |
| `CommitKeepsSolvent` | ... and never promises money that is not there |
| `PossibleIsCommittable` | a single operation that was voted possible passes the Asserts of the commit on the same account |
| `OfferCommits`, `BidCommits`, `SellerCommits`, `BuyerCommits` | each of the four legs, voted possible as a whole, passes every Assert of the commit on the same account; which slot and how much money change by it |
| `MarketTypeSafety` | `Spec => []TypeOK` |
| `ChangesAlwaysAnnounced` | `Spec => ChangesAreAnnounced` |
| `AssertsNeverFail` | `Spec /\ NobodyOwes /\ EachItemInOneInventory => [](AllWell => NoAssertFails)` |
| `OrdersAreBacked`, `ItemsAreHeldOnce` | the same for `OrdersBacked` and `EachItemOnce` |
| `MarketImplementsTrading` | `Spec /\ NobodyOwes /\ EachItemInOneInventory /\ []AllWell => TradesAreAtomic`: the refinement of `Trading` |
| `BooksAlwaysAgree` | `ServersSpec => []AccountsWellFormed` |
| `SolvencyKept` | `ServersSpec => StaysSolvent` |
| `ReservationsAlwaysRespected` | `ServersSpec => ReservationsRespected` |
| `MoneyAlwaysConserved` | `ServersSpec => [](AllWell => MoneyConserved)` |
| `ItemsAlwaysConserved` | `ServersSpec /\ EachItemInOnePlace => [](AllWell => ItemsConserved)` |
| `ClientListTypes`, `NobodyIsHandedOverTwice`, `NobodyMissesAnUpdate`, `EveryWatcherIsAClient` | `Spec` of `ClientLists` keeps `TypeOK`, `HandedOverOnce`, `RoomIsTold`, `WatchersAreClients` |
| `NobodyIsDismissedForNothing` | `Spec => DismissedForCause` |
| `RoomTypes`, `HandsAgree`, `SeatsAreLocked`, `NoQueueIsForgotten`, `IdsAreNames` | `Spec` of `RoomActions` keeps `TypeOK`, `HoldsAgree`, `SeatIsLocked`, `FrontHasBegun`, `IdsNameActions` |
| `PausesAreKept` | `Spec => PausesHold` |
| `ClientTypes`, `ShownUserIsTheConnectedOne`, `ClientIsOneUser`, `StraysAreLate`, `NoActionGoesTwice`, `EveryResultIsKnown` | `Spec` of `ClientConnections` keeps `TypeOK`, `ShownUserIsConnected`, `OneUser`, `OnlyLateActionsStray`, `ActionsGoOnce`, `ResultsAreKnown` |
| `NoRequestIsIgnored` | `Spec => RequestsAreServed` |

**Assumptions** are those the modules name: at least one slot; finitely many users
and articles (sums over them mean nothing otherwise; the market's articles are an
array with one element for each item type); the item and server markers are distinct; prices are naturals; initial accounts are typed and
have nothing reserved; every item has an article; boxes, beds and chairs are
disjoint and owned; queues have a length of at least one; players are clients and
no client is a marker. `AllWell` says that no connection was
lost and no answer late so far: with such faults items and coins are not conserved
(`lost_decision`). `EachItemInOnePlace` as a hypothesis is about the initial
state; `NobodyOwes` and `EachItemInOneInventory` are about the constant
`InitialAccounts`: a user who starts with a debt fails an Assert with the first bid
(section 6), and an item that is in two places can be offered and sold twice. Nothing bounds the constants, and the bounds of the runs (`MaxActions`, `MaxPauses`, `MaxLost`, ...)
are any naturals.

**The argument.** `TypeOK` is not inductive. Its types let a session be on a
second leg its purpose does not have, for which there is no transaction to send,
and let an exchange be under way for an order that matches nothing, whose removal
would leave no sequence of orders. `CoordinatorInv` (in `CoordinatorProofs`)
therefore adds to the types that each session is on a leg its purpose has
(`SessionsOnTrack`) and that the books of all accounts agree (`BooksAgree`);
`LegsAreTransactions` derives from it that what is sent is a transaction of at
most four operations. `MarketInv` adds the types of the book and `PassOnTrack`:
a pass is at an order, and an exchange under way is for an order that has a
match. `BestMatchMatches` shows that the CHOOSE of the best match is met whenever
there is a match; it rests on `FirstOfTheLeast`, a well-founded descent over
positions. Each action has a lemma named `...KeepsBooks`; `ServersProofs`
reuses them for all three servers, so that `BooksAlwaysAgree` costs one more
case for the room. `SolvencyKept` does not need its own invariant:
`AccountsChangeByCommit` shows that an account changes only by
`commit_transaction` of a prepared transaction, and `CommitKeepsSolvent` is
about any such change.

What a session may rely on is in two invariants. `LegsInv` holds whatever fails:
what is prepared, on its way, or about to be sent on any connection is a leg of
the four or of the room's two (`LegsOf`), so no transaction gives back what its own
server does not hold (`ReservationsAlwaysRespected`), and none consists of MONEY
operations alone (`ChangesAlwaysAnnounced`). `TurnInv` holds while nothing has
failed: a packet is on a connection only when it is that connection's turn, and
what is prepared is the leg of the session under way.

Conservation is about moments when no commit is under way, but steps happen at all
others. `Wealth` and `Has` therefore give an account with the commits under way
already paid: a leg whose COMMIT was sent, or will be because the second vote was
read, counts as carried out, whether or not the Asserts of the commit will let it
(if not, the process ends and the property asks nothing). A lemma per action says
what the step does to them: no step changes them but the decision on a trade, which
takes from one user what it gives to the other (`Balanced`); the decision of a
room exchanges a slot for an entity of the same user. Lemmas about
sums over finite sets (`TotalOfSums` and those before it, in `UserAccountProofs`) turn
that into the conservation of the sums.

That what was voted for can still be committed is about the market as a whole, and
about the time between a vote and its decision; `OrderInv` (in `OrderProofs`) is the
invariant it takes. While nothing has failed it says three things besides
`MarketInv` and `TurnInv`. Everyone's word is kept (`WordKept`): the reservations of
every account are covered, a vote that is on its way or was counted is still true of
the account, and the slot a bid will be placed with is the one its commit is going to
reserve. The trade under way is the one of the order the pass is at, and there is
room in the book for the order being placed (`BookInv`). And the settled accounts
and the settled book fit (`View`): every item is in one slot, and of each user the
orders hold one slot each, reserved by the market server, which has no other slots
reserved and just the money bid (`BackedBy`). The last is what makes the second leg of a trade
commit: the buyer's leg gives back a reservation that only the book knows of.
`View` is about constants, `Accounts` and `Book`, so that what an order placed or a
trade made does to it are two lemmas without a state (`PlacingFits`, `TradingFits`
in `MarketProofs`), and the steps only have to be shown to be one of these or to
change nothing (`Settles`). The settled state changes when it is decided and not when it is
carried out: at the vote that settles a trade (`TradeAgreedSettles`), and when the
decision on an order is sent (`PlaceOrderSettles`).

The refinement of `Trading` is read off the same place. `StepsMoveWell` says that a
step of the system settles one order, or one trade, or leaves settled accounts and
book alone; `SettlingTrades` (in `MarketProofs`, without a state) says that an order
that settles is an offer `Trading` lets its user make, and a trade that settles is
one `Trade`. The first needs that the books fit: the coins a user has left to bid are
those not reserved by the market server, because what is reserved is the sum of the
bids (`PromisedIs`), and an item whose slot is free is not on sale, because an item
on sale is in a reserved slot and in no other (`OfferedIsReserved`). The second
needs that the places of the two orders in the book are those of the two offers
(`OffersRemoved`) and that a bid's slot is empty until its item comes
(`ItemChangesHands`). With no faults allowed, as in `market_trading`, `[]AllWell`
is no hypothesis at all.

In `RoomActionsProofs` the lemma `Steps` says that every step either leaves queues
and entities alone but for what is still to be called, or is one change of a
player's queue (`QueueStep`) together with one change of entities (`EntityStep`);
each invariant is then proved for the handful of those changes and not for each
action. `NoQueueIsForgotten` rests on `BeginsAhead`: whenever the first action of a
queue that is not paused has not begun, the call that begins it is on `todo`; what
a handler drops when an action is refused (`WithoutEnqueue`) is never such a call
(`AheadWithoutEnqueue`). `IdsAreNames` needs that all ids are below `next_id`, that
they ascend within a queue, and that queues of two players have none in common
(`IdsInv`).

In `ClientConnectionsProofs` the invariants relate the network loop's copies to
what is shared, by the step it is at: nothing is marked as just connected before
the connects (`NotYetConnected`); the shown user is the connection's unless this
iteration connected (`UsersAgree`); what was taken is requested still
(`TakenIsRequested`); what is sent, taken and queued is in the order of asking
(`InOrder`); what the room server owes the client waits for (`ResultsAgree`); an
action in a queue was asked for in the published room, or late (`ActionsFit`).

`ClientListsProofs` reduces the twenty-odd actions to what a step can do to the
clients: leave them alone, accept, enqueue, turn away, admit, dismiss one or two,
or change who watches (`ClientStep`). Of these `ListsInv` is invariant: a
connection is in one place and once (`InOnePlace`), the thread has a client
exactly when it is enqueuing (`GreetedIsEnqueued`), and what is held has come in
and, but for rooms, is what is open (`HeldIsOpen`). It gives the index from the
client wherever the code goes by pointer, which is what `DismissedForCause` and
`RoomIsTold` need; the latter also that, while a room sends its changes, those
behind the loop's index have them (`ToldInv`).

`PossibleIsCommittable` is as far as votes go without a lock: it is about one
operation and an unchanged account. `two_coordinators` is what happens when the
account changes.

**Only model-checked:** the liveness properties (ENABLED and fairness are out of
the prover's reach). The theorems of `OrderProofs`
say nothing once something failed, when Asserts do fail and an item can be in two
inventories (`late_vote`, `lost_decision`). No
RECURSIVE operator is used; `Predictions`, the one recursive function, is of
unknown value to the proofs, which hold whatever it yields.

## 6. Not modelled, and why

* Packet layout and sockets: straight-line encoding, input and output.
* Of the room: its clock and the growth of plants (floating point), needs, machines,
  watering, planting and harvesting, and the array the entities are in. Sequential
  code that runs inside the room's update; `RoomActions` takes what it decides as
  choices.
* The ring of prices: one writer and one reader in the same thread.
* Chess, path finding, recipes: sequential, called by one handler, with no state
  another actor could change in between; geometry is floating point.
* The interface, drawing, platform layer and libraries: no protocol. They are
  most of the repository's lines (graphics, fonts and images alone are a third).
* Initial money: `create_dummy_users` draws from -100 to 1000. The runs start at
  0 or more; a negative start fails the Assert at `user_server.cpp:678` on the
  first buy order, which takes no model to see. Of the theorems only those of
  `OrderProofs` assume that nobody owes.
* A stop while the queue is full, a restart of the user or market server's listening loop,
  a decision after a failed connect, the Asserts named in section 4, the
  neighbour whose socket a room closes, the player the user server's update loop skips, the
  chair that stays locked, the stale ids a pause may be set by (`room_server.cpp:2068`) and
  the late action that strays are in the models. The properties say where they end, and
  have no run of their own about what happens there; "hazards" in `PROJECT.json` lists
  each with its line.

## 7. Plan

Done: accounts, coordinators, market and rooms; listening loops and client lists;
player actions; the client's network loop. Left:

1. `RoomActions` composed with `RoomItems`: a PLACE_IN_INVENTORY whose transaction
   fails or times out, with the player's queue going on behind it.
2. The entities of a room as the array they are in: `destroy_scheduled_entities`
   while it is walked, and `add_entity` at the limit.
