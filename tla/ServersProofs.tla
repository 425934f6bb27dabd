---------------------------- MODULE ServersProofs ----------------------------
(***************************************************************************)
(* What holds of the accounts while the room server and the market server  *)
(* both prepare transactions on them, for any number of users, slots,      *)
(* items, prices, orders and faults.                                       *)
(***************************************************************************)
EXTENDS Servers, MarketProofs

-----------------------------------------------------------------------------
LEMMA RoomBeginKeepsBooks ==
    ASSUME MarketInv, NEW p \in Purposes(Articles), Begin(RoomServer, p), UNCHANGED marketVars
    PROVE  MarketInv'
<1>1. RoomServer \in Servers /\ MarketServer \in Servers \ {RoomServer}
    BY ServerAssumption DEF Servers
<1>2. CoordinatorInv(Articles)'
    BY <1>1, BeginKeepsBooks DEF MarketInv
<1>3. session'[MarketServer] = session[MarketServer]
    BY <1>1, SessionBegun DEF MarketInv
<1>4. PassOnTrack'
    BY <1>3, PassKept DEF MarketInv
<1>5. QED
    BY <1>2, <1>4 DEF MarketInv, marketVars

LEMMA RoomFinishKeepsBooks ==
    ASSUME MarketInv, NEW commit, NEW sent, DecideFirstLeg(RoomServer, commit, sent), UNCHANGED marketVars
    PROVE  MarketInv'
<1>1. RoomServer \in Servers /\ MarketServer \in Servers \ {RoomServer}
    BY ServerAssumption DEF Servers
<1>2. CoordinatorInv(Articles)'
    BY <1>1, DecideFirstLegKeepsBooks DEF MarketInv
<1>3. session'[MarketServer] = session[MarketServer]
    BY <1>1, SessionEnded DEF MarketInv
<1>4. PassOnTrack'
    BY <1>3, PassKept DEF MarketInv
<1>5. QED
    BY <1>2, <1>4 DEF MarketInv, marketVars

LEMMA RoomTurnKeepsBooks ==
    ASSUME MarketInv, RoomTurn, UNCHANGED marketVars
    PROVE  MarketInv'
<1>1. CASE CoordinatorStep(RoomServer)
    BY <1>1, MarketCoordinatorKeepsBooks DEF Servers
<1>2. CASE \E u \in Users, it \in Items : PlaceFromInventory(u, it) \/ PlaceInInventory(u, it)
  <2>1. PICK u \in Users, it \in Items : \/ Begin(RoomServer, FromInventory(u, it))
                                         \/ Begin(RoomServer, ToInventory(u, it))
    BY <1>2 DEF PlaceFromInventory, PlaceInInventory
  <2>2. FromInventory(u, it) \in Purposes(Articles) /\ ToInventory(u, it) \in Purposes(Articles)
    BY DEF FromInventory, ToInventory, Purposes
  <2>3. QED
    BY <2>1, <2>2, RoomBeginKeepsBooks
<1>3. CASE \E fits, sent \in BOOLEAN : FinishFromInventory(fits, sent)
    BY <1>3, RoomFinishKeepsBooks DEF FinishFromInventory
<1>4. CASE \E sent \in BOOLEAN : FinishToInventory(sent)
    BY <1>4, RoomFinishKeepsBooks DEF FinishToInventory
<1>5. QED
    BY <1>1, <1>2, <1>3, <1>4 DEF RoomTurn

LEMMA ServersKeepBooks ==
    ASSUME MarketInv, [ServersNext]_allVars
    PROVE  MarketInv'
BY MarketTurnKeepsBooks, RoomTurnKeepsBooks, OthersKeepBooks DEF ServersNext, allVars

\* The room server takes an item from a user's inventory, or gives one.
LEMMA RoomTurnIs ==
    ASSUME MarketInv, RoomTurn
    PROVE  \/ CoordinatorStep(RoomServer)
           \/ \E p \in Own(Articles, RoomServer) : Begin(RoomServer, p)
           \/ \E commit \in BOOLEAN, sent \in BOOLEAN : DecideFirstLeg(RoomServer, commit, sent)
<1>1. RoomServer \in Servers /\ CoordinatorTypeOK(Articles)
    BY DEF Servers, MarketInv, CoordinatorInv
<1>2. CASE \E u \in Users, it \in Items : PlaceFromInventory(u, it) \/ PlaceInInventory(u, it)
  <2>1. PICK u \in Users, it \in Items : \/ Begin(RoomServer, FromInventory(u, it))
                                         \/ Begin(RoomServer, ToInventory(u, it))
    BY <1>2 DEF PlaceFromInventory, PlaceInInventory
  <2>2. FromInventory(u, it) \in Own(Articles, RoomServer) /\ ToInventory(u, it) \in Own(Articles, RoomServer)
    BY ServerAssumption DEF FromInventory, ToInventory, Purposes, Own
  <2>3. QED
    BY <2>1, <2>2
<1>3. ~Idle(RoomServer) => session[RoomServer].can_commit \in BOOLEAN
    BY <1>1, SessionIsLive DEF LiveSessions
<1>4. CASE \E fits, sent \in BOOLEAN : FinishFromInventory(fits, sent)
  <2>1. PICK fits \in BOOLEAN, sent \in BOOLEAN : FinishFromInventory(fits, sent)
    BY <1>4
  <2>2. PICK commit \in BOOLEAN : commit = (session[RoomServer].can_commit /\ fits)
    BY <1>3
  <2>3. DecideFirstLeg(RoomServer, commit, sent)
    BY <2>1, <2>2 DEF FinishFromInventory
  <2>4. QED
    BY <2>3
<1>5. CASE \E sent \in BOOLEAN : FinishToInventory(sent)
  <2>1. PICK sent \in BOOLEAN : FinishToInventory(sent)
    BY <1>5
  <2>2. PICK commit \in BOOLEAN : commit = session[RoomServer].can_commit
    BY <1>3, <2>1 DEF FinishToInventory
  <2>3. DecideFirstLeg(RoomServer, commit, sent)
    BY <2>1, <2>2 DEF FinishToInventory
  <2>4. QED
    BY <2>3
<1>6. QED
    BY <1>2, <1>4, <1>5 DEF RoomTurn

LEMMA RoomTurnKeepsTurns ==
    ASSUME MarketInv, TurnInv(Articles), RoomTurn
    PROVE  TurnInv(Articles)'
<1>1. RoomServer \in Servers
    BY DEF Servers
<1>2. QED
    BY <1>1, RoomTurnIs, CoordinatorKeepsTurns, BeginKeepsTurns, DecideFirstLegKeepsTurns

LEMMA ServersInvariant == ServersSpec => [](MarketInv /\ TurnInv(Articles))
<1>1. ServersInit => MarketInv /\ TurnInv(Articles)
    BY InitialMarket, InitialTurns DEF ServersInit, Init
<1>2. MarketInv /\ TurnInv(Articles) /\ [ServersNext]_allVars => MarketInv' /\ TurnInv(Articles)'
    BY ServersKeepBooks, MarketTurnKeepsTurns, RoomTurnKeepsTurns, OthersKeepTurns DEF ServersNext, allVars
<1>3. QED
    BY <1>1, <1>2, PTL DEF ServersSpec

\* However many users, slots and items there are, and however the transactions of the two
\* servers, lost connections and timeouts fall together, the books of every account agree: a
\* slot is flagged RESERVED exactly when a server is recorded for it, and total_money_reserved
\* is the sum of what the servers hold (user_server.cpp:286-522).
THEOREM BooksAlwaysAgree == ServersSpec => []AccountsWellFormed
<1>1. MarketInv => AccountsWellFormed
    BY DEF MarketInv, CoordinatorInv, BooksAgree, AccountsWellFormed
<1>2. QED
    BY <1>1, ServersInvariant, PTL

-----------------------------------------------------------------------------
\* The room server does not touch an account either, ...
LEMMA RoomTurnLeavesAccounts ==
    ASSUME RoomTurn
    PROVE  UNCHANGED account
<1>1. CASE \E u \in Users, it \in Items : PlaceFromInventory(u, it) \/ PlaceInInventory(u, it)
    BY <1>1, CoordinatorsLeaveAccounts DEF PlaceFromInventory, PlaceInInventory
<1>2. CASE \E fits, sent \in BOOLEAN : FinishFromInventory(fits, sent)
    BY <1>2, CoordinatorsLeaveAccounts DEF FinishFromInventory
<1>3. CASE \E sent \in BOOLEAN : FinishToInventory(sent)
    BY <1>3, CoordinatorsLeaveAccounts DEF FinishToInventory
<1>4. QED
    BY <1>1, <1>2, <1>3, CoordinatorsLeaveAccounts DEF RoomTurn

\* ... so an account changes only by the commit of a transaction that was prepared on it.
LEMMA AccountsChangeByCommit ==
    ASSUME UserServerTypeOK, [ServersNext]_allVars, NEW u \in Users, account'[u] # account[u]
    PROVE  \E s \in Servers :
              /\ HandleCommit(u, s) /\ current[u][s].exists
              /\ account'[u] = commit_transaction(current[u][s].transaction, account[u], s).account
<1>1. UserServerTurn \/ Disconnect \/ UNCHANGED coordinatorVars
    BY MarketTurnLeavesAccounts, RoomTurnLeavesAccounts DEF ServersNext, allVars
<1>2. QED
    BY <1>1, PacketsChangeAccounts

\* With any number of users and whatever the two servers' transactions, no step takes from an
\* account the money its reservations need: what one server reserved is not spent by a
\* transaction of the other (user_server.cpp:464-515, 691-728).
THEOREM SolvencyKept == ServersSpec => StaysSolvent
<1>1. MarketInv /\ [ServersNext]_allVars
        => [\A u \in Users : Solvent(account[u]) => Solvent(account'[u])]_allVars
  <2> SUFFICES ASSUME MarketInv, [ServersNext]_allVars, NEW u \in Users,
                      Solvent(account[u]), account'[u] # account[u]
               PROVE  Solvent(account'[u])
    OBVIOUS
  <2>1. UserServerTypeOK
    BY DEF MarketInv, CoordinatorInv, CoordinatorTypeOK
  <2>2. PICK s \in Servers :
          account'[u] = commit_transaction(current[u][s].transaction, account[u], s).account
    BY <2>1, AccountsChangeByCommit
  <2>3. current[u][s].transaction \in Transactions /\ account[u] \in Account
    BY <2>1 DEF UserServerTypeOK
  <2>4. QED
    BY <2>2, <2>3, CommitKeepsSolvent
<1>2. QED
    BY <1>1, ServersInvariant, PTL DEF ServersSpec, StaysSolvent

\* No leg of a session unreserves an item.
LEMMA LegsUnreserveNoItem ==
    ASSUME NEW s \in Servers, NEW t \in LegsOf(Articles, s), NEW k \in DOMAIN t
    PROVE  t[k].type # "ITEM_UNRESERVE"
<1>1. PICK p \in Own(Articles, s), leg \in {1, 2}, item \in Item : t = LegTransaction(p, leg, item)
    BY DEF LegsOf
<1>2. p.kind \in {"BUY", "SELL", "EXCHANGE", "TO_INVENTORY", "FROM_INVENTORY"}
    BY DEF Own
<1> USE DEF SlotReserve, SlotUnreserve, ItemReserve, ItemToServer, ItemToInventory, MoneyReserve, MoneyUnreserve,
            MoneyTransfer
<1>3. CASE p.kind = "BUY"
  <2>1. t = <<SlotReserve, MoneyReserve(p.price)>> \/ t = <<SlotReserve>>
    BY <1>1, <1>3, LegForms, Zenon
  <2>2. QED
    BY <2>1
<1>4. CASE p.kind = "SELL"
  <2>1. t = <<ItemReserve(p.item)>>
    BY <1>1, <1>4, LegForms, Zenon
  <2>2. QED
    BY <2>1
<1>5. CASE p.kind = "EXCHANGE" /\ leg = 1
  <2>1. t = <<ItemToServer(p.item), MoneyTransfer(p.price, FALSE)>>
    BY <1>1, <1>5, LegForms, Zenon
  <2>2. QED
    BY <2>1
<1>6. CASE p.kind = "EXCHANGE" /\ leg = 2
  <2>1. \/ t = <<SlotUnreserve(p.slot), MoneyUnreserve(p.bid - p.price), ItemToInventory(item, p.slot),
                 MoneyTransfer(-p.price, -p.price < 0)>>
        \/ t = <<SlotUnreserve(p.slot), ItemToInventory(item, p.slot), MoneyTransfer(-p.price, -p.price < 0)>>
    BY <1>1, <1>6, LegForms, Zenon
  <2>2. QED
    BY <2>1
<1>7. CASE p.kind = "TO_INVENTORY" \/ p.kind = "FROM_INVENTORY"
  <2>1. t = <<ItemToInventory(p.item, 0)>> \/ t = <<ItemToServer(p.item)>>
    BY <1>1, <1>7, LegForms, Zenon
  <2>2. QED
    BY <2>1
<1>8. QED
    BY <1>1, <1>2, <1>3, <1>4, <1>5, <1>6, <1>7

LEMMA PacketIsTaken ==
    ASSUME UserServerTypeOK, NEW u \in Users, NEW s \in Servers, HandleCommit(u, s)
    PROVE  to_us'[u][s] # to_us[u][s]
<1>1. PICK q \in Seq(ToUsMessages) : q = to_us[u][s] /\ q # <<>> /\ to_us'[u][s] = Tail(q)
  <2>1. to_us[u][s] # <<>> /\ ReadPacket(u, s)
    BY DEF HandleCommit, Arrived
  <2>2. to_us[u][s] \in Seq(ToUsMessages)
    BY DEF UserServerTypeOK
  <2>3. to_us'[u][s] = Tail(to_us[u][s])
    BY <2>1 DEF ReadPacket, UserServerTypeOK
  <2>4. QED
    BY <2>1, <2>2, <2>3
<1>2. Len(Tail(q)) = Len(q) - 1 /\ Len(q) \in Nat
    BY <1>1, HeadTailProperties
<1>3. Tail(q) # q
    BY <1>2
<1>4. QED
    BY <1>1, <1>3

\* However the two servers' transactions, faults and decisions fall together: a slot one server
\* has reserved keeps its item and its holder, and the money it has reserved stays reserved,
\* until that server's own decision arrives (user_server.cpp:286-522).
THEOREM ReservationsAlwaysRespected == ServersSpec => ReservationsRespected
<1> DEFINE A == \A u \in Users, s \in Servers :
                    to_us'[u][s] = to_us[u][s] =>
                        /\ account'[u].money_reservations[s] = account[u].money_reservations[s]
                        /\ \A n \in Slots :
                            account[u].inventory_reservations[n] = s =>
                                /\ account'[u].inventory_reservations[n] = s
                                /\ account'[u].inventory[n] = account[u].inventory[n]
<1>1. MarketInv /\ TurnInv(Articles) /\ [ServersNext]_allVars => [A]_allVars
  <2> SUFFICES ASSUME MarketInv, TurnInv(Articles), [ServersNext]_allVars, NEW u \in Users, NEW s \in Servers,
                      to_us'[u][s] = to_us[u][s]
               PROVE  Respects(account[u], account'[u], s)
    BY DEF Respects
  <2>1. UserServerTypeOK /\ BooksAgree /\ LegsPrepared(Articles)
    BY DEF MarketInv, CoordinatorInv, CoordinatorTypeOK, TurnInv, LegsInv
  <2>2. CASE account'[u] = account[u]
    BY <2>2 DEF Respects
  <2>3. CASE account'[u] # account[u]
    <3>1. PICK r \in Servers :
            /\ HandleCommit(u, r) /\ current[u][r].exists
            /\ account'[u] = commit_transaction(current[u][r].transaction, account[u], r).account
        BY <2>1, <2>3, AccountsChangeByCommit
    <3>2. r # s
        BY <2>1, <3>1, PacketIsTaken
    <3>3. PICK a, t : a = account[u] /\ t = current[u][r].transaction
        OBVIOUS
    <3>4. a \in Account /\ WellFormed(a) /\ t \in Transactions /\ t \in LegsOf(Articles, r)
        BY <2>1, <3>1, <3>3 DEF UserServerTypeOK, BooksAgree, LegsPrepared
    <3>5. \A k \in DOMAIN t : t[k].type # "ITEM_UNRESERVE"
        BY <3>4, LegsUnreserveNoItem
    <3>6. Respects(a, commit_transaction(t, a, r).account, s)
        BY <3>2, <3>4, <3>5, CommitRespects
    <3>7. QED
        BY <3>1, <3>3, <3>6
  <2>4. QED
    BY <2>2, <2>3
<1>2. QED
    BY <1>1, ServersInvariant, PTL DEF ServersSpec, ReservationsRespected
-----------------------------------------------------------------------------
(***************************************************************************)
(* Nothing is made or lost.  What an account holds and what the commits    *)
(* under way will add to it are counted together, and with items what the  *)
(* room holds: the sum over all users never changes while nothing fails.   *)
(***************************************************************************)
\* As long as nothing has failed, nothing had failed before.
LEMMA CalmBefore ==
    ASSUME MarketInv, TurnInv(Articles), [ServersNext]_allVars, Calm'
    PROVE  Calm /\ TakingTurns
<1>1. FaultStep /\ (~aborted' => ~aborted)
  <2>1. CASE MarketTurn
    BY <2>1, MarketTurnIs, StepsTakeFaults, OthersTakeFaults
  <2>2. CASE RoomTurn
    BY <2>2, RoomTurnIs, StepsTakeFaults
  <2>3. CASE UserServerTurn \/ Disconnect \/ UNCHANGED coordinatorVars
    BY <2>3, OthersTakeFaults
  <2>4. QED
    BY <2>1, <2>2, <2>3 DEF ServersNext, allVars
<1>2. faults \in Faults /\ FaultsBounded
    BY DEF MarketInv, CoordinatorInv, CoordinatorTypeOK, TurnInv
<1>3. AllWell' => AllWell
    BY <1>1, <1>2, FaultsStayBounded DEF FaultStep
<1>4. QED
    BY <1>1, <1>3 DEF Calm, TurnInv

\* The ways in which a step may concern what the users own.  It does not, ...
Still == NoneDisturbed /\ UNCHANGED <<account, entities>>

\* ... a commit is made, ...
CommitMade(u, s) ==
    /\ WillCommit(u, s) /\ ~WillCommit(u, s)'
    /\ OthersUndisturbed(u, s)
    /\ current[u][s].exists
    /\ commit_transaction(current[u][s].transaction, account[u], s).ok
    /\ account' = [account EXCEPT ![u] = commit_transaction(current[u][s].transaction, account[u], s).account]
    /\ UNCHANGED entities

\* ... or transaction t of one user is decided.
Ended(u, s, t, commit) ==
    /\ ~WillCommit(u, s) /\ (WillCommit(u, s)' <=> commit)
    /\ OthersUndisturbed(u, s)
    /\ current[u][s] = [exists |-> TRUE, transaction |-> t] /\ current'[u][s] = current[u][s]
    /\ UNCHANGED account
    /\ InAll(Received, t) = 0
    /\ \A it \in Items, v \in Users :
        entities'[<<it, v>>] = entities[<<it, v>>] - IF commit /\ v = u THEN InAll(Gained(it), t) ELSE 0
-----------------------------------------------------------------------------
\* What an operation that occurs in a leg moves.
LEMMA OperationMoves ==
    ASSUME NEW op \in Operations, NEW it
    PROVE  /\ Received[op] = IF op.type = "MONEY_TRANSFER" THEN op.amount ELSE 0
           /\ Gained(it)[op] = IF op.type = "ITEM_TO_INVENTORY" /\ op.item = it THEN 1
                               ELSE IF op.type = "ITEM_TO_SERVER" /\ op.item = it THEN -1 ELSE 0
BY DEF Received, Gained

LEMMA OperationsOf ==
    /\ \A x : <<x>> \in Transactions => x \in Operations
    /\ \A x, y : <<x, y>> \in Transactions => x \in Operations /\ y \in Operations
    /\ \A x, y, z : <<x, y, z>> \in Transactions => x \in Operations /\ y \in Operations /\ z \in Operations
    /\ \A x, y, z, v : <<x, y, z, v>> \in Transactions =>
            x \in Operations /\ y \in Operations /\ z \in Operations /\ v \in Operations
<1>1. ASSUME NEW t \in Transactions
      PROVE  \A k \in DOMAIN t : t[k] \in Operations
    BY DEF Transactions
<1>2. \A x : <<x>> \in Transactions => x \in Operations
  <2> SUFFICES ASSUME NEW x, <<x>> \in Transactions PROVE x \in Operations
    OBVIOUS
  <2>1. 1 \in DOMAIN <<x>> /\ <<x>>[1] = x
    OBVIOUS
  <2>2. QED
    BY <1>1, <2>1
<1>3. \A x, y : <<x, y>> \in Transactions => x \in Operations /\ y \in Operations
  <2> SUFFICES ASSUME NEW x, NEW y, <<x, y>> \in Transactions PROVE x \in Operations /\ y \in Operations
    OBVIOUS
  <2> DEFINE t == <<x, y>>
  <2>1. 1 \in DOMAIN t /\ 2 \in DOMAIN t /\ t[1] = x /\ t[2] = y
    OBVIOUS
  <2>2. t \in Transactions
    OBVIOUS
  <2> HIDE DEF t
  <2>3. QED
    BY <1>1, <2>1, <2>2
<1>4. \A x, y, z : <<x, y, z>> \in Transactions => x \in Operations /\ y \in Operations /\ z \in Operations
  <2> SUFFICES ASSUME NEW x, NEW y, NEW z, <<x, y, z>> \in Transactions
               PROVE  x \in Operations /\ y \in Operations /\ z \in Operations
    OBVIOUS
  <2> DEFINE t == <<x, y, z>>
  <2>1. 1 \in DOMAIN t /\ 2 \in DOMAIN t /\ 3 \in DOMAIN t /\ t[1] = x /\ t[2] = y /\ t[3] = z
    OBVIOUS
  <2>2. t \in Transactions
    OBVIOUS
  <2> HIDE DEF t
  <2>3. QED
    BY <1>1, <2>1, <2>2
<1>5. \A x, y, z, v : <<x, y, z, v>> \in Transactions =>
            x \in Operations /\ y \in Operations /\ z \in Operations /\ v \in Operations
  <2> SUFFICES ASSUME NEW x, NEW y, NEW z, NEW v, <<x, y, z, v>> \in Transactions
               PROVE  x \in Operations /\ y \in Operations /\ z \in Operations /\ v \in Operations
    OBVIOUS
  <2> DEFINE t == <<x, y, z, v>>
  <2>1. /\ 1 \in DOMAIN t /\ 2 \in DOMAIN t /\ 3 \in DOMAIN t /\ 4 \in DOMAIN t
        /\ t[1] = x /\ t[2] = y /\ t[3] = z /\ t[4] = v
    OBVIOUS
  <2>2. t \in Transactions
    OBVIOUS
  <2> HIDE DEF t
  <2>3. QED
    BY <1>1, <2>1, <2>2
<1>6. QED
    BY <1>2, <1>3, <1>4, <1>5

\* What a leg moves: reserving moves nothing, the two legs of a trade move opposite amounts.
Moves(t, money, item, n) ==
    /\ InAll(Received, t) = money
    /\ \A it : InAll(Gained(it), t) = IF it = item THEN n ELSE 0

LEMMA LegMoves ==
    ASSUME NEW s \in Servers, NEW p \in Own(Articles, s), NEW leg \in {1, 2}, NEW item \in Item,
           NEW t, t = LegTransaction(p, leg, item)
    PROVE  /\ t \in Transactions
           /\ p.kind \in {"BUY", "SELL"} => Moves(t, 0, item, 0)
           /\ p.kind = "EXCHANGE" => IF leg = 1 THEN Moves(t, p.price, p.item, -1) ELSE Moves(t, -p.price, item, 1)
           /\ p.kind = "TO_INVENTORY" => Moves(t, 0, p.item, 1)
           /\ p.kind = "FROM_INVENTORY" => Moves(t, 0, p.item, -1)
<1>1. t \in Transactions
    BY LegsAreTransactions DEF Own
<1>2. p.kind \in {"BUY", "SELL", "EXCHANGE", "TO_INVENTORY", "FROM_INVENTORY"}
    BY DEF Own
<1>3. ASSUME NEW x, t = <<x>>, NEW money, NEW other, NEW n, x.type # "MONEY_TRANSFER" /\ money = 0,
             \/ x.type \notin {"ITEM_TO_INVENTORY", "ITEM_TO_SERVER"} /\ n = 0
             \/ x.type = "ITEM_TO_INVENTORY" /\ x.item = other /\ n = 1
             \/ x.type = "ITEM_TO_SERVER" /\ x.item = other /\ n = -1
      PROVE  Moves(t, money, other, n)
  <2>1. x \in Operations
    BY <1>1, <1>3, OperationsOf
  <2>2. Received[x] = 0 /\ \A it : Gained(it)[x] = IF it = other THEN n ELSE 0
    BY <1>3, <2>1, OperationMoves
  <2>3. n \in Int
    BY <1>3
  <2>4. InAll(Received, t) = Received[x]
    BY <1>3, <2>2, InAllOfOne
  <2>5. ASSUME NEW it
        PROVE  InAll(Gained(it), t) = Gained(it)[x]
    <3>1. Gained(it)[x] \in Int
        BY <2>2, <2>3
    <3>2. QED
        BY <1>3, <3>1, InAllOfOne
  <2>6. QED
    BY <1>3, <2>2, <2>4, <2>5 DEF Moves
<1> USE DEF SlotReserve, SlotUnreserve, ItemReserve, ItemToServer, ItemToInventory, MoneyReserve, MoneyUnreserve,
            MoneyTransfer
<1>4. CASE p.kind = "BUY"
  <2>1. t = <<SlotReserve, MoneyReserve(p.price)>> \/ t = <<SlotReserve>>
    BY <1>4, LegForms, Zenon
  <2>2. CASE t = <<SlotReserve>>
    <3>1. Moves(t, 0, item, 0)
        BY <1>3, <2>2
    <3>2. QED
        BY <1>1, <1>4, <3>1
  <2>3. CASE t = <<SlotReserve, MoneyReserve(p.price)>>
    <3>1. PICK x, y : x = SlotReserve /\ y = MoneyReserve(p.price)
        OBVIOUS
    <3>2. t = <<x, y>> /\ x.type = "SLOT_RESERVE" /\ y.type = "MONEY_RESERVE"
        BY <2>3, <3>1
    <3>3. x \in Operations /\ y \in Operations
        BY <1>1, <3>2, OperationsOf
    <3>4. Received[x] = 0 /\ Received[y] = 0 /\ \A it : Gained(it)[x] = 0 /\ Gained(it)[y] = 0
        BY <3>2, <3>3, OperationMoves
    <3>5. InAll(Received, t) = 0 /\ \A it : InAll(Gained(it), t) = 0
        BY <3>2, <3>4, InAllOfTwo
    <3>6. QED
        BY <1>1, <1>4, <3>5 DEF Moves
  <2>4. QED
    BY <1>1, <1>4, <2>1, <2>2, <2>3
<1>5. CASE p.kind = "SELL"
  <2>1. t = <<ItemReserve(p.item)>>
    BY <1>5, LegForms, Zenon
  <2>2. Moves(t, 0, item, 0)
    BY <1>3, <2>1
  <2>3. QED
    BY <1>1, <1>5, <2>2
<1>6. CASE p.kind = "TO_INVENTORY"
  <2>1. t = <<ItemToInventory(p.item, 0)>>
    BY <1>6, LegForms, Zenon
  <2>2. QED
    BY <1>1, <1>3, <1>6, <2>1
<1>7. CASE p.kind = "FROM_INVENTORY"
  <2>1. t = <<ItemToServer(p.item)>>
    BY <1>7, LegForms, Zenon
  <2>2. QED
    BY <1>1, <1>3, <1>7, <2>1
<1>8. CASE p.kind = "EXCHANGE"
  <2>1. p.price \in Nat
    BY <1>8, PricesAssumption DEF Own, Purposes
  <2>2. CASE leg = 1
    <3>1. PICK x, y : x = ItemToServer(p.item) /\ y = MoneyTransfer(p.price, FALSE)
        OBVIOUS
    <3>2. t = <<x, y>>
        BY <1>8, <2>2, <3>1, LegForms, Zenon
    <3>3. /\ x.type = "ITEM_TO_SERVER" /\ x.item = p.item
          /\ y.type = "MONEY_TRANSFER" /\ y.amount = p.price
        BY <3>1
    <3>4. x \in Operations /\ y \in Operations
        BY <1>1, <3>2, OperationsOf
    <3>5. /\ Received[x] = 0 /\ Received[y] = p.price
          /\ \A it : Gained(it)[x] = (IF it = p.item THEN -1 ELSE 0) /\ Gained(it)[y] = 0
        BY <3>3, <3>4, OperationMoves
    <3>6. InAll(Received, t) = p.price /\ \A it : InAll(Gained(it), t) = IF it = p.item THEN -1 ELSE 0
        BY <2>1, <3>2, <3>5, InAllOfTwo
    <3>7. QED
        BY <1>1, <1>8, <2>2, <3>6 DEF Moves
  <2>3. CASE leg = 2
    <3>1. PICK x, y, z, v : /\ x = SlotUnreserve(p.slot) /\ y = MoneyUnreserve(p.bid - p.price)
                            /\ z = ItemToInventory(item, p.slot) /\ v = MoneyTransfer(-p.price, -p.price < 0)
        OBVIOUS
    <3>2. t = <<x, y, z, v>> \/ t = <<x, z, v>>
        BY <1>8, <2>3, <3>1, LegForms, Zenon
    <3>3. /\ x.type = "SLOT_UNRESERVE" /\ y.type = "MONEY_UNRESERVE"
          /\ z.type = "ITEM_TO_INVENTORY" /\ z.item = item
          /\ v.type = "MONEY_TRANSFER" /\ v.amount = -p.price
        BY <3>1
    <3>4. x \in Operations /\ z \in Operations /\ v \in Operations /\ (t = <<x, y, z, v>> => y \in Operations)
        BY <1>1, <3>2, OperationsOf
    <3>5. /\ Received[x] = 0 /\ Received[z] = 0 /\ Received[v] = -p.price
          /\ \A it : Gained(it)[x] = 0 /\ Gained(it)[z] = (IF it = item THEN 1 ELSE 0) /\ Gained(it)[v] = 0
        BY <3>3, <3>4, OperationMoves
    <3>6. t = <<x, y, z, v>> => Received[y] = 0 /\ \A it : Gained(it)[y] = 0
        BY <3>3, <3>4, OperationMoves
    <3>7. InAll(Received, t) = -p.price /\ \A it : InAll(Gained(it), t) = IF it = item THEN 1 ELSE 0
        BY <2>1, <3>2, <3>5, <3>6, InAllOfThree, InAllOfFour
    <3>8. QED
        BY <1>1, <1>8, <2>3, <3>7 DEF Moves
  <2>4. QED
    BY <2>2, <2>3
<1>9. QED
    BY <1>2, <1>4, <1>5, <1>6, <1>7, <1>8
-----------------------------------------------------------------------------
\* A session that is no trade ends.
LEMMA SessionOver ==
    ASSUME MarketInv, TurnInv(Articles), TakingTurns, AllWell', NEW s \in Servers, NEW commit \in BOOLEAN,
           NEW sent \in BOOLEAN, DecideFirstLeg(s, commit, sent), session[s].purpose.kind # "EXCHANGE",
           NEW u, u = SessionUser(s), NEW t, t = SessionTransaction(s)
    PROVE  /\ u \in Users /\ sent = TRUE
           /\ ~WillCommit(u, s) /\ (WillCommit(u, s)' <=> commit)
           /\ OthersUndisturbed(u, s)
           /\ current[u][s] = [exists |-> TRUE, transaction |-> t] /\ current'[u][s] = current[u][s]
           /\ UNCHANGED account
<1>1. LegsInv(Articles) /\ FaultsBounded
    BY DEF TurnInv
<1>2. UNCHANGED account
    BY CoordinatorsLeaveAccounts
<1>3. /\ sent = TRUE
      /\ SessionUser(s) \in Users
      /\ OthersUndisturbed(SessionUser(s), s)
      /\ ~WillCommit(SessionUser(s), s)
      /\ current[SessionUser(s)][s] = [exists |-> TRUE, transaction |-> SessionTransaction(s)]
      /\ \A v : v = SessionUser(s) => (current'[v][s] = current[v][s] /\ (WillCommit(v, s)' <=> commit))
    BY <1>1, FirstDecisionDisturbs
<1>4. WillCommit(u, s) <=> WillCommit(SessionUser(s), s)
    BY DEF WillCommit, CommitOnItsWay
<1>5. OthersUndisturbed(u, s)
    BY <1>3 DEF OthersUndisturbed
<1>6. QED
    BY <1>2, <1>3, <1>4, <1>5

EntitiesCounted == entities \in [Item \X Users -> Int]

LEMMA MarketStepIs ==
    ASSUME MarketInv, TurnInv(Articles), TakingTurns, EntitiesCounted, AllWell', MarketTurn, UNCHANGED entities
    PROVE  \/ Still
           \/ TradeAgreed(MarketServer) /\ UNCHANGED <<account, entities>>
           \/ \E u \in Users, s \in Servers, t \in Transactions, commit \in BOOLEAN : Ended(u, s, t, commit)
<1>1. MarketServer \in Servers /\ LegsInv(Articles) /\ FaultsBounded
    BY DEF Servers, TurnInv
<1>2. CASE CoordinatorStep(MarketServer)
  <2>1. NoneDisturbed \/ TradeAgreed(MarketServer)
    BY <1>1, <1>2, CoordinatorDisturbs
  <2>2. UNCHANGED account
    BY <1>2, CoordinatorsLeaveAccounts
  <2>3. QED
    BY <2>1, <2>2 DEF Still
<1>3. CASE \E p : Begin(MarketServer, p)
  <2>1. NoneDisturbed
    BY <1>1, <1>3, BeginDisturbsNone
  <2>2. UNCHANGED account
    BY <1>3, CoordinatorsLeaveAccounts
  <2>3. QED
    BY <2>1, <2>2 DEF Still
<1>4. CASE UNCHANGED coordinatorVars
    BY <1>4, IdleDisturbsNone DEF Still, coordinatorVars, usVars
<1>5. ASSUME NEW sent \in BOOLEAN, FinishPlaceOrder(sent) \/ FinishExchange(sent)
      PROVE  /\ session[MarketServer] \in LiveSessions(Articles) /\ ~Idle(MarketServer)
             /\ session[MarketServer].can_commit \in BOOLEAN
  <2>1. ~Idle(MarketServer)
    BY <1>5 DEF FinishPlaceOrder, FinishExchange
  <2>2. QED
    BY <1>1, <2>1, LegsOfTrade DEF LiveSessions
<1>6. CASE \E sent \in BOOLEAN : FinishExchange(sent)
  <2>1. PICK sent \in BOOLEAN : FinishExchange(sent)
    BY <1>6
  <2>2. PICK commit \in BOOLEAN : commit = session[MarketServer].can_commit
    BY <1>5, <2>1
  <2>3. DecideFirstLeg(MarketServer, commit, sent) /\ session[MarketServer].purpose.kind = "EXCHANGE"
    BY <2>1, <2>2 DEF FinishExchange
  <2>4. NoneDisturbed
    BY <1>1, <2>2, <2>3, FirstDecisionDisturbs
  <2>5. UNCHANGED account
    BY <2>3, CoordinatorsLeaveAccounts
  <2>6. QED
    BY <2>4, <2>5 DEF Still
<1>7. CASE \E sent \in BOOLEAN : FinishPlaceOrder(sent)
  <2>1. PICK sent \in BOOLEAN : FinishPlaceOrder(sent)
    BY <1>7
  <2>2. PICK commit \in BOOLEAN : commit = session[MarketServer].can_commit
    BY <1>5, <2>1
  <2>3. DecideFirstLeg(MarketServer, commit, sent) /\ session[MarketServer].purpose.kind \in {"BUY", "SELL"}
    BY <2>1, <2>2 DEF FinishPlaceOrder
  <2>4. PICK u, t, p, item, leg : /\ u = SessionUser(MarketServer) /\ t = SessionTransaction(MarketServer)
                                  /\ p = session[MarketServer].purpose /\ item = session[MarketServer].item
                                  /\ leg = session[MarketServer].leg
    OBVIOUS
  <2>5. p \in Own(Articles, MarketServer) /\ item \in Item /\ leg \in {1, 2}
    BY <1>1, <1>5, <2>1, <2>4, LegsOfTrade DEF LiveSessions
  <2>6. t = LegTransaction(p, leg, item)
    BY <2>4 DEF SessionTransaction
  <2>7. t \in Transactions /\ Moves(t, 0, item, 0)
    BY <1>1, <2>3, <2>4, <2>5, <2>6, LegMoves
  <2>8. /\ u \in Users
        /\ ~WillCommit(u, MarketServer) /\ (WillCommit(u, MarketServer)' <=> commit)
        /\ OthersUndisturbed(u, MarketServer)
        /\ current[u][MarketServer] = [exists |-> TRUE, transaction |-> t]
        /\ current'[u][MarketServer] = current[u][MarketServer]
        /\ UNCHANGED account
    BY <1>1, <2>3, <2>4, SessionOver
  <2>9. InAll(Received, t) = 0 /\ \A it : InAll(Gained(it), t) = 0
    BY <2>7 DEF Moves
  <2>10. Ended(u, MarketServer, t, commit)
    <3>1. \A it \in Items, v \in Users :
            entities'[<<it, v>>] = entities[<<it, v>>] - IF commit /\ v = u THEN InAll(Gained(it), t) ELSE 0
      <4>1. \A it \in Items, v \in Users : entities[<<it, v>>] \in Int
        BY DEF EntitiesCounted, Item
      <4>2. ASSUME NEW it \in Items, NEW v \in Users
            PROVE  entities'[<<it, v>>] = entities[<<it, v>>] - IF commit /\ v = u THEN InAll(Gained(it), t) ELSE 0
        <5>1. PICK n : n = entities[<<it, v>>] /\ n \in Int
            BY <4>1
        <5>2. entities'[<<it, v>>] = n /\ n - 0 = n
            BY <5>1
        <5>3. QED
            BY <2>9, <5>1, <5>2
      <4>3. QED
        BY <4>2
    <3>2. QED
        BY <2>8, <2>9, <3>1 DEF Ended
  <2>11. QED
    BY <1>1, <2>7, <2>8, <2>10
<1>8. QED
    BY <1>2, <1>3, <1>4, <1>6, <1>7 DEF MarketTurn, PlaceOrder, BeginPass, ContinuePass, ExchangeNext

LEMMA RoomStepIs ==
    ASSUME MarketInv, TurnInv(Articles), TakingTurns, EntitiesCounted, AllWell', RoomTurn
    PROVE  \/ Still
           \/ \E u \in Users, s \in Servers, t \in Transactions, commit \in BOOLEAN : Ended(u, s, t, commit)
<1>1. RoomServer \in Servers /\ LegsInv(Articles) /\ FaultsBounded /\ RoomServer # MarketServer
    BY ServerAssumption DEF Servers, TurnInv
<1>2. \A it \in Items, v \in Users : <<it, v>> \in Item \X Users /\ entities[<<it, v>>] \in Int
    BY DEF EntitiesCounted, Item
<1>3. CASE CoordinatorStep(RoomServer) /\ UNCHANGED entities
  <2>1. NoneDisturbed \/ TradeAgreed(RoomServer)
    BY <1>1, <1>3, CoordinatorDisturbs
  <2>2. UNCHANGED account
    BY <1>3, CoordinatorsLeaveAccounts
  <2>3. QED
    BY <1>1, <1>3, <2>1, <2>2 DEF Still, TradeAgreed
<1>4. CASE \E u \in Users, it \in Items : PlaceFromInventory(u, it) \/ PlaceInInventory(u, it)
  <2>1. PICK p : Begin(RoomServer, p) /\ UNCHANGED entities
    BY <1>4 DEF PlaceFromInventory, PlaceInInventory
  <2>2. NoneDisturbed
    BY <1>1, <2>1, BeginDisturbsNone
  <2>3. UNCHANGED account
    BY <2>1, CoordinatorsLeaveAccounts
  <2>4. QED
    BY <2>1, <2>2, <2>3 DEF Still
<1>5. ASSUME NEW commit \in BOOLEAN, NEW sent \in BOOLEAN, DecideFirstLeg(RoomServer, commit, sent),
             ~Idle(RoomServer), NEW x, x \in {-1, 1},
             session[RoomServer].purpose.kind = IF x = 1 THEN "TO_INVENTORY" ELSE "FROM_INVENTORY",
             sent = TRUE =>
                entities' = IF commit
                            THEN [entities EXCEPT ![<<session[RoomServer].purpose.item,
                                                     session[RoomServer].purpose.user>>] = @ - x]
                            ELSE entities
      PROVE  \E u \in Users, s \in Servers, t \in Transactions, c \in BOOLEAN : Ended(u, s, t, c)
  <2>1. PICK u, t, p, item, leg : /\ u = SessionUser(RoomServer) /\ t = SessionTransaction(RoomServer)
                                  /\ p = session[RoomServer].purpose /\ item = session[RoomServer].item
                                  /\ leg = session[RoomServer].leg
    OBVIOUS
  <2>2. p.kind = IF x = 1 THEN "TO_INVENTORY" ELSE "FROM_INVENTORY"
    BY <1>5, <2>1
  <2>3. /\ p \in Own(Articles, RoomServer) /\ item \in Item /\ leg \in {1, 2}
        /\ p.kind # "EXCHANGE" /\ LegUser(p, leg) = p.user
    BY <1>1, <1>5, <2>1, <2>2, LegsOfTrade DEF LiveSessions
  <2>4. t = LegTransaction(p, leg, item) /\ u = p.user
    BY <2>1, <2>3 DEF SessionTransaction, SessionUser
  <2>5. t \in Transactions /\ Moves(t, 0, p.item, x)
    BY <1>1, <1>5, <2>2, <2>3, <2>4, LegMoves
  <2>6. /\ u \in Users /\ sent = TRUE
        /\ ~WillCommit(u, RoomServer) /\ (WillCommit(u, RoomServer)' <=> commit)
        /\ OthersUndisturbed(u, RoomServer)
        /\ current[u][RoomServer] = [exists |-> TRUE, transaction |-> t]
        /\ current'[u][RoomServer] = current[u][RoomServer]
        /\ UNCHANGED account
    <3>1. DecideFirstLeg(RoomServer, commit, sent) /\ session[RoomServer].purpose.kind # "EXCHANGE"
        BY <1>5, <2>1, <2>3
    <3>2. QED
        BY <1>1, <2>1, <3>1, SessionOver
  <2>7. entities' = IF commit THEN [entities EXCEPT ![<<p.item, u>>] = @ - x] ELSE entities
    BY <1>5, <2>1, <2>4, <2>6
  <2>8. \A it \in Items, v \in Users :
            entities'[<<it, v>>] = entities[<<it, v>>] - IF commit /\ v = u THEN InAll(Gained(it), t) ELSE 0
    <3> SUFFICES ASSUME NEW it \in Items, NEW v \in Users
                 PROVE  entities'[<<it, v>>] = entities[<<it, v>>] - IF commit /\ v = u THEN InAll(Gained(it), t) ELSE 0
        OBVIOUS
    <3>1. InAll(Gained(it), t) = IF it = p.item THEN x ELSE 0
        BY <2>5 DEF Moves
    <3>2. PICK e : e = <<it, v>> /\ e \in Item \X Users /\ entities[e] \in Int
        BY <1>2
    <3>3. PICK f : f = <<p.item, u>>
        OBVIOUS
    <3>4. entities' = IF commit THEN [entities EXCEPT ![f] = @ - x] ELSE entities
        BY <2>7, <3>3
    <3>5. entities'[e] = entities[e] - IF commit /\ e = f THEN x ELSE 0
        BY <1>5, <3>2, <3>4 DEF EntitiesCounted
    <3>6. QED
      <4>1. e = f <=> it = p.item /\ v = u
        BY <3>2, <3>3
      <4>2. QED
        BY <3>1, <3>2, <3>5, <4>1
  <2>9. Ended(u, RoomServer, t, commit)
    BY <2>5, <2>6, <2>8 DEF Ended, Moves
  <2>10. QED
    BY <1>1, <2>5, <2>6, <2>9
<1>6. CASE \E sent \in BOOLEAN : FinishToInventory(sent)
  <2>1. PICK sent \in BOOLEAN : FinishToInventory(sent)
    BY <1>6
  <2>2. session[RoomServer].can_commit \in BOOLEAN
    BY <1>1, <2>1, LegsOfTrade DEF FinishToInventory, LiveSessions
  <2>3. PICK commit \in BOOLEAN : commit = session[RoomServer].can_commit
    BY <2>2
  <2>4. /\ ~Idle(RoomServer) /\ session[RoomServer].purpose.kind = "TO_INVENTORY"
        /\ DecideFirstLeg(RoomServer, commit, sent)
        /\ entities' = IF commit /\ sent
                       THEN [entities EXCEPT ![<<session[RoomServer].purpose.item,
                                                 session[RoomServer].purpose.user>>] = @ - 1]
                       ELSE entities
    BY <2>1, <2>3 DEF FinishToInventory
  <2>5. QED
    BY <1>5, <2>4
<1>7. CASE \E fits, sent \in BOOLEAN : FinishFromInventory(fits, sent)
  <2>1. PICK fits \in BOOLEAN, sent \in BOOLEAN : FinishFromInventory(fits, sent)
    BY <1>7
  <2>2. ~Idle(RoomServer) /\ session[RoomServer].purpose.kind = "FROM_INVENTORY"
    BY <2>1 DEF FinishFromInventory
  <2>3. session[RoomServer].can_commit \in BOOLEAN
    BY <1>1, <2>2, LegsOfTrade DEF LiveSessions
  <2>4. PICK commit \in BOOLEAN : commit = (session[RoomServer].can_commit /\ fits)
    BY <2>3
  <2>5. /\ DecideFirstLeg(RoomServer, commit, sent)
        /\ entities' = IF commit
                       THEN [entities EXCEPT ![<<session[RoomServer].item,
                                                 session[RoomServer].purpose.user>>] = @ + 1]
                       ELSE entities
    BY <2>1, <2>4 DEF FinishFromInventory
  <2>6. session[RoomServer].phase = "decide"
    BY <2>5 DEF DecideFirstLeg, SendDecision
  <2>7. commit => session[RoomServer].item = session[RoomServer].purpose.item
    BY <1>1, <2>2, <2>4, <2>6 DEF TakingTurns, ItemRead
  <2>8. PICK e : e = <<session[RoomServer].purpose.item, session[RoomServer].purpose.user>>
    OBVIOUS
  <2>9. commit => entities' = [entities EXCEPT ![e] = @ + 1]
    BY <2>5, <2>7, <2>8
  <2>10. PICK x : x = -1
    OBVIOUS
  <2>11. [entities EXCEPT ![e] = @ + 1] = [entities EXCEPT ![e] = @ - x]
    <3>1. e \in Item \X Users => entities[e] + 1 = entities[e] - x
        BY <2>10 DEF EntitiesCounted
    <3>2. QED
        BY <3>1 DEF EntitiesCounted
  <2>12. entities' = IF commit THEN [entities EXCEPT ![<<session[RoomServer].purpose.item,
                                                         session[RoomServer].purpose.user>>] = @ - x] ELSE entities
    BY <2>5, <2>8, <2>9, <2>11
  <2>13. x \in {-1, 1} /\ x # 1
    BY <2>10
  <2>14. \E u \in Users, s \in Servers, t \in Transactions, c \in BOOLEAN : Ended(u, s, t, c)
    BY <1>5, <2>2, <2>5, <2>12, <2>13
  <2>15. QED
    BY <2>14
<1>8. QED
    BY <1>3, <1>4, <1>6, <1>7 DEF RoomTurn
LEMMA UserServerStepIs ==
    ASSUME MarketInv, TurnInv(Articles), TakingTurns, UserServerTurn, ~aborted', UNCHANGED entities
    PROVE  Still \/ \E u \in Users, s \in Servers : CommitMade(u, s)
<1>1. LegsInv(Articles) /\ UserServerTypeOK /\ UNCHANGED session
    BY DEF TurnInv, MarketInv, CoordinatorInv, CoordinatorTypeOK, UserServerTurn
<1>2. CASE \E u \in Users : SendUserUpdate(u)
  <2>1. UNCHANGED <<account, session, to_us, current>>
    BY <1>1, <1>2 DEF SendUserUpdate, netVars
  <2>2. QED
    BY <2>1, IdleDisturbsNone DEF Still
<1>3. ASSUME NEW u \in Users, NEW s \in Servers, HandlePacket(u, s)
      PROVE  Still \/ CommitMade(u, s)
  <2>1. /\ OthersUndisturbed(u, s)
        /\ HandleCommit(u, s) => WillCommit(u, s) /\ ~WillCommit(u, s)'
        /\ ~HandleCommit(u, s) => Undisturbed(u, s)
    BY <1>1, <1>3, PacketDisturbs
  <2>2. CASE HandleCommit(u, s)
    <3>1. /\ current[u][s].exists
          /\ commit_transaction(current[u][s].transaction, account[u], s).ok
          /\ account' = [account EXCEPT ![u] = commit_transaction(current[u][s].transaction, account[u], s).account]
        BY <2>2 DEF HandleCommit
    <3>2. QED
        BY <2>1, <2>2, <3>1 DEF CommitMade
  <2>3. CASE ~HandleCommit(u, s)
    <3>1. UNCHANGED account
        BY <1>3, <2>3 DEF HandlePacket, HandlePrepare, HandleAbort, HandleUnexpected, accountVars
    <3>2. NoneDisturbed
        BY <2>1, <2>3 DEF NoneDisturbed, OthersUndisturbed
    <3>3. QED
        BY <3>1, <3>2 DEF Still
  <2>4. QED
    BY <2>2, <2>3
<1>4. QED
    BY <1>2, <1>3 DEF UserServerTurn, UserServerStep

\* As long as nothing fails these are all the steps there are.
LEMMA ServersStepIs ==
    ASSUME MarketInv, TurnInv(Articles), EntitiesCounted, [ServersNext]_allVars, Calm'
    PROVE  \/ Still
           \/ \E u \in Users, s \in Servers : CommitMade(u, s)
           \/ TradeAgreed(MarketServer) /\ UNCHANGED <<account, entities>>
           \/ \E u \in Users, s \in Servers, t \in Transactions, commit \in BOOLEAN : Ended(u, s, t, commit)
<1>1. TakingTurns /\ AllWell' /\ ~aborted'
    BY CalmBefore DEF Calm
<1>2. CASE MarketTurn /\ UNCHANGED entities
    BY <1>1, <1>2, MarketStepIs
<1>3. CASE RoomTurn
    BY <1>1, <1>3, RoomStepIs
<1>4. CASE UserServerTurn /\ UNCHANGED entities
    BY <1>1, <1>4, UserServerStepIs
<1>5. CASE Disconnect
    BY <1>1, <1>5, FaultTaken DEF Disconnect, MarketInv, CoordinatorInv, CoordinatorTypeOK, TurnInv
<1>6. CASE UNCHANGED allVars
    BY <1>6, IdleDisturbsNone DEF Still, allVars, coordinatorVars, usVars
<1>7. QED
    BY <1>2, <1>3, <1>4, <1>5, <1>6 DEF ServersNext

LEMMA EntitiesStayCounted ==
    ASSUME EntitiesCounted, [ServersNext]_allVars
    PROVE  EntitiesCounted'
<1>1. CASE RoomTurn
  <2>1. \/ UNCHANGED entities
        \/ \E e : entities' = [entities EXCEPT ![e] = @ + 1] \/ entities' = [entities EXCEPT ![e] = @ - 1]
    BY <1>1 DEF RoomTurn, PlaceFromInventory, PlaceInInventory, FinishFromInventory, FinishToInventory
  <2>2. ASSUME NEW e
        PROVE  /\ [entities EXCEPT ![e] = @ + 1] \in [Item \X Users -> Int]
               /\ [entities EXCEPT ![e] = @ - 1] \in [Item \X Users -> Int]
    <3>1. e \in Item \X Users => entities[e] + 1 \in Int /\ entities[e] - 1 \in Int
        BY DEF EntitiesCounted
    <3>2. QED
        BY <3>1 DEF EntitiesCounted
  <2>3. QED
    BY <2>1, <2>2 DEF EntitiesCounted
<1>2. CASE UNCHANGED entities
    BY <1>2 DEF EntitiesCounted
<1>3. QED
    BY <1>1, <1>2 DEF ServersNext, allVars

-----------------------------------------------------------------------------
\* What the commits under way will add to user u's account, by the weights w.
Pending(w, u, s) == IF WillCommit(u, s) THEN InAll(w, current[u][s].transaction) ELSE 0
Due(w, u) == Pending(w, u, MarketServer) + Pending(w, u, RoomServer)

LEMMA PendingIsNumber ==
    ASSUME MarketInv, NEW w \in [Operations -> Int], NEW u \in Users, NEW s \in Servers
    PROVE  Pending(w, u, s) \in Int /\ InAll(w, current[u][s].transaction) \in Int
<1>1. current[u][s].transaction \in Transactions
    BY DEF MarketInv, CoordinatorInv, CoordinatorTypeOK, UserServerTypeOK
<1>2. InAll(w, current[u][s].transaction) \in Int
    BY <1>1, InAllIsNumber
<1>3. QED
    BY <1>2 DEF Pending

LEMMA DueIsNumber ==
    ASSUME MarketInv, NEW w \in [Operations -> Int], NEW u \in Users
    PROVE  Due(w, u) \in Int
BY PendingIsNumber DEF Due, Servers

LEMMA PendingKept ==
    ASSUME NEW w, NEW u, NEW s, Undisturbed(u, s)
    PROVE  Pending(w, u, s)' = Pending(w, u, s)
<1>1. Pending(w, u, s)' = IF WillCommit(u, s)' THEN InAll(w, current'[u][s].transaction) ELSE 0
    BY DEF Pending, InAll, At
<1>2. QED
    BY <1>1 DEF Undisturbed, Pending

\* A step that disturbs one transaction at most changes what is due by that transaction's part.
LEMMA DueChanges ==
    ASSUME MarketInv, MarketInv', NEW w \in [Operations -> Int], NEW u \in Users, NEW s \in Servers,
           OthersUndisturbed(u, s)
    PROVE  /\ \A v \in Users \ {u} : Due(w, v)' = Due(w, v)
           /\ Due(w, u)' = Due(w, u) + (Pending(w, u, s)' - Pending(w, u, s))
<1>1. ASSUME NEW v \in Users, NEW r \in Servers, v # u \/ r # s
      PROVE  Pending(w, v, r)' = Pending(w, v, r)
  <2>1. Undisturbed(v, r)
    BY <1>1 DEF OthersUndisturbed
  <2>2. QED
    BY <2>1, PendingKept
<1>2. \A v \in Users, r \in Servers : Pending(w, v, r) \in Int
    BY PendingIsNumber
<1>3. ASSUME NEW v \in Users, NEW r \in Servers
      PROVE  Pending(w, v, r)' \in Int
  <2>1. current'[v][r].transaction \in Transactions
    BY DEF MarketInv, CoordinatorInv, CoordinatorTypeOK, UserServerTypeOK
  <2>2. InAll(w, current'[v][r].transaction) \in Int
    BY <2>1, InAllIsNumber
  <2>3. QED
    BY <2>2 DEF Pending, InAll, At
<1>4. ASSUME NEW v \in Users
      PROVE  /\ Due(w, v) = Pending(w, v, MarketServer) + Pending(w, v, RoomServer)
             /\ Due(w, v)' = Pending(w, v, MarketServer)' + Pending(w, v, RoomServer)'
    BY DEF Due
<1>5. MarketServer \in Servers /\ RoomServer \in Servers /\ MarketServer # RoomServer
      /\ (s = MarketServer \/ s = RoomServer)
    BY ServerAssumption DEF Servers
<1>6. \A v \in Users \ {u} : Due(w, v)' = Due(w, v)
    BY <1>1, <1>4, <1>5
<1>7. Due(w, u)' = Due(w, u) + (Pending(w, u, s)' - Pending(w, u, s))
    BY <1>1, <1>2, <1>3, <1>4, <1>5
<1>8. QED
    BY <1>6, <1>7
LEMMA DueAfterCommit ==
    ASSUME MarketInv, MarketInv', NEW w \in [Operations -> Int], NEW u \in Users, NEW s \in Servers, CommitMade(u, s)
    PROVE  /\ \A v \in Users \ {u} : Due(w, v)' = Due(w, v)
           /\ Due(w, u)' = Due(w, u) - InAll(w, current[u][s].transaction)
<1>1. Pending(w, u, s)' = 0 /\ Pending(w, u, s) = InAll(w, current[u][s].transaction)
    BY DEF CommitMade, Pending
<1>2. OthersUndisturbed(u, s) /\ Due(w, u) \in Int /\ Pending(w, u, s) \in Int
    BY DueIsNumber, PendingIsNumber DEF CommitMade
<1>3. QED
    BY <1>1, <1>2, DueChanges

LEMMA DueAfterDecision ==
    ASSUME MarketInv, MarketInv', NEW w \in [Operations -> Int], NEW u \in Users, NEW s \in Servers,
           NEW t \in Transactions, NEW commit \in BOOLEAN, Ended(u, s, t, commit)
    PROVE  /\ \A v \in Users \ {u} : Due(w, v)' = Due(w, v)
           /\ Due(w, u)' = Due(w, u) + IF commit THEN InAll(w, t) ELSE 0
<1>1. Pending(w, u, s) = 0
    BY DEF Ended, Pending
<1>2. Pending(w, u, s)' = IF commit THEN InAll(w, t) ELSE 0
  <2>1. Pending(w, u, s)' = IF WillCommit(u, s)' THEN InAll(w, current'[u][s].transaction) ELSE 0
    BY DEF Pending, InAll, At
  <2>2. current'[u][s].transaction = t /\ (WillCommit(u, s)' <=> commit)
    BY DEF Ended
  <2>3. QED
    BY <2>1, <2>2
<1>3. OthersUndisturbed(u, s) /\ Due(w, u) \in Int /\ InAll(w, t) \in Int
    BY DueIsNumber, InAllIsNumber DEF Ended
<1>4. QED
    BY <1>1, <1>2, <1>3, DueChanges

LEMMA DueAfterTrade ==
    ASSUME MarketInv, TurnInv(Articles), NEW w \in [Operations -> Int], TradeAgreed(MarketServer),
           NEW p, p = session[MarketServer].purpose
    PROVE  /\ p \in Own(Articles, MarketServer) /\ p.kind = "EXCHANGE" /\ p.item \in Item
           /\ p.seller \in Users /\ p.buyer \in Users /\ p.seller # p.buyer
           /\ \A v \in Users \ {p.seller, p.buyer} : Due(w, v)' = Due(w, v)
           /\ Due(w, p.seller)' = Due(w, p.seller) + InAll(w, LegTransaction(p, 1, p.item))
           /\ Due(w, p.buyer)' = Due(w, p.buyer) + InAll(w, LegTransaction(p, 2, p.item))
<1> DEFINE M == MarketServer
           R == RoomServer
<1>1. M \in Servers /\ R \in Servers /\ M # R /\ LegsInv(Articles)
    BY ServerAssumption DEF Servers, TurnInv
<1>2. /\ p.kind = "EXCHANGE" /\ ~Idle(M)
      /\ p.seller \in Users /\ p.buyer \in Users /\ p.seller # p.buyer
    BY DEF TradeAgreed, Idle
<1>3. p \in Own(Articles, M)
    BY <1>1, <1>2, LegsOfTrade
<1>4. p.item \in Item
    BY <1>2, <1>3 DEF Own, Purposes, Item
<1>5. ASSUME NEW v \in Users, NEW r \in Servers, ~(r = M /\ (v = p.seller \/ v = p.buyer))
      PROVE  Pending(w, v, r)' = Pending(w, v, r)
  <2>1. Undisturbed(v, r)
    BY <1>5 DEF TradeAgreed
  <2>2. QED
    BY <2>1, PendingKept
<1>6. ASSUME NEW v, NEW t, ~WillCommit(v, M), WillCommit(v, M)',
             current[v][M] = [exists |-> TRUE, transaction |-> t]
      PROVE  Pending(w, v, M) = 0 /\ Pending(w, v, M)' = InAll(w, t)
  <2>1. current' = current
    BY DEF TradeAgreed
  <2>2. current'[v][M].transaction = t
    BY <1>6, <2>1
  <2>3. Pending(w, v, M)' = IF WillCommit(v, M)' THEN InAll(w, current'[v][M].transaction) ELSE 0
    BY DEF Pending, InAll, At
  <2>4. QED
    BY <1>6, <2>2, <2>3 DEF Pending
<1>7. PICK x, y, t1, t2 : /\ x = p.seller /\ y = p.buyer
                          /\ t1 = LegTransaction(p, 1, p.item) /\ t2 = LegTransaction(p, 2, p.item)
    OBVIOUS
<1>8. /\ ~WillCommit(x, M) /\ WillCommit(x, M)' /\ current[x][M] = [exists |-> TRUE, transaction |-> t1]
      /\ ~WillCommit(y, M) /\ WillCommit(y, M)' /\ current[y][M] = [exists |-> TRUE, transaction |-> t2]
  <2>1. /\ current[x][M] = [exists |-> TRUE, transaction |-> t1]
        /\ current[y][M] = [exists |-> TRUE, transaction |-> t2]
        /\ WillCommit(x, M)' /\ WillCommit(y, M)'
    BY <1>7 DEF TradeAgreed
  <2>2. ~WillCommit(x, M) /\ ~WillCommit(y, M)
    BY <1>7 DEF TradeAgreed
  <2>3. QED
    BY <2>1, <2>2
<1>9. /\ Pending(w, x, M) = 0 /\ Pending(w, x, M)' = InAll(w, t1)
      /\ Pending(w, y, M) = 0 /\ Pending(w, y, M)' = InAll(w, t2)
    BY <1>6, <1>8
<1>10. x \in Users /\ y \in Users
    BY <1>2, <1>7
<1>11. ASSUME NEW v \in Users
       PROVE  /\ Due(w, v) = Pending(w, v, M) + Pending(w, v, R)
              /\ Due(w, v)' = Pending(w, v, M)' + Pending(w, v, R)'
              /\ Pending(w, v, R)' = Pending(w, v, R) /\ Pending(w, v, R) \in Int
              /\ Pending(w, v, M) \in Int
    BY <1>1, <1>5, PendingIsNumber DEF Due
<1>12. t1 \in Transactions /\ t2 \in Transactions
    BY <1>1, <1>3, <1>4, <1>7, LegMoves
<1>13. InAll(w, t1) \in Int /\ InAll(w, t2) \in Int
    BY <1>12, InAllIsNumber
<1>14. \A v \in Users \ {x, y} : Due(w, v)' = Due(w, v)
    BY <1>1, <1>5, <1>7, <1>11
<1>15. Due(w, x)' = Due(w, x) + InAll(w, t1)
    BY <1>9, <1>10, <1>11, <1>13
<1>16. Due(w, y)' = Due(w, y) + InAll(w, t2)
    BY <1>9, <1>10, <1>11, <1>13
<1>17. QED
  <2>1. Due(w, p.seller)' = Due(w, p.seller) + InAll(w, LegTransaction(p, 1, p.item))
    BY <1>7, <1>15
  <2>2. Due(w, p.buyer)' = Due(w, p.buyer) + InAll(w, LegTransaction(p, 2, p.item))
    BY <1>7, <1>16
  <2>3. QED
    BY <1>2, <1>3, <1>4, <1>7, <1>14, <2>1, <2>2
-----------------------------------------------------------------------------
\* What one user gains another loses.
Balanced(m, k) ==
    \/ \A u \in Users : k[u] = m[u]
    \/ \E x, y \in Users, n \in Int :
        /\ x # y
        /\ k[x] = m[x] + n
        /\ k[y] = m[y] - n
        /\ \A u \in Users \ {x, y} : k[u] = m[u]

LEMMA BalancedTotals ==
    ASSUME NEW m \in [Users -> Int], NEW k \in [Users -> Int], Balanced(m, k)
    PROVE  Total(k, Users) = Total(m, Users)
<1>1. IsFiniteSet(Users)
    BY UsersAssumption
<1>2. CASE \A u \in Users : k[u] = m[u]
    BY <1>1, <1>2, TotalOfSame
<1>3. CASE \E x, y \in Users, n \in Int : /\ x # y
                                          /\ k[x] = m[x] + n
                                          /\ k[y] = m[y] - n
                                          /\ \A u \in Users \ {x, y} : k[u] = m[u]
  <2>1. PICK x, y \in Users, n \in Int : /\ x # y
                                         /\ k[x] = m[x] + n
                                         /\ k[y] = m[y] - n
                                         /\ \A u \in Users \ {x, y} : k[u] = m[u]
    BY <1>3
  <2> DEFINE h == [u \in Users |-> IF u = x THEN k[x] ELSE m[u]]
  <2>2. /\ h \in [Users -> Int] /\ h[x] = k[x] /\ h[y] = m[y]
        /\ \A u \in Users \ {x} : h[u] = m[u]
        /\ \A u \in Users \ {y} : k[u] = h[u]
    BY <2>1
  <2> HIDE DEF h
  <2>3. Total(h, Users) = Total(m, Users) + (h[x] - m[x])
    <3>1. \A u \in Users : m[u] \in Int /\ h[u] \in Int
        BY <2>2
    <3>2. QED
        BY <1>1, <2>2, <3>1, TotalWhenOneChanges
  <2>4. Total(k, Users) = Total(h, Users) + (k[y] - h[y])
    <3>1. \A u \in Users : h[u] \in Int /\ k[u] \in Int
        BY <2>2
    <3>2. QED
        BY <1>1, <2>2, <3>1, TotalWhenOneChanges
  <2>5. Total(m, Users) \in Int
    BY <1>1, TotalIsInteger
  <2>6. QED
    BY <2>1, <2>2, <2>3, <2>4, <2>5
<1>4. QED
    BY <1>2, <1>3 DEF Balanced

\* What a user has in money and items, when the commits under way are counted.
Wealth   == [u \in Users |-> account[u].money + Due(Received, u)]
Has(it)  == [u \in Users |-> NumHeld(account[u], it) + entities[<<it, u>>] + Due(Gained(it), u)]

LEMMA WealthIsNumber ==
    ASSUME MarketInv
    PROVE  Wealth \in [Users -> Int]
<1>1. ASSUME NEW u \in Users
      PROVE  account[u].money \in Int /\ Due(Received, u) \in Int
    BY WeightsAreNumbers, DueIsNumber DEF MarketInv, CoordinatorInv, CoordinatorTypeOK, UserServerTypeOK, Account
<1>2. QED
    BY <1>1 DEF Wealth

LEMMA WealthBalanced ==
    ASSUME MarketInv, MarketInv', TurnInv(Articles), EntitiesCounted, [ServersNext]_allVars, Calm'
    PROVE  Balanced(Wealth, Wealth')
<1>1. /\ Received \in [Operations -> Int] /\ BlankItem # NoItem
      /\ \A u \in Users : /\ account[u] \in Account /\ account[u].money \in Int
                          /\ \A s \in Servers : current[u][s].transaction \in Transactions
  <2>1. Received \in [Operations -> Int]
    BY WeightsAreNumbers
  <2>2. \A u \in Users : account[u] \in Account /\ \A s \in Servers : current[u][s].transaction \in Transactions
    BY DEF MarketInv, CoordinatorInv, CoordinatorTypeOK, UserServerTypeOK
  <2>3. QED
    BY <2>1, <2>2, ItemAssumption DEF Account
<1>2. \A u \in Users : /\ Wealth[u] = account[u].money + Due(Received, u)
                       /\ Wealth'[u] = account'[u].money + Due(Received, u)'
    BY DEF Wealth
<1>3. \A u \in Users : Due(Received, u) \in Int
    BY <1>1, DueIsNumber
<1>4. CASE Still
  <2>1. \A u \in Users : Due(Received, u)' = Due(Received, u)
    BY <1>4, PendingKept DEF Still, NoneDisturbed, Due, Servers
  <2>2. \A u \in Users : Wealth'[u] = Wealth[u]
    BY <1>2, <1>4, <2>1 DEF Still
  <2>3. QED
    BY <2>2 DEF Balanced
<1>5. ASSUME NEW u \in Users, NEW s \in Servers, CommitMade(u, s)
      PROVE  Balanced(Wealth, Wealth')
  <2>1. PICK a, t : a = account[u] /\ t = current[u][s].transaction
    OBVIOUS
  <2>2. a \in Account /\ t \in Transactions
    BY <1>1, <2>1
  <2>3. /\ commit_transaction(t, a, s).ok
        /\ account' = [account EXCEPT ![u] = commit_transaction(t, a, s).account]
    BY <1>5, <2>1 DEF CommitMade
  <2>4. commit_transaction(t, a, s).account.money = a.money + InAll(Received, t)
    <3>1. BlankItem # NoItem /\ commit_transaction(t, a, s).ok
        BY <1>1, <2>3
    <3>2. QED
        BY <2>2, <3>1, CommitMoves
  <2>5. account'[u].money = account[u].money + InAll(Received, t) /\ \A v \in Users \ {u} : account'[v] = account[v]
    BY <2>1, <2>3, <2>4 DEF MarketInv, CoordinatorInv, CoordinatorTypeOK, UserServerTypeOK
  <2>6. /\ \A v \in Users \ {u} : Due(Received, v)' = Due(Received, v)
        /\ Due(Received, u)' = Due(Received, u) - InAll(Received, t)
    BY <1>1, <1>5, <2>1, DueAfterCommit
  <2>7. InAll(Received, t) \in Int
    BY <1>1, <2>2, InAllIsNumber
  <2>8. \A v \in Users \ {u} : Wealth'[v] = Wealth[v]
    BY <1>2, <2>5, <2>6
  <2>9. Wealth'[u] = Wealth[u]
    BY <1>1, <1>2, <1>3, <2>5, <2>6, <2>7
  <2>10. QED
    BY <2>8, <2>9 DEF Balanced
<1>6. CASE TradeAgreed(MarketServer) /\ UNCHANGED <<account, entities>>
  <2>1. PICK p : p = session[MarketServer].purpose
    OBVIOUS
  <2>2. PICK t1, t2 : t1 = LegTransaction(p, 1, p.item) /\ t2 = LegTransaction(p, 2, p.item)
    OBVIOUS
  <2>3. /\ p \in Own(Articles, MarketServer) /\ p.kind = "EXCHANGE" /\ p.item \in Item
        /\ p.seller \in Users /\ p.buyer \in Users /\ p.seller # p.buyer
        /\ \A v \in Users \ {p.seller, p.buyer} : Due(Received, v)' = Due(Received, v)
        /\ Due(Received, p.seller)' = Due(Received, p.seller) + InAll(Received, t1)
        /\ Due(Received, p.buyer)' = Due(Received, p.buyer) + InAll(Received, t2)
    BY <1>1, <1>6, <2>1, <2>2, DueAfterTrade
  <2>4. InAll(Received, t1) = p.price /\ InAll(Received, t2) = -p.price
    BY <2>2, <2>3, LegMoves DEF Moves, Servers
  <2>5. p.price \in Int
    BY <2>3, PricesAssumption DEF Own, Purposes
  <2>6. \A v \in Users \ {p.seller, p.buyer} : Wealth'[v] = Wealth[v]
    BY <1>2, <1>6, <2>3
  <2>7. Wealth'[p.seller] = Wealth[p.seller] + p.price
    BY <1>1, <1>2, <1>3, <1>6, <2>3, <2>4, <2>5
  <2>8. Wealth'[p.buyer] = Wealth[p.buyer] - p.price
    BY <1>1, <1>2, <1>3, <1>6, <2>3, <2>4, <2>5
  <2>9. QED
    BY <2>3, <2>5, <2>6, <2>7, <2>8 DEF Balanced
<1>7. ASSUME NEW u \in Users, NEW s \in Servers, NEW t \in Transactions, NEW commit \in BOOLEAN,
             Ended(u, s, t, commit)
      PROVE  Balanced(Wealth, Wealth')
  <2>1. /\ \A v \in Users \ {u} : Due(Received, v)' = Due(Received, v)
        /\ Due(Received, u)' = Due(Received, u) + IF commit THEN InAll(Received, t) ELSE 0
    BY <1>1, <1>7, DueAfterDecision
  <2>2. InAll(Received, t) = 0 /\ UNCHANGED account
    BY <1>7 DEF Ended
  <2>3. \A v \in Users : Wealth'[v] = Wealth[v]
    BY <1>2, <1>3, <2>1, <2>2
  <2>4. QED
    BY <2>3 DEF Balanced
<1>8. QED
    BY <1>4, <1>5, <1>6, <1>7, ServersStepIs
LEMMA HasUnfolds ==
    ASSUME NEW it \in Items, NEW u \in Users
    PROVE  /\ Has(it)[u] = NumHeld(account[u], it) + entities[<<it, u>>] + Due(Gained(it), u)
           /\ Has(it)'[u] = NumHeld(account'[u], it) + entities'[<<it, u>>] + Due(Gained(it), u)'
BY DEF Has, NumHeld, SlotsHolding

LEMMA HasIsNumber ==
    ASSUME MarketInv, EntitiesCounted, NEW it \in Items
    PROVE  /\ Has(it) \in [Users -> Int]
           /\ \A u \in Users : /\ NumHeld(account[u], it) \in Int /\ entities[<<it, u>>] \in Int
                               /\ Due(Gained(it), u) \in Int
<1>1. ASSUME NEW u \in Users
      PROVE  NumHeld(account[u], it) \in Int /\ entities[<<it, u>>] \in Int /\ Due(Gained(it), u) \in Int
  <2>1. NumHeld(account[u], it) \in Int
    BY NumHeldIsNumber
  <2>2. entities[<<it, u>>] \in Int
    BY DEF EntitiesCounted, Item
  <2>3. Gained(it) \in [Operations -> Int]
    BY WeightsAreNumbers
  <2>4. Due(Gained(it), u) \in Int
    BY <2>3, DueIsNumber
  <2>5. QED
    BY <2>1, <2>2, <2>4
<1>2. QED
    BY <1>1 DEF Has

LEMMA HasBalanced ==
    ASSUME MarketInv, MarketInv', TurnInv(Articles), EntitiesCounted, [ServersNext]_allVars, Calm',
           NEW it \in Items
    PROVE  Balanced(Has(it), Has(it)')
<1>0. PICK w, h, k : w = Gained(it) /\ h = Has(it) /\ k = Has(it)'
    OBVIOUS
<1>1. w \in [Operations -> Int] /\ it # NoItem
    BY <1>0, WeightsAreNumbers, ItemAssumption
<1>2. \A u \in Users : account[u] \in Account /\ \A s \in Servers : current[u][s].transaction \in Transactions
    BY DEF MarketInv, CoordinatorInv, CoordinatorTypeOK, UserServerTypeOK
<1>a. PICK n, m, e, f, d, c :
        /\ n = [u \in Users |-> NumHeld(account[u], it)] /\ m = [u \in Users |-> NumHeld(account'[u], it)]
        /\ e = [u \in Users |-> entities[<<it, u>>]]     /\ f = [u \in Users |-> entities'[<<it, u>>]]
        /\ d = [u \in Users |-> Due(w, u)]               /\ c = [u \in Users |-> Due(w, u)']
    OBVIOUS
<1>3. \A u \in Users : /\ n[u] = NumHeld(account[u], it) /\ m[u] = NumHeld(account'[u], it)
                       /\ e[u] = entities[<<it, u>>]     /\ f[u] = entities'[<<it, u>>]
                       /\ d[u] = Due(w, u)               /\ c[u] = Due(w, u)'
    BY <1>a
<1>4. \A u \in Users : /\ h[u] = n[u] + e[u] + d[u] /\ k[u] = m[u] + f[u] + c[u]
                       /\ n[u] \in Int /\ e[u] \in Int /\ d[u] \in Int
  <2> SUFFICES ASSUME NEW u \in Users
               PROVE  /\ h[u] = n[u] + e[u] + d[u] /\ k[u] = m[u] + f[u] + c[u]
                      /\ n[u] \in Int /\ e[u] \in Int /\ d[u] \in Int
    OBVIOUS
  <2>1. h[u] = n[u] + e[u] + d[u] /\ k[u] = m[u] + f[u] + c[u]
    BY <1>0, <1>3, HasUnfolds
  <2>2. n[u] \in Int /\ e[u] \in Int /\ d[u] \in Int
    BY <1>0, <1>3, HasIsNumber
  <2>3. QED
    BY <2>1, <2>2
<1>5. CASE Still
  <2>1. \A u \in Users : c[u] = d[u]
    <3>1. \A u \in Users : Due(w, u)' = Due(w, u)
        BY <1>5, PendingKept DEF Still, NoneDisturbed, Due, Servers
    <3>2. QED
        BY <1>3, <3>1
  <2>2. \A u \in Users : m[u] = n[u] /\ f[u] = e[u]
    BY <1>3, <1>5 DEF Still
  <2>3. \A u \in Users : k[u] = h[u]
    BY <1>4, <2>1, <2>2
  <2>4. QED
    BY <1>0, <2>3 DEF Balanced
<1>6. ASSUME NEW u \in Users, NEW s \in Servers, CommitMade(u, s)
      PROVE  Balanced(h, k)
  <2>1. PICK a, t : a = account[u] /\ t = current[u][s].transaction
    OBVIOUS
  <2>2. a \in Account /\ t \in Transactions
    BY <1>2, <2>1
  <2>3. /\ commit_transaction(t, a, s).ok
        /\ account' = [account EXCEPT ![u] = commit_transaction(t, a, s).account]
        /\ UNCHANGED entities
    BY <1>6, <2>1 DEF CommitMade
  <2>4. NumHeld(commit_transaction(t, a, s).account, it) = NumHeld(a, it) + InAll(w, t)
    BY <1>0, <1>1, <2>2, <2>3, CommitMoves
  <2>5. account'[u] = commit_transaction(t, a, s).account /\ \A v \in Users \ {u} : account'[v] = account[v]
    BY <2>3 DEF MarketInv, CoordinatorInv, CoordinatorTypeOK, UserServerTypeOK
  <2>6. /\ \A v \in Users \ {u} : Due(w, v)' = Due(w, v)
        /\ Due(w, u)' = Due(w, u) - InAll(w, t)
    BY <1>1, <1>6, <2>1, DueAfterCommit
  <2>7. InAll(w, t) \in Int
    BY <1>1, <2>2, InAllIsNumber
  <2>8. /\ \A v \in Users \ {u} : m[v] = n[v] /\ f[v] = e[v] /\ c[v] = d[v]
        /\ m[u] = n[u] + InAll(w, t) /\ f[u] = e[u] /\ c[u] = d[u] - InAll(w, t)
    <3>1. m[u] = n[u] + InAll(w, t)
        BY <1>3, <2>1, <2>4, <2>5
    <3>2. \A v \in Users \ {u} : m[v] = n[v]
        BY <1>3, <2>5
    <3>3. \A v \in Users : f[v] = e[v]
        BY <1>3, <2>3
    <3>4. (\A v \in Users \ {u} : c[v] = d[v]) /\ c[u] = d[u] - InAll(w, t)
        BY <1>3, <2>6
    <3>5. QED
        BY <3>1, <3>2, <3>3, <3>4
  <2>9. \A v \in Users : k[v] = h[v]
    BY <1>4, <2>7, <2>8
  <2>10. QED
    BY <2>9 DEF Balanced
<1>7. CASE TradeAgreed(MarketServer) /\ UNCHANGED <<account, entities>>
  <2>1. PICK p : p = session[MarketServer].purpose
    OBVIOUS
  <2>2. PICK t1, t2 : t1 = LegTransaction(p, 1, p.item) /\ t2 = LegTransaction(p, 2, p.item)
    OBVIOUS
  <2>3. /\ p \in Own(Articles, MarketServer) /\ p.kind = "EXCHANGE" /\ p.item \in Item
        /\ p.seller \in Users /\ p.buyer \in Users /\ p.seller # p.buyer
        /\ \A v \in Users \ {p.seller, p.buyer} : Due(w, v)' = Due(w, v)
        /\ Due(w, p.seller)' = Due(w, p.seller) + InAll(w, t1)
        /\ Due(w, p.buyer)' = Due(w, p.buyer) + InAll(w, t2)
    BY <1>1, <1>7, <2>1, <2>2, DueAfterTrade
  <2>4. PICK x \in Int : InAll(w, t1) = x /\ InAll(w, t2) = -x
    <3>1. Moves(t1, p.price, p.item, -1) /\ Moves(t2, -p.price, p.item, 1)
        BY <2>2, <2>3, LegMoves DEF Servers
    <3>2. InAll(w, t1) = (IF it = p.item THEN -1 ELSE 0) /\ InAll(w, t2) = (IF it = p.item THEN 1 ELSE 0)
        BY <1>0, <3>1 DEF Moves
    <3>3. CASE it = p.item
        BY <3>2, <3>3
    <3>4. CASE it # p.item
        BY <3>2, <3>4
    <3>5. QED
        BY <3>3, <3>4
  <2>5. \A u \in Users : m[u] = n[u] /\ f[u] = e[u]
    BY <1>3, <1>7
  <2>6. /\ \A v \in Users \ {p.seller, p.buyer} : c[v] = d[v]
        /\ c[p.seller] = d[p.seller] + x /\ c[p.buyer] = d[p.buyer] - x
    <3>1. \A v \in Users \ {p.seller, p.buyer} : c[v] = d[v]
      <4> SUFFICES ASSUME NEW v \in Users, v # p.seller, v # p.buyer
                   PROVE  c[v] = d[v]
        OBVIOUS
      <4>1. c[v] = Due(w, v)' /\ d[v] = Due(w, v)
        BY <1>3
      <4>2. Due(w, v)' = Due(w, v)
        BY <2>3
      <4>3. QED
        BY <4>1, <4>2
    <3>2. c[p.seller] = d[p.seller] + x
        BY <1>3, <2>3, <2>4
    <3>3. d[p.buyer] \in Int
        BY <1>4, <2>3
    <3>4. c[p.buyer] = d[p.buyer] + (-x)
        BY <1>3, <2>3, <2>4
    <3>5. QED
        BY <3>1, <3>2, <3>3, <3>4
  <2>7. /\ \A v \in Users \ {p.seller, p.buyer} : k[v] = h[v]
        /\ k[p.seller] = h[p.seller] + x
        /\ k[p.buyer] = h[p.buyer] - x
    BY <1>4, <2>3, <2>5, <2>6
  <2>8. QED
    BY <1>0, <2>3, <2>7 DEF Balanced
<1>8. ASSUME NEW u \in Users, NEW s \in Servers, NEW t \in Transactions, NEW commit \in BOOLEAN,
             Ended(u, s, t, commit)
      PROVE  Balanced(h, k)
  <2>1. /\ \A v \in Users \ {u} : Due(w, v)' = Due(w, v)
        /\ Due(w, u)' = Due(w, u) + IF commit THEN InAll(w, t) ELSE 0
    BY <1>1, <1>8, DueAfterDecision
  <2>2. /\ UNCHANGED account
        /\ \A v \in Users : entities'[<<it, v>>] =
                entities[<<it, v>>] - IF commit /\ v = u THEN InAll(w, t) ELSE 0
    BY <1>0, <1>8 DEF Ended
  <2>3. InAll(w, t) \in Int
    BY <1>1, InAllIsNumber
  <2>4. /\ \A v \in Users : m[v] = n[v] /\ f[v] = e[v] - IF commit /\ v = u THEN InAll(w, t) ELSE 0
        /\ \A v \in Users \ {u} : c[v] = d[v]
        /\ c[u] = d[u] + IF commit THEN InAll(w, t) ELSE 0
    <3>1. \A v \in Users : m[v] = n[v]
        BY <1>3, <2>2
    <3>2. \A v \in Users : f[v] = e[v] - IF commit /\ v = u THEN InAll(w, t) ELSE 0
        BY <1>3, <2>2
    <3>3. (\A v \in Users \ {u} : c[v] = d[v]) /\ c[u] = d[u] + IF commit THEN InAll(w, t) ELSE 0
        BY <1>3, <2>1
    <3>4. QED
        BY <3>1, <3>2, <3>3
  <2>5. \A v \in Users : k[v] = h[v]
    BY <1>4, <2>3, <2>4
  <2>6. QED
    BY <2>5 DEF Balanced
<1>9. QED
    BY <1>0, <1>5, <1>6, <1>7, <1>8, ServersStepIs
-----------------------------------------------------------------------------
\* The sums of the properties, as totals.
LEMMA CoinsAreTotal ==
    ASSUME NEW accounts
    PROVE  Coins(accounts) = Total([u \in Users |-> accounts[u].money], Users)
<1> DEFINE m == [u \in Users |-> accounts[u].money]
           P(g) == g = [s \in SUBSET Users |-> IF s = {} THEN 0 ELSE accounts[Pick(s)].money + g[s \ {Pick(s)}]]
<1>1. Coins(accounts) = (CHOOSE g : P(g))[Users]
    BY DEF Coins, MapThenSumSet, MapThenFoldSet, Pick
<1>2. ASSUME NEW g
      PROVE  P(g) <=> SumsOf(m, g, Users)
  <2>1. \A s \in SUBSET Users : s # {} => m[Pick(s)] = accounts[Pick(s)].money
    BY PickIsMember
  <2>2. [s \in SUBSET Users |-> IF s = {} THEN 0 ELSE accounts[Pick(s)].money + g[s \ {Pick(s)}]]
        = [s \in SUBSET Users |-> IF s = {} THEN 0 ELSE m[Pick(s)] + g[s \ {Pick(s)}]]
    BY <2>1
  <2> HIDE DEF m
  <2>3. QED
    BY <2>2 DEF SumsOf
<1> HIDE DEF P, m
<1>3. (CHOOSE g : P(g)) = (CHOOSE g : SumsOf(m, g, Users))
    BY <1>2
<1>4. QED
    BY <1>1, <1>3 DEF Total, m

LEMMA EntitiesAreTotal ==
    ASSUME NEW it, NEW e
    PROVE  MapThenSumSet(LAMBDA u : e[<<it, u>>], Users) = Total([u \in Users |-> e[<<it, u>>]], Users)
<1> DEFINE m == [u \in Users |-> e[<<it, u>>]]
           P(g) == g = [s \in SUBSET Users |-> IF s = {} THEN 0 ELSE e[<<it, Pick(s)>>] + g[s \ {Pick(s)}]]
<1>1. MapThenSumSet(LAMBDA u : e[<<it, u>>], Users) = (CHOOSE g : P(g))[Users]
    BY DEF MapThenSumSet, MapThenFoldSet, Pick
<1>2. ASSUME NEW g
      PROVE  P(g) <=> SumsOf(m, g, Users)
  <2>1. \A s \in SUBSET Users : s # {} => m[Pick(s)] = e[<<it, Pick(s)>>]
    BY PickIsMember
  <2>2. [s \in SUBSET Users |-> IF s = {} THEN 0 ELSE e[<<it, Pick(s)>>] + g[s \ {Pick(s)}]]
        = [s \in SUBSET Users |-> IF s = {} THEN 0 ELSE m[Pick(s)] + g[s \ {Pick(s)}]]
    BY <2>1
  <2> HIDE DEF m
  <2>3. QED
    BY <2>2 DEF SumsOf
<1> HIDE DEF P, m
<1>3. (CHOOSE g : P(g)) = (CHOOSE g : SumsOf(m, g, Users))
    BY <1>2
<1>4. QED
    BY <1>1, <1>3 DEF Total, m

\* When no commit is under way, the slots that hold an item are those of the accounts.
LEMMA SlotsAreTotal ==
    ASSUME NEW it, NEW a
    PROVE  Cardinality({p \in Users \X Slots : a[p[1]].inventory[p[2]].item = it})
           = Total([u \in Users |-> NumHeld(a[u], it)], Users)
<1> DEFINE F == [u \in Users |-> SlotsHolding(a[u], it)]
           m == [u \in Users |-> NumHeld(a[u], it)]
<1>1. IsFiniteSet(Users) /\ IsFiniteSet(Slots)
    BY UsersAssumption, NumSlotsAssumption, FS_Interval DEF Slots
<1>2. F \in [Users -> SUBSET Slots] /\ \A u \in Users : m[u] = Cardinality(F[u])
    BY DEF SlotsHolding, NumHeld
<1>3. {p \in Users \X Slots : a[p[1]].inventory[p[2]].item = it} = {p \in Users \X Slots : p[2] \in F[p[1]]}
    BY DEF SlotsHolding
<1> HIDE DEF F, m
<1>4. Cardinality({p \in Users \X Slots : p[2] \in F[p[1]]}) = Total(m, Users)
    BY <1>1, <1>2, CardinalityIsTotal
<1>5. QED
    BY <1>3, <1>4 DEF m

LEMMA QuietMeansNothingDue ==
    ASSUME Quiet, NEW w, NEW u \in Users
    PROVE  Due(w, u) = 0
BY DEF Quiet, Due, Pending, Servers

LEMMA QuietWealth ==
    ASSUME MarketInv, Quiet
    PROVE  Total(Wealth, Users) = Coins(account)
<1>1. PICK a : a = account
    OBVIOUS
<1>2. \A u \in Users : a[u].money \in Int /\ Due(Received, u) = 0
    BY <1>1, QuietMeansNothingDue DEF MarketInv, CoordinatorInv, CoordinatorTypeOK, UserServerTypeOK, Account
<1>3. Wealth = [u \in Users |-> a[u].money]
    BY <1>1, <1>2 DEF Wealth
<1>4. QED
    BY <1>1, <1>3, CoinsAreTotal

LEMMA QuietHas ==
    ASSUME MarketInv, EntitiesCounted, Quiet, NEW it \in Items
    PROVE  Total(Has(it), Users) =
                Cardinality({p \in Users \X Slots : account[p[1]].inventory[p[2]].item = it})
                + MapThenSumSet(LAMBDA u : entities[<<it, u>>], Users)
<1>1. PICK a, e, h : a = account /\ e = entities /\ h = Has(it)
    OBVIOUS
<1>2. PICK m, k : m = [u \in Users |-> NumHeld(a[u], it)] /\ k = [u \in Users |-> e[<<it, u>>]]
    OBVIOUS
<1>3. ASSUME NEW u \in Users
      PROVE  m[u] \in Int /\ k[u] \in Int /\ h[u] = m[u] + k[u]
  <2>1. m[u] = NumHeld(account[u], it) /\ k[u] = entities[<<it, u>>]
    BY <1>1, <1>2
  <2>2. m[u] \in Int /\ k[u] \in Int
    BY <2>1, HasIsNumber
  <2>3. Due(Gained(it), u) = 0
    BY QuietMeansNothingDue
  <2>4. h[u] = m[u] + k[u] + 0
    BY <1>1, <2>1, <2>3, HasUnfolds
  <2>5. QED
    BY <2>2, <2>4
<1>4. Total(h, Users) = Total(m, Users) + Total(k, Users)
    BY <1>3, UsersAssumption, TotalOfSums
<1>5. Total(m, Users) = Cardinality({p \in Users \X Slots : a[p[1]].inventory[p[2]].item = it})
    BY <1>2, SlotsAreTotal
<1>6. Total(k, Users) = MapThenSumSet(LAMBDA u : e[<<it, u>>], Users)
    BY <1>2, EntitiesAreTotal
<1>7. QED
    BY <1>1, <1>4, <1>5, <1>6
-----------------------------------------------------------------------------
\* The inductive invariants: what there was at first is still there.
MoneyKept == Calm => \E initially \in InitialAccounts : Total(Wealth, Users) = Coins(initially)
ItemsKept == Calm => \A it \in Items : Total(Has(it), Users) = 1

LEMMA NothingDueAtFirst ==
    ASSUME ServersInit
    PROVE  MarketInv /\ TurnInv(Articles) /\ EntitiesCounted /\ Quiet /\ account \in InitialAccounts
<1>1. MarketInv /\ TurnInv(Articles)
    BY InitialMarket, InitialTurns DEF ServersInit, Init
<1>2. EntitiesCounted
  <2>1. entities \in [Item \X Users -> Nat]
    BY InitialEntitiesAssumption DEF ServersInit, RoomInit
  <2>2. \A x \in Nat : x \in Int
    OBVIOUS
  <2>3. QED
    BY <2>1, <2>2 DEF EntitiesCounted
<1>3. \A u \in Users, s \in Servers : ~current[u][s].exists
    BY DEF ServersInit, Init, CoordinatorInit, UserServerInit, NoCurrent
<1>4. Quiet
    BY <1>3 DEF Quiet, WillCommit
<1>5. account \in InitialAccounts
    BY DEF ServersInit, Init, CoordinatorInit, UserServerInit
<1>6. QED
    BY <1>1, <1>2, <1>4, <1>5

LEMMA MoneyStaysKept ==
    ASSUME MarketInv, TurnInv(Articles), EntitiesCounted, MoneyKept, [ServersNext]_allVars
    PROVE  MoneyKept'
<1> SUFFICES ASSUME Calm'
             PROVE  \E initially \in InitialAccounts : Total(Wealth, Users)' = Coins(initially)
    BY DEF MoneyKept
<1>1. Calm /\ MarketInv'
    BY CalmBefore, ServersKeepBooks
<1>2. PICK initially \in InitialAccounts : Total(Wealth, Users) = Coins(initially)
    BY <1>1 DEF MoneyKept
<1>3. Wealth \in [Users -> Int] /\ Balanced(Wealth, Wealth')
    BY <1>1, WealthIsNumber, WealthBalanced
<1>4. Wealth' \in [Users -> Int]
  <2>1. ASSUME NEW u \in Users
        PROVE  account'[u].money \in Int /\ Due(Received, u)' \in Int
    <3>1. account'[u] \in Account /\ \A s \in Servers : current'[u][s].transaction \in Transactions
        BY <1>1 DEF MarketInv, CoordinatorInv, CoordinatorTypeOK, UserServerTypeOK
    <3>2. Received \in [Operations -> Int]
        BY WeightsAreNumbers
    <3>3. \A s \in Servers : InAll(Received, current'[u][s].transaction) \in Int
        BY <3>1, <3>2, InAllIsNumber
    <3>4. \A s \in Servers : Pending(Received, u, s)' \in Int
        BY <3>3 DEF Pending, InAll, At, Received
    <3>5. Due(Received, u)' = Pending(Received, u, MarketServer)' + Pending(Received, u, RoomServer)'
        BY DEF Due
    <3>6. QED
        BY <3>1, <3>4, <3>5 DEF Account, Servers
  <2>2. QED
    BY <2>1 DEF Wealth
<1>5. PICK m, k : m = Wealth /\ k = Wealth'
    OBVIOUS
<1>6. Total(k, Users) = Total(m, Users)
    BY <1>3, <1>4, <1>5, BalancedTotals
<1>7. Total(Wealth, Users)' = Total(k, Users)
    BY <1>5
<1>8. QED
    BY <1>2, <1>5, <1>6, <1>7

LEMMA ItemsStayKept ==
    ASSUME MarketInv, TurnInv(Articles), EntitiesCounted, ItemsKept, [ServersNext]_allVars
    PROVE  ItemsKept'
<1> SUFFICES ASSUME Calm', NEW it \in Items
             PROVE  Total(Has(it), Users)' = 1
    BY DEF ItemsKept
<1>1. Calm /\ MarketInv' /\ EntitiesCounted'
    BY CalmBefore, ServersKeepBooks, EntitiesStayCounted
<1>2. Total(Has(it), Users) = 1
    BY <1>1 DEF ItemsKept
<1>3. Has(it) \in [Users -> Int] /\ Balanced(Has(it), Has(it)')
    BY <1>1, HasIsNumber, HasBalanced
<1>4. Has(it)' \in [Users -> Int]
  <2>1. ASSUME NEW u \in Users
        PROVE  Has(it)'[u] \in Int
    <3>1. \A s \in Servers : current'[u][s].transaction \in Transactions
        BY <1>1 DEF MarketInv, CoordinatorInv, CoordinatorTypeOK, UserServerTypeOK
    <3>2. PICK w : w = Gained(it)
        OBVIOUS
    <3>3. w \in [Operations -> Int]
        BY <3>2, WeightsAreNumbers
    <3>4. \A s \in Servers : InAll(w, current'[u][s].transaction) \in Int
        BY <3>1, <3>3, InAllIsNumber
    <3>5. \A s \in Servers : Pending(w, u, s)' \in Int
        BY <3>4 DEF Pending, InAll, At
    <3>6. Due(w, u)' = Pending(w, u, MarketServer)' + Pending(w, u, RoomServer)'
        BY DEF Due
    <3>7. Due(w, u)' \in Int
        BY <3>5, <3>6 DEF Servers
    <3>8. NumHeld(account'[u], it) \in Int /\ entities'[<<it, u>>] \in Int
      <4>1. NumHeld(account'[u], it) \in Int
        BY NumHeldIsNumber
      <4>2. entities'[<<it, u>>] \in Int
        BY <1>1 DEF EntitiesCounted, Item
      <4>3. QED
        BY <4>1, <4>2
    <3>9. Due(Gained(it), u)' \in Int
        BY <3>2, <3>7
    <3>10. QED
        BY <3>8, <3>9, HasUnfolds
  <2>2. DOMAIN Has(it)' = Users /\ Has(it)' = [u \in Users |-> Has(it)'[u]]
    BY DEF Has
  <2>3. PICK k : k = Has(it)'
    OBVIOUS
  <2>4. k = [u \in Users |-> k[u]] /\ \A u \in Users : k[u] \in Int
    BY <2>1, <2>2, <2>3
  <2>5. k \in [Users -> Int]
    BY <2>4
  <2>6. QED
    BY <2>3, <2>5
<1>5. PICK m, k : m = Has(it) /\ k = Has(it)'
    OBVIOUS
<1>6. Total(k, Users) = Total(m, Users)
    BY <1>3, <1>4, <1>5, BalancedTotals
<1>7. Total(Has(it), Users)' = Total(k, Users)
    BY <1>5
<1>8. QED
    BY <1>2, <1>5, <1>6, <1>7

\* What is always true of the three servers.
ServersInv == MarketInv /\ TurnInv(Articles) /\ EntitiesCounted

LEMMA ServersStayInv ==
    ASSUME ServersInv, [ServersNext]_allVars
    PROVE  ServersInv'
<1>1. MarketInv' /\ EntitiesCounted'
    BY ServersKeepBooks, EntitiesStayCounted DEF ServersInv
<1>2. TurnInv(Articles)'
    BY MarketTurnKeepsTurns, RoomTurnKeepsTurns, OthersKeepTurns DEF ServersNext, allVars, ServersInv
<1>3. QED
    BY <1>1, <1>2 DEF ServersInv

\* As long as no connection is lost and no answer is late, whatever the players do and however
\* the two servers' transactions fall together, the coins all users have are, whenever no
\* commit is under way, as many as at first: no trade makes or loses one
\* (market_server.cpp:461-562, user_server.cpp:286-522).
THEOREM MoneyAlwaysConserved == ServersSpec => [](AllWell => MoneyConserved)
<1>1. ServersInit => ServersInv /\ MoneyKept
  <2> SUFFICES ASSUME ServersInit
               PROVE  ServersInv /\ MoneyKept
    OBVIOUS
  <2>1. MarketInv /\ TurnInv(Articles) /\ EntitiesCounted /\ Quiet /\ account \in InitialAccounts
    BY NothingDueAtFirst
  <2>2. Total(Wealth, Users) = Coins(account)
    BY <2>1, QuietWealth
  <2>3. QED
    BY <2>1, <2>2 DEF ServersInv, MoneyKept
<1>2. ServersInv /\ MoneyKept /\ [ServersNext]_allVars => ServersInv' /\ MoneyKept'
    BY ServersStayInv, MoneyStaysKept DEF ServersInv
<1>3. ServersInv /\ MoneyKept => (AllWell => MoneyConserved)
    BY QuietWealth DEF ServersInv, MoneyKept, MoneyConserved, Calm
<1>4. QED
    BY <1>1, <1>2, <1>3, PTL DEF ServersSpec

\* If every item is in one place at first, then as long as no connection is lost and no answer
\* is late every item is, whenever no commit is under way, in exactly one slot of one inventory
\* or one entity of the room, even when both servers work on the same user
\* (market_server.cpp:461-562, room_server.cpp:1927-1987 and 999-1040).
THEOREM ItemsAlwaysConserved == ServersSpec /\ EachItemInOnePlace => [](AllWell => ItemsConserved)
<1>1. ServersInit /\ EachItemInOnePlace => ServersInv /\ ItemsKept
  <2> SUFFICES ASSUME ServersInit, EachItemInOnePlace
               PROVE  ServersInv /\ ItemsKept
    OBVIOUS
  <2>1. MarketInv /\ TurnInv(Articles) /\ EntitiesCounted /\ Quiet
    BY NothingDueAtFirst
  <2>2. \A it \in Items : Total(Has(it), Users) = 1
    BY <2>1, QuietHas DEF EachItemInOnePlace
  <2>3. QED
    BY <2>1, <2>2 DEF ServersInv, ItemsKept
<1>2. ServersInv /\ ItemsKept /\ [ServersNext]_allVars => ServersInv' /\ ItemsKept'
    BY ServersStayInv, ItemsStayKept DEF ServersInv
<1>3. ServersInv /\ ItemsKept => (AllWell => ItemsConserved)
  <2> SUFFICES ASSUME ServersInv, ItemsKept, AllWell, Quiet, ~aborted
               PROVE  EachItemInOnePlace
    BY DEF ItemsConserved
  <2>1. \A it \in Items : Total(Has(it), Users) = 1
    BY DEF ItemsKept, Calm
  <2>2. QED
    BY <2>1, QuietHas DEF EachItemInOnePlace, ServersInv
<1>4. QED
    BY <1>1, <1>2, <1>3, PTL DEF ServersSpec
=============================================================================
