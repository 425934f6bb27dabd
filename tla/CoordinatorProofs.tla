-------------------------- MODULE CoordinatorProofs --------------------------
(***************************************************************************)
(* What the user server's handlers and the coordinators do to the books,   *)
(* whenever a connection is lost; that the transactions the coordinators   *)
(* send are transactions the user server can handle; and that as long as   *)
(* nothing fails the two sides take turns.  "articles" is any set of item  *)
(* types.                                                                  *)
(***************************************************************************)
EXTENDS Coordinator, UserAccountProofs, SequenceTheorems

\* The books of every account agree.
BooksAgree == \A u \in Users : WellFormed(account[u])

-----------------------------------------------------------------------------
\* One entry of what is kept for each user and server is replaced.
LEMMA EntryReplaced ==
    ASSUME NEW R, NEW f \in [Users -> [Servers -> R]], NEW u \in Users, NEW s \in Servers, NEW x \in R
    PROVE  [f EXCEPT ![u][s] = x] \in [Users -> [Servers -> R]]
OBVIOUS

LEMMA HeadAndTail ==
    ASSUME NEW R, NEW q \in Seq(R), q # <<>>
    PROVE  Head(q) \in R /\ Tail(q) \in Seq(R)
BY HeadTailProperties

LEMMA PreparedIsTransaction ==
    ASSUME NEW m \in ToUsMessages, m.message = "PREPARE"
    PROVE  m.transaction \in Transactions /\ m.transaction # <<>>
BY DEF ToUsMessages

LEMMA ReadKeepsTypes ==
    ASSUME UserServerTypeOK, NEW u \in Users, NEW s \in Servers, to_us[u][s] # <<>>
    PROVE  /\ Head(to_us[u][s]) \in ToUsMessages
           /\ ReadPacket(u, s) => to_us' \in [Users -> [Servers -> Seq(ToUsMessages)]]
<1>1. to_us \in [Users -> [Servers -> Seq(ToUsMessages)]]
    BY DEF UserServerTypeOK
<1>2. to_us[u][s] \in Seq(ToUsMessages)
    BY <1>1
<1>3. Head(to_us[u][s]) \in ToUsMessages /\ Tail(to_us[u][s]) \in Seq(ToUsMessages)
    BY <1>2, HeadAndTail
<1>4. ASSUME ReadPacket(u, s)
      PROVE  to_us' \in [Users -> [Servers -> Seq(ToUsMessages)]]
  <2> DEFINE rest == Tail(to_us[u][s])
             Packets == Seq(ToUsMessages)
  <2>1. to_us' = [to_us EXCEPT ![u][s] = rest]
    BY <1>4 DEF ReadPacket
  <2>2. rest \in Packets /\ to_us \in [Users -> [Servers -> Packets]]
    BY <1>1, <1>3
  <2> HIDE DEF rest, Packets
  <2>3. to_us' \in [Users -> [Servers -> Packets]]
    BY <2>1, <2>2, EntryReplaced
  <2>4. QED
    BY <2>3 DEF Packets
<1>5. QED
    BY <1>3, <1>4

\* A vote on a transaction is one the coordinators can read: the slot it reports exists.
LEMMA VotesAreMessages ==
    ASSUME NEW t \in Transactions, t # <<>>, NEW a \in Account, NEW s \in Servers,
           transaction_possible(t, a, s)
    PROVE  VoteCommit(t, a) \in FromUsMessages
<1>1. /\ t \in Seq(Operations)
      /\ Len(t) \in 1..MAX_US_TRANSACTION_OPERATIONS
  <2>1. t \in Seq(Operations) /\ Len(t) <= 4
    BY DEF Transactions, MAX_US_TRANSACTION_OPERATIONS
  <2>2. Len(t) \in Nat \ {0}
    <3>1. \A q \in Seq(Operations) : q # <<>> => Len(q) \in Nat \ {0}
        BY EmptySeq, Zenon
    <3>2. QED
        BY <2>1, <3>1, Zenon
  <2> DEFINE n == Len(t)
  <2>3. n \in Nat \ {0} /\ n <= 4
    BY <2>1, <2>2
  <2> HIDE DEF n
  <2>4. n \in 1..MAX_US_TRANSACTION_OPERATIONS
    BY <2>3 DEF MAX_US_TRANSACTION_OPERATIONS
  <2>5. QED
    BY <2>1, <2>4 DEF n
<1>2. 1 \in DOMAIN t /\ t[1] \in Operations
    BY <1>1 DEF MAX_US_TRANSACTION_OPERATIONS
<1>3. (IF t[1].type \in {"ITEM_TO_SERVER", "ITEM_RESERVE"} THEN t[1].item ELSE BlankItem) \in Item
    BY <1>2 DEF Operations, Item
<1>4. (IF t[1].type = "SLOT_RESERVE" THEN Min(EmptySlots(a)) ELSE 1) \in Slots
  <2>1. CASE t[1].type = "SLOT_RESERVE"
    <3>1. OperationPossible(t[1], a, s)
        BY <1>2 DEF transaction_possible
    <3>2. EmptySlots(a) # {}
        BY <2>1, <3>1 DEF OperationPossible
    <3>3. QED
        BY <2>1, <3>2, LookupsAreSlots
  <2>2. CASE t[1].type # "SLOT_RESERVE"
    BY <2>2, NumSlotsAssumption DEF Slots
  <2>3. QED
    BY <2>1, <2>2
<1>5. QED
    BY <1>1, <1>3, <1>4 DEF VoteCommit, FromUsMessages

-----------------------------------------------------------------------------
LEMMA PrepareKeepsBooks ==
    ASSUME UserServerTypeOK, BooksAgree, NEW u \in Users, NEW s \in Servers, HandlePrepare(u, s)
    PROVE  UserServerTypeOK' /\ BooksAgree'
<1> DEFINE m == Head(to_us[u][s])
           t == m.transaction
           vote == IF transaction_possible(t, account[u], s) THEN VoteCommit(t, account[u]) ELSE VoteAbort
<1>1. /\ to_us[u][s] # <<>> /\ m.message = "PREPARE" /\ ReadPacket(u, s)
      /\ UNCHANGED <<account, did_change, link>>
    BY DEF HandlePrepare, Arrived, accountVars
<1>2. m \in ToUsMessages /\ to_us' \in [Users -> [Servers -> Seq(ToUsMessages)]]
    BY <1>1, ReadKeepsTypes
<1>3. t \in Transactions /\ t # <<>>
    BY <1>1, <1>2, PreparedIsTransaction
<1>4. vote \in FromUsMessages
  <2>1. account[u] \in Account
    BY DEF UserServerTypeOK
  <2>2. VoteAbort \in FromUsMessages
    BY DEF VoteAbort, FromUsMessages
  <2>3. QED
    BY <1>3, <2>1, <2>2, VotesAreMessages
<1>5. CASE aborted' = TRUE /\ UNCHANGED <<current, from_us>>
    BY <1>1, <1>2, <1>5 DEF UserServerTypeOK, BooksAgree
<1>6. CASE /\ current' = [current EXCEPT ![u][s] = [exists |-> TRUE, transaction |-> t]]
           /\ from_us' = [from_us EXCEPT ![u][s] = Append(@, vote)]
           /\ UNCHANGED aborted
  <2> DEFINE prepared == [exists |-> TRUE, transaction |-> t]
             Prepared == [exists : BOOLEAN, transaction : Transactions]
  <2>1. prepared \in Prepared
    BY <1>3
  <2>2. current \in [Users -> [Servers -> Prepared]]
    BY DEF UserServerTypeOK
  <2>3. current' \in [Users -> [Servers -> Prepared]]
    <3> HIDE DEF prepared, Prepared
    <3>1. current' = [current EXCEPT ![u][s] = prepared]
        BY <1>6 DEF prepared
    <3>2. QED
        BY <2>1, <2>2, <3>1, EntryReplaced
  <2>4. from_us[u][s] \in Seq(FromUsMessages)
    BY DEF UserServerTypeOK
  <2>5. from_us' \in [Users -> [Servers -> Seq(FromUsMessages)]]
    <3> HIDE DEF vote
    <3>1. Append(from_us[u][s], vote) \in Seq(FromUsMessages)
        BY <1>4, <2>4
    <3>2. from_us' = [from_us EXCEPT ![u][s] = Append(from_us[u][s], vote)]
        BY <1>6
    <3>3. QED
        BY <3>1, <3>2, EntryReplaced DEF UserServerTypeOK
  <2>6. QED
    BY <1>1, <1>2, <1>6, <2>3, <2>5 DEF UserServerTypeOK, BooksAgree
<1>7. QED
    BY <1>5, <1>6 DEF HandlePrepare

\* Handling a COMMIT is the only step that changes an account.
LEMMA CommitStepKeepsBooks ==
    ASSUME UserServerTypeOK, BooksAgree, NEW u \in Users, NEW s \in Servers, HandleCommit(u, s)
    PROVE  UserServerTypeOK' /\ BooksAgree'
<1> DEFINE t == current[u][s].transaction
           result == commit_transaction(t, account[u], s)
<1>1. /\ to_us[u][s] # <<>> /\ ReadPacket(u, s)
      /\ UNCHANGED <<link, from_us>>
    BY DEF HandleCommit, Arrived
<1>2. to_us' \in [Users -> [Servers -> Seq(ToUsMessages)]]
    BY <1>1, ReadKeepsTypes
<1>3. t \in Transactions /\ account[u] \in Account /\ WellFormed(account[u])
    BY DEF UserServerTypeOK, BooksAgree
<1>4. result.account \in Account /\ WellFormed(result.account)
    BY <1>3, CommitKeepsBooks
<1>5. CASE aborted' = TRUE /\ UNCHANGED <<accountVars, current>>
    BY <1>1, <1>2, <1>5 DEF UserServerTypeOK, BooksAgree, accountVars
<1>6. CASE /\ account' = [account EXCEPT ![u] = result.account]
           /\ did_change' = [did_change EXCEPT ![u] = @ \/ SetsDidChange(t)]
           /\ current' = [current EXCEPT ![u][s] = NoCurrent]
           /\ UNCHANGED aborted
  <2> HIDE DEF result
  <2>1. account' \in [Users -> Account] /\ BooksAgree'
    BY <1>4, <1>6 DEF UserServerTypeOK, BooksAgree
  <2>2. did_change' \in [Users -> BOOLEAN]
    BY <1>6 DEF UserServerTypeOK, SetsDidChange
  <2>3. current' \in [Users -> [Servers -> [exists : BOOLEAN, transaction : Transactions]]]
    <3>1. NoCurrent \in [exists : BOOLEAN, transaction : Transactions]
        BY EmptySeq DEF NoCurrent, Transactions, MAX_US_TRANSACTION_OPERATIONS
    <3>2. QED
        BY <1>6, <3>1, EntryReplaced DEF UserServerTypeOK
  <2>4. QED
    BY <1>1, <1>2, <1>6, <2>1, <2>2, <2>3 DEF UserServerTypeOK
<1>7. QED
    BY <1>5, <1>6 DEF HandleCommit

LEMMA AbortKeepsBooks ==
    ASSUME UserServerTypeOK, BooksAgree, NEW u \in Users, NEW s \in Servers, HandleAbort(u, s)
    PROVE  UserServerTypeOK' /\ BooksAgree'
<1>1. to_us[u][s] # <<>> /\ ReadPacket(u, s)
    BY DEF HandleAbort, Arrived
<1>2. to_us' \in [Users -> [Servers -> Seq(ToUsMessages)]]
    BY <1>1, ReadKeepsTypes
<1>3. NoCurrent \in [exists : BOOLEAN, transaction : Transactions]
    BY EmptySeq DEF NoCurrent, Transactions, MAX_US_TRANSACTION_OPERATIONS
<1>4. current' \in [Users -> [Servers -> [exists : BOOLEAN, transaction : Transactions]]]
    BY <1>3, EntryReplaced DEF UserServerTypeOK, HandleAbort
<1>5. QED
    BY <1>2, <1>4 DEF UserServerTypeOK, BooksAgree, HandleAbort

LEMMA UnexpectedKeepsBooks ==
    ASSUME UserServerTypeOK, BooksAgree, NEW u \in Users, NEW s \in Servers, HandleUnexpected(u, s)
    PROVE  UserServerTypeOK' /\ BooksAgree'
<1>1. to_us[u][s] # <<>> /\ ReadPacket(u, s)
    BY DEF HandleUnexpected, Arrived
<1>2. to_us' \in [Users -> [Servers -> Seq(ToUsMessages)]]
    BY <1>1, ReadKeepsTypes
<1>3. QED
    BY <1>2 DEF UserServerTypeOK, BooksAgree, HandleUnexpected, accountVars

\* No turn of the user server's main loop spoils an account's books.
LEMMA UserServerKeepsBooks ==
    ASSUME UserServerTypeOK, BooksAgree, UserServerStep
    PROVE  UserServerTypeOK' /\ BooksAgree'
<1>1. ASSUME NEW u \in Users, NEW s \in Servers, HandlePacket(u, s)
      PROVE  UserServerTypeOK' /\ BooksAgree'
    BY <1>1, PrepareKeepsBooks, CommitStepKeepsBooks, AbortKeepsBooks, UnexpectedKeepsBooks
       DEF HandlePacket
<1>2. ASSUME NEW u \in Users, SendUserUpdate(u)
      PROVE  UserServerTypeOK' /\ BooksAgree'
    BY <1>2 DEF SendUserUpdate, UserServerTypeOK, BooksAgree, netVars
<1>3. QED
    BY <1>1, <1>2 DEF UserServerStep

LEMMA LossKeepsBooks ==
    ASSUME UserServerTypeOK, BooksAgree, NEW u \in Users, NEW s \in Servers, LoseConnection(u, s)
    PROVE  UserServerTypeOK' /\ BooksAgree'
<1>1. link' \in [Users -> [Servers -> {"none", "open", "broken"}]]
    BY EntryReplaced DEF LoseConnection, UserServerTypeOK
<1>2. /\ to_us' \in [Users -> [Servers -> Seq(ToUsMessages)]]
      /\ from_us' \in [Users -> [Servers -> Seq(FromUsMessages)]]
    BY EmptySeq, EntryReplaced DEF LoseConnection, UserServerTypeOK
<1>3. NoCurrent \in [exists : BOOLEAN, transaction : Transactions]
    BY EmptySeq DEF NoCurrent, Transactions, MAX_US_TRANSACTION_OPERATIONS
<1>4. current' \in [Users -> [Servers -> [exists : BOOLEAN, transaction : Transactions]]]
    BY <1>3, EntryReplaced DEF UserServerTypeOK, LoseConnection
<1>5. QED
    BY <1>1, <1>2, <1>4 DEF UserServerTypeOK, BooksAgree, LoseConnection, accountVars

\* At the start nothing is reserved, so the books agree.
LEMMA InitialBooks ==
    ASSUME UserServerInit
    PROVE  UserServerTypeOK /\ BooksAgree
<1>1. /\ account \in [Users -> Account]
      /\ \A u \in Users : Unreserved(account[u])
    BY InitialAccountsAssumption DEF UserServerInit
<1>2. BooksAgree
    BY <1>1, ServerAssumption DEF BooksAgree, WellFormed, SlotReservationsAgree, MoneyReservationsAgree,
       Unreserved, Servers
<1>3. NoCurrent \in [exists : BOOLEAN, transaction : Transactions]
    BY EmptySeq DEF NoCurrent, Transactions, MAX_US_TRANSACTION_OPERATIONS
<1>4. QED
    BY <1>1, <1>2, <1>3, EmptySeq DEF UserServerInit, UserServerTypeOK

-----------------------------------------------------------------------------
\* A session is about one of the legs its purpose has.
SessionsOnTrack ==
    \A s \in Servers : ~Idle(s) => session[s].leg <= Legs(session[s].purpose)

CoordinatorInv(articles) == CoordinatorTypeOK(articles) /\ SessionsOnTrack /\ BooksAgree

LiveSessions(articles) ==
    [phase : {"prepare", "vote", "decide"}, purpose : Purposes(articles), leg : {1, 2},
     can_commit : BOOLEAN, item : Item, slot : Slots]

-----------------------------------------------------------------------------
\* A session is either idle or live.
LEMMA SessionIsLive ==
    ASSUME NEW articles, CoordinatorTypeOK(articles), NEW s \in Servers, ~Idle(s)
    PROVE  session[s] \in LiveSessions(articles)
BY DEF CoordinatorTypeOK, Sessions, LiveSessions, Idle, NoSession

LEMMA LegUserIsUser ==
    ASSUME NEW articles, NEW p \in Purposes(articles), NEW leg
    PROVE  LegUser(p, leg) \in Users
BY DEF Purposes, LegUser

\* Operations the legs are made of.
LEMMA OperationTypes ==
    /\ \A it \in Item : ItemToServer(it) \in Operations /\ ItemReserve(it) \in Operations
    /\ \A it \in Item, n \in 0..NumSlots : ItemToInventory(it, n) \in Operations
    /\ SlotReserve \in Operations
    /\ \A n \in Slots : SlotUnreserve(n) \in Operations
    /\ \A x \in Int, f \in BOOLEAN : MoneyTransfer(x, f) \in Operations
    /\ \A x \in Amounts : MoneyReserve(x) \in Operations /\ MoneyUnreserve(x) \in Operations
<1>1. \A it \in Item : ItemToServer(it) \in Operations /\ ItemReserve(it) \in Operations
    BY DEF ItemToServer, ItemReserve, Operations
<1>2. \A it \in Item, n \in 0..NumSlots : ItemToInventory(it, n) \in Operations
    BY DEF ItemToInventory, Operations
<1>3. SlotReserve \in Operations
    BY DEF SlotReserve, Operations
<1>4. \A n \in Slots : SlotUnreserve(n) \in Operations
    BY DEF SlotUnreserve, Operations
<1>5. \A x \in Int, f \in BOOLEAN : MoneyTransfer(x, f) \in Operations
    BY DEF MoneyTransfer, Operations
<1>6. \A x \in Amounts : MoneyReserve(x) \in Operations /\ MoneyUnreserve(x) \in Operations
    BY DEF MoneyReserve, MoneyUnreserve, Operations
<1>7. QED
    BY <1>1, <1>2, <1>3, <1>4, <1>5, <1>6

\* Sequences put together from operations.
LEMMA OneOperation ==
    ASSUME NEW x \in Operations
    PROVE  <<x>> \in Seq(Operations) /\ Len(<<x>>) = 1
OBVIOUS

LEMMA OptionalOperation ==
    ASSUME NEW c \in BOOLEAN, NEW x, c => x \in Operations
    PROVE  OptionalOp(c, x) \in Seq(Operations) /\ Len(OptionalOp(c, x)) \in {0, 1}
<1>1. CASE c
    BY <1>1 DEF OptionalOp
<1>2. CASE ~c
    BY <1>2, EmptySeq DEF OptionalOp
<1>3. QED
    BY <1>1, <1>2

LEMMA ShortSequencesAreTransactions ==
    ASSUME NEW t \in Seq(Operations), Len(t) \in 1..MAX_US_TRANSACTION_OPERATIONS
    PROVE  t \in Transactions /\ t # <<>>
<1> DEFINE n == Len(t)
<1>0. n \in 1..4
    BY DEF MAX_US_TRANSACTION_OPERATIONS
<1> HIDE DEF n
<1>1. n <= MAX_US_TRANSACTION_OPERATIONS /\ n # 0
    BY <1>0 DEF MAX_US_TRANSACTION_OPERATIONS
<1>2. Len(<<>>) = 0
    OBVIOUS
<1>3. t # <<>>
    BY <1>1, <1>2, Zenon DEF n
<1>4. QED
    BY <1>1, <1>3, Zenon DEF Transactions, n

\* Every leg of every session is a transaction of at least one operation and at most
\* MAX_US_TRANSACTION_OPERATIONS of them.
LEMMA LegsAreTransactions ==
    ASSUME NEW articles, NEW p \in Purposes(articles), NEW leg \in {1, 2}, NEW item \in Item
    PROVE  LegTransaction(p, leg, item) \in Transactions \ {<<>>}
<1> DEFINE t == LegTransaction(p, leg, item)
<1>0. /\ p.kind \in {"BUY", "SELL", "EXCHANGE", "TO_INVENTORY", "FROM_INVENTORY"}
      /\ Prices \subseteq Nat
      /\ Items \subseteq Item
    BY PricesAssumption DEF Purposes, Item
<1>1. SUFFICES t \in Seq(Operations) /\ Len(t) \in 1..MAX_US_TRANSACTION_OPERATIONS
    BY ShortSequencesAreTransactions
<1>2. CASE p.kind = "BUY"
  <2> DEFINE c == p.price > 0
             x == MoneyReserve(p.price)
  <2>1. p.price \in Nat
    BY <1>0, <1>2 DEF Purposes
  <2>2. c \in BOOLEAN /\ (c => x \in Operations)
    BY <2>1, OperationTypes DEF Amounts
  <2>3. t = <<SlotReserve>> \o OptionalOp(c, x)
    BY <1>2 DEF LegTransaction
  <2> HIDE DEF c, x
  <2>4. /\ <<SlotReserve>> \in Seq(Operations) /\ Len(<<SlotReserve>>) = 1
        /\ OptionalOp(c, x) \in Seq(Operations) /\ Len(OptionalOp(c, x)) \in {0, 1}
    BY <2>2, OperationTypes, OneOperation, OptionalOperation
  <2>5. QED
    BY <2>3, <2>4, ConcatProperties DEF MAX_US_TRANSACTION_OPERATIONS
<1>3. CASE p.kind = "SELL"
  <2>1. t = <<ItemReserve(p.item)>> /\ p.item \in Item
    BY <1>0, <1>3 DEF LegTransaction, Purposes
  <2>2. QED
    BY <2>1, OperationTypes, OneOperation DEF MAX_US_TRANSACTION_OPERATIONS
<1>4. CASE p.kind = "TO_INVENTORY"
  <2>1. t = <<ItemToInventory(p.item, 0)>> /\ p.item \in Item /\ 0 \in 0..NumSlots
    BY <1>0, <1>4, NumSlotsAssumption DEF LegTransaction, Purposes
  <2>2. QED
    BY <2>1, OperationTypes, OneOperation DEF MAX_US_TRANSACTION_OPERATIONS
<1>5. CASE p.kind = "FROM_INVENTORY"
  <2>1. t = <<ItemToServer(p.item)>> /\ p.item \in Item
    BY <1>0, <1>5 DEF LegTransaction, Purposes
  <2>2. QED
    BY <2>1, OperationTypes, OneOperation DEF MAX_US_TRANSACTION_OPERATIONS
<1>6. CASE p.kind = "EXCHANGE" /\ leg = 1
  <2> DEFINE x == ItemToServer(p.item)
             y == MoneyTransfer(p.price, FALSE)
  <2>0. p.item \in Item /\ p.price \in Prices
    BY <1>6 DEF Purposes
  <2>1. p.item \in Item /\ p.price \in Int
    <3>1. p.price \in Nat
        BY <2>0, PricesAssumption, Zenon
    <3>2. QED
        BY <2>0, <3>1
  <2>2. x \in Operations /\ y \in Operations
    BY <2>1, OperationTypes, FALSE \in BOOLEAN, Zenon
  <2>3. t = MoneyReceiverLeg(p)
    BY <1>6 DEF LegTransaction
  <2>4. t = <<x, y>>
    BY <2>3, Zenon DEF MoneyReceiverLeg
  <2> HIDE DEF x, y, t
  <2>5. <<x, y>> \in Seq(Operations) /\ Len(<<x, y>>) = 2
    BY <2>2
  <2>6. QED
    BY <2>4, <2>5 DEF MAX_US_TRANSACTION_OPERATIONS
<1>7. CASE p.kind = "EXCHANGE" /\ leg = 2
  <2> DEFINE d == p.bid - p.price
             x == SlotUnreserve(p.slot)
             c == d > 0
             y == MoneyUnreserve(d)
             z == ItemToInventory(item, p.slot)
             w == MoneyTransfer(-p.price, -p.price < 0)
  <2>1. p.slot \in Slots /\ p.bid \in Nat /\ p.price \in Nat
    BY <1>0, <1>7 DEF Purposes
  <2>2. /\ p.slot \in 0..NumSlots
        /\ d \in Int /\ (d > 0 => d \in Amounts)
        /\ -p.price \in Int /\ (-p.price < 0) \in BOOLEAN
    BY <2>1, NumSlotsAssumption DEF Slots, Amounts
  <2>3. x \in Operations /\ z \in Operations /\ w \in Operations
    BY <2>1, <2>2, OperationTypes, Zenon
  <2>4. c \in BOOLEAN /\ (c => y \in Operations)
    <3> HIDE DEF d
    <3>1. c \in BOOLEAN
        BY <2>2
    <3>2. c => y \in Operations
        BY <2>2, OperationTypes
    <3>3. QED
        BY <3>1, <3>2
  <2>5. t = ItemReceiverLeg(p, item)
    BY <1>7 DEF LegTransaction
  <2>6. t = <<x>> \o OptionalOp(c, y) \o <<z, w>>
    BY <2>5, Zenon DEF ItemReceiverLeg
  <2> HIDE DEF x, c, y, z, w, t
  <2>7. /\ <<x>> \in Seq(Operations) /\ Len(<<x>>) = 1
        /\ OptionalOp(c, y) \in Seq(Operations) /\ Len(OptionalOp(c, y)) \in {0, 1}
        /\ <<z, w>> \in Seq(Operations) /\ Len(<<z, w>>) = 2
    BY <2>3, <2>4, OneOperation, OptionalOperation
  <2>8. /\ <<x>> \o OptionalOp(c, y) \in Seq(Operations)
        /\ Len(<<x>> \o OptionalOp(c, y)) \in {1, 2}
    BY <2>7, ConcatProperties
  <2>9. QED
    BY <2>6, <2>7, <2>8, ConcatProperties DEF MAX_US_TRANSACTION_OPERATIONS
<1>8. QED
    BY <1>0, <1>2, <1>3, <1>4, <1>5, <1>6, <1>7

-----------------------------------------------------------------------------
\* Sending.
LEMMA SendKeepsBooks ==
    ASSUME UserServerTypeOK, BooksAgree, NEW s \in Servers, NEW u \in Users,
           NEW m \in ToUsMessages, SendTo(s, u, m)
    PROVE  UserServerTypeOK' /\ BooksAgree' /\ UNCHANGED faults
<1>1. link' \in [Users -> [Servers -> {"none", "open", "broken"}]]
    BY EntryReplaced DEF SendTo, UserServerTypeOK
<1>2. to_us' \in [Users -> [Servers -> Seq(ToUsMessages)]]
  <2> DEFINE Packets == Seq(ToUsMessages)
             more == Append(to_us[u][s], m)
  <2>1. to_us \in [Users -> [Servers -> Packets]]
    BY DEF UserServerTypeOK
  <2>2. more \in Packets
    BY <2>1
  <2>3. to_us' = [to_us EXCEPT ![u][s] = more]
    BY DEF SendTo
  <2> HIDE DEF more, Packets
  <2>4. to_us' \in [Users -> [Servers -> Packets]]
    BY <2>1, <2>2, <2>3, EntryReplaced
  <2>5. QED
    BY <2>4 DEF Packets
<1>3. QED
    BY <1>1, <1>2 DEF SendTo, UserServerTypeOK, BooksAgree

LEMMA CannotSendKeepsBooks ==
    ASSUME UserServerTypeOK, BooksAgree, faults \in Faults, NEW s, NEW u, CannotSendTo(s, u)
    PROVE  UserServerTypeOK' /\ BooksAgree' /\ faults' \in Faults
<1>1. UNCHANGED usVars
    BY DEF CannotSendTo
<1>2. faults' \in Faults
    BY DEF CannotSendTo, Faults
<1>3. QED
    BY <1>1, <1>2 DEF usVars, UserServerTypeOK, BooksAgree

\* A coordinator replaces its session by one that is idle, or live and on track.
LEMMA SessionReplaced ==
    ASSUME NEW articles, CoordinatorTypeOK(articles), SessionsOnTrack, NEW s \in Servers,
           NEW new, session' = [session EXCEPT ![s] = new],
           \/ new = NoSession
           \/ new \in LiveSessions(articles) /\ new.leg <= Legs(new.purpose)
    PROVE  session' \in [Servers -> Sessions(articles)] /\ SessionsOnTrack'
<1>1. new \in Sessions(articles)
    BY DEF Sessions, LiveSessions
<1>2. session \in [Servers -> Sessions(articles)]
    BY DEF CoordinatorTypeOK
<1>3. session' \in [Servers -> Sessions(articles)]
    BY <1>1, <1>2
<1>4. ASSUME NEW r \in Servers, session'[r].phase # "idle"
      PROVE  session'[r].leg <= Legs(session'[r].purpose)
  <2>1. CASE r = s
    <3>1. session'[r] = new
        BY <1>2, <2>1
    <3>2. new # NoSession
        BY <1>4, <3>1 DEF NoSession
    <3>3. QED
        BY <3>1, <3>2
  <2>2. CASE r # s
    <3>1. session'[r] = session[r]
        BY <1>2, <2>2
    <3>2. ~Idle(r)
        BY <1>4, <3>1 DEF Idle
    <3>3. session[r].leg <= Legs(session[r].purpose)
        BY <3>2 DEF SessionsOnTrack
    <3>4. QED
        BY <3>1, <3>3
  <2>3. QED
    BY <2>1, <2>2
<1>5. QED
    BY <1>3, <1>4 DEF SessionsOnTrack, Idle

LEMMA BeginKeepsBooks ==
    ASSUME NEW articles, CoordinatorInv(articles), NEW s \in Servers,
           NEW p \in Purposes(articles), Begin(s, p)
    PROVE  CoordinatorInv(articles)'
<1> DEFINE new == NewSession(p)
<1>1. /\ session' = [session EXCEPT ![s] = new]
      /\ UNCHANGED <<usVars, faults>>
    BY DEF Begin
<1>2. new \in LiveSessions(articles)
    BY NumSlotsAssumption DEF NewSession, LiveSessions, Item, Slots
<1>3. new.leg <= Legs(new.purpose)
    BY DEF NewSession, Legs
<1> HIDE DEF new
<1>4. session' \in [Servers -> Sessions(articles)] /\ SessionsOnTrack'
    BY <1>1, <1>2, <1>3, SessionReplaced DEF CoordinatorInv
<1>5. QED
    BY <1>1, <1>4 DEF CoordinatorInv, CoordinatorTypeOK, UserServerTypeOK, BooksAgree, usVars

LEMMA PrepareFailsKeepsSessions ==
    ASSUME NEW articles, CoordinatorTypeOK(articles), SessionsOnTrack, NEW s \in Servers,
           ~Idle(s), PrepareFails(s)
    PROVE  session' \in [Servers -> Sessions(articles)] /\ SessionsOnTrack'
<1> DEFINE old == session[s]
           new == [old EXCEPT !.phase = "decide", !.can_commit = FALSE]
<1>1. old \in LiveSessions(articles)
    BY SessionIsLive
<1>2. old.leg <= Legs(old.purpose)
    BY DEF SessionsOnTrack
<1>3. new \in LiveSessions(articles) /\ new.leg = old.leg /\ new.purpose = old.purpose
    BY <1>1 DEF LiveSessions
<1>4. session' = [session EXCEPT ![s] = new]
    BY DEF PrepareFails
<1> HIDE DEF new
<1>5. QED
    BY <1>2, <1>3, <1>4, SessionReplaced

-----------------------------------------------------------------------------
LEMMA SendPrepareKeepsBooks ==
    ASSUME NEW articles, CoordinatorInv(articles), NEW s \in Servers, SendPrepare(s)
    PROVE  CoordinatorInv(articles)'
<1> DEFINE old == session[s]
           t == SessionTransaction(s)
<1>1. ~Idle(s) /\ CoordinatorTypeOK(articles) /\ UserServerTypeOK /\ BooksAgree /\ SessionsOnTrack
      /\ faults \in Faults
    BY DEF SendPrepare, Idle, CoordinatorInv, CoordinatorTypeOK
<1>2. /\ old \in LiveSessions(articles) /\ old.leg <= Legs(old.purpose)
      /\ SessionUser(s) \in Users
    BY <1>1, SessionIsLive, LegUserIsUser DEF SessionsOnTrack, SessionUser, LiveSessions
<1>3. t \in Transactions \ {<<>>}
    BY <1>2, LegsAreTransactions DEF SessionTransaction, LiveSessions
<1>4. CASE SendTo(s, SessionUser(s), Prepare(t)) /\ session' = [session EXCEPT ![s].phase = "vote"]
  <2> DEFINE new == [old EXCEPT !.phase = "vote"]
  <2>1. Prepare(t) \in ToUsMessages
    BY <1>3 DEF Prepare, ToUsMessages
  <2>2. UserServerTypeOK' /\ BooksAgree' /\ UNCHANGED faults
    BY <1>1, <1>2, <1>4, <2>1, SendKeepsBooks
  <2>3. new \in LiveSessions(articles) /\ new.leg = old.leg /\ new.purpose = old.purpose
    BY <1>2 DEF LiveSessions
  <2>4. session' = [session EXCEPT ![s] = new]
    BY <1>4
  <2> HIDE DEF new
  <2>5. session' \in [Servers -> Sessions(articles)] /\ SessionsOnTrack'
    BY <1>1, <1>2, <2>3, <2>4, SessionReplaced
  <2>6. QED
    BY <1>1, <2>2, <2>5 DEF CoordinatorInv, CoordinatorTypeOK
<1>5. CASE CannotSendTo(s, SessionUser(s)) /\ PrepareFails(s)
  <2>1. UserServerTypeOK' /\ BooksAgree' /\ faults' \in Faults
    BY <1>1, <1>5, CannotSendKeepsBooks
  <2>2. session' \in [Servers -> Sessions(articles)] /\ SessionsOnTrack'
    BY <1>1, <1>5, PrepareFailsKeepsSessions
  <2>3. QED
    BY <2>1, <2>2 DEF CoordinatorInv, CoordinatorTypeOK
<1>6. QED
    BY <1>4, <1>5 DEF SendPrepare

LEMMA ReceiveVoteKeepsBooks ==
    ASSUME NEW articles, CoordinatorInv(articles), NEW s \in Servers, ReceiveVote(s)
    PROVE  CoordinatorInv(articles)'
<1> DEFINE old  == session[s]
           u    == SessionUser(s)
           vote == Head(from_us[u][s])
           last == old.leg = Legs(old.purpose)
<1>1. ~Idle(s) /\ CoordinatorTypeOK(articles) /\ UserServerTypeOK /\ BooksAgree /\ SessionsOnTrack
      /\ faults \in Faults
    BY DEF ReceiveVote, Idle, CoordinatorInv, CoordinatorTypeOK
<1>2. /\ old \in LiveSessions(articles) /\ old.leg <= Legs(old.purpose)
      /\ u \in Users
    BY <1>1, SessionIsLive, LegUserIsUser DEF SessionsOnTrack, SessionUser, LiveSessions
<1>3. /\ from_us[u][s] # <<>> /\ from_us' = [from_us EXCEPT ![u][s] = Tail(@)]
      /\ UNCHANGED <<accountVars, link, current, to_us, aborted, faults>>
    BY DEF ReceiveVote
<1>4. vote \in FromUsMessages /\ from_us' \in [Users -> [Servers -> Seq(FromUsMessages)]]
  <2> DEFINE Packets == Seq(FromUsMessages)
             rest == Tail(from_us[u][s])
  <2>1. from_us \in [Users -> [Servers -> Packets]]
    BY <1>1 DEF UserServerTypeOK
  <2>2. from_us[u][s] \in Seq(FromUsMessages)
    BY <1>2, <2>1
  <2>3. vote \in FromUsMessages /\ rest \in Packets
    BY <1>3, <2>2, HeadAndTail
  <2>4. from_us' = [from_us EXCEPT ![u][s] = rest]
    BY <1>3
  <2> HIDE DEF rest, Packets, vote
  <2>5. from_us' \in [Users -> [Servers -> Packets]]
    BY <1>2, <2>1, <2>3, <2>4, EntryReplaced
  <2>6. QED
    BY <2>3, <2>5 DEF Packets
<1>5. UserServerTypeOK' /\ BooksAgree' /\ faults' \in Faults
    BY <1>1, <1>3, <1>4 DEF UserServerTypeOK, BooksAgree, accountVars
<1>6. CASE PrepareFails(s)
    BY <1>1, <1>5, <1>6, PrepareFailsKeepsSessions DEF CoordinatorInv, CoordinatorTypeOK
<1>7. CASE /\ vote.vote = "COMMIT"
           /\ session' = [session EXCEPT
                 ![s].phase = IF last THEN "decide" ELSE "prepare",
                 ![s].leg   = IF last THEN @ ELSE @ + 1,
                 ![s].item  = IF old.leg = 1 THEN vote.item ELSE @,
                 ![s].slot  = vote.slot]
  <2> DEFINE phase == IF last THEN "decide" ELSE "prepare"
             leg   == IF last THEN old.leg ELSE old.leg + 1
             item  == IF old.leg = 1 THEN vote.item ELSE old.item
             slot  == vote.slot
             new   == [old EXCEPT !.phase = phase, !.leg = leg,
                                  !.item = item, !.slot = slot]
  <2>1. vote.item \in Item /\ vote.slot \in Slots
    BY <1>4, <1>7 DEF FromUsMessages
  <2>2. old.leg \in {1, 2} /\ Legs(old.purpose) \in {1, 2} /\ old.item \in Item
    BY <1>2 DEF LiveSessions, Legs
  <2>3. leg \in {1, 2} /\ leg <= Legs(old.purpose)
    BY <1>2, <2>2
  <2>4. phase \in {"prepare", "vote", "decide"} /\ item \in Item /\ slot \in Slots
    BY <2>1, <2>2
  <2>5. session' = [session EXCEPT ![s] = new]
    BY <1>2, <1>7 DEF LiveSessions
  <2> HIDE DEF phase, leg, item, slot, old
  <2>6. new \in LiveSessions(articles) /\ new.leg = leg /\ new.purpose = old.purpose
    <3>1. old \in LiveSessions(articles)
        BY <1>2
    <3>2. QED
        BY <2>3, <2>4, <3>1 DEF LiveSessions
  <2> HIDE DEF new
  <2>7. session' \in [Servers -> Sessions(articles)] /\ SessionsOnTrack'
    BY <1>1, <2>3, <2>5, <2>6, SessionReplaced
  <2>8. QED
    BY <1>5, <2>7 DEF CoordinatorInv, CoordinatorTypeOK
<1>8. QED
    BY <1>6, <1>7 DEF ReceiveVote

LEMMA NoVoteKeepsBooks ==
    ASSUME NEW articles, CoordinatorInv(articles), NEW s \in Servers, ReadTimeout(s) \/ ReadFails(s)
    PROVE  CoordinatorInv(articles)'
<1>1. ~Idle(s) /\ CoordinatorTypeOK(articles) /\ UserServerTypeOK /\ BooksAgree /\ SessionsOnTrack
      /\ faults \in Faults
    BY DEF ReadTimeout, ReadFails, Idle, CoordinatorInv, CoordinatorTypeOK
<1>2. PrepareFails(s) /\ UNCHANGED usVars /\ faults' \in Faults
    BY <1>1 DEF ReadTimeout, ReadFails, Faults
<1>3. session' \in [Servers -> Sessions(articles)] /\ SessionsOnTrack'
    BY <1>1, <1>2, PrepareFailsKeepsSessions
<1>4. QED
    BY <1>1, <1>2, <1>3 DEF CoordinatorInv, CoordinatorTypeOK, usVars, UserServerTypeOK, BooksAgree

\* Sending a decision, or failing to, leaves the user server's state typed and its books alone.
LEMMA DecisionKeepsBooks ==
    ASSUME NEW articles, CoordinatorInv(articles), NEW s \in Servers, ~Idle(s),
           NEW commit, NEW sent, SendDecision(s, commit, sent)
    PROVE  UserServerTypeOK' /\ BooksAgree' /\ faults' \in Faults
<1>1. CoordinatorTypeOK(articles) /\ UserServerTypeOK /\ BooksAgree /\ faults \in Faults
    BY DEF CoordinatorInv, CoordinatorTypeOK
<1>2. SessionUser(s) \in Users
    BY <1>1, SessionIsLive, LegUserIsUser DEF SessionUser, LiveSessions
<1>3. Decision(commit) \in ToUsMessages
    BY DEF Decision, ToUsMessages
<1>4. CASE SendTo(s, SessionUser(s), Decision(commit))
    BY <1>1, <1>2, <1>3, <1>4, SendKeepsBooks
<1>5. CASE CannotSendTo(s, SessionUser(s))
    BY <1>1, <1>5, CannotSendKeepsBooks
<1>6. QED
    BY <1>4, <1>5 DEF SendDecision

LEMMA DecideSecondLegKeepsBooks ==
    ASSUME NEW articles, CoordinatorInv(articles), NEW s \in Servers, DecideSecondLeg(s)
    PROVE  CoordinatorInv(articles)'
<1> DEFINE old == session[s]
<1>1. PICK sent \in BOOLEAN :
        /\ SendDecision(s, session[s].can_commit, sent)
        /\ session' = [session EXCEPT ![s].leg = 1, ![s].can_commit = @ /\ sent]
    BY DEF DecideSecondLeg
<1>2. ~Idle(s) /\ CoordinatorTypeOK(articles) /\ SessionsOnTrack
    BY <1>1 DEF SendDecision, Idle, CoordinatorInv
<1>3. UserServerTypeOK' /\ BooksAgree' /\ faults' \in Faults
    BY <1>1, <1>2, DecisionKeepsBooks
<1>4. old \in LiveSessions(articles)
    BY <1>2, SessionIsLive
<1> DEFINE commit == old.can_commit /\ sent
           new == [old EXCEPT !.leg = 1, !.can_commit = commit]
<1>5. new \in LiveSessions(articles) /\ new.leg <= Legs(new.purpose)
  <2>1. commit \in BOOLEAN
    OBVIOUS
  <2> HIDE DEF commit
  <2>2. new \in LiveSessions(articles) /\ new.leg = 1
    BY <1>4, <2>1 DEF LiveSessions
  <2>3. QED
    BY <2>2 DEF Legs
<1>6. session' = [session EXCEPT ![s] = new]
    BY <1>1
<1> HIDE DEF new
<1>7. session' \in [Servers -> Sessions(articles)] /\ SessionsOnTrack'
    BY <1>2, <1>5, <1>6, SessionReplaced
<1>8. QED
    BY <1>3, <1>7 DEF CoordinatorInv, CoordinatorTypeOK

LEMMA DecideFirstLegKeepsBooks ==
    ASSUME NEW articles, CoordinatorInv(articles), NEW s \in Servers,
           NEW commit, NEW sent, DecideFirstLeg(s, commit, sent)
    PROVE  CoordinatorInv(articles)'
<1>1. ~Idle(s) /\ CoordinatorTypeOK(articles) /\ SessionsOnTrack
    BY DEF DecideFirstLeg, SendDecision, Idle, CoordinatorInv
<1>2. UserServerTypeOK' /\ BooksAgree' /\ faults' \in Faults
    BY <1>1, DecisionKeepsBooks DEF DecideFirstLeg
<1>3. session' = [session EXCEPT ![s] = NoSession]
    BY DEF DecideFirstLeg
<1>4. session' \in [Servers -> Sessions(articles)] /\ SessionsOnTrack'
    BY <1>1, <1>3, SessionReplaced
<1>5. QED
    BY <1>2, <1>4 DEF CoordinatorInv, CoordinatorTypeOK

\* No step a coordinator takes by itself, ...
LEMMA CoordinatorKeepsBooks ==
    ASSUME NEW articles, CoordinatorInv(articles), NEW s \in Servers, CoordinatorStep(s)
    PROVE  CoordinatorInv(articles)'
BY SendPrepareKeepsBooks, ReceiveVoteKeepsBooks, NoVoteKeepsBooks, DecideSecondLegKeepsBooks
   DEF CoordinatorStep

\* ... no packet the user server handles, and no connection that is lost spoils the books.
LEMMA UserServerTurnKeepsBooks ==
    ASSUME NEW articles, CoordinatorInv(articles), UserServerTurn
    PROVE  CoordinatorInv(articles)'
BY UserServerKeepsBooks DEF UserServerTurn, CoordinatorInv, CoordinatorTypeOK, SessionsOnTrack, Idle

LEMMA DisconnectKeepsBooks ==
    ASSUME NEW articles, CoordinatorInv(articles), Disconnect
    PROVE  CoordinatorInv(articles)'
<1>1. UserServerTypeOK' /\ BooksAgree'
    BY LossKeepsBooks DEF Disconnect, CoordinatorInv, CoordinatorTypeOK
<1>2. faults' \in Faults /\ UNCHANGED session
    BY DEF Disconnect, CoordinatorInv, CoordinatorTypeOK, Faults
<1>3. QED
    BY <1>1, <1>2 DEF CoordinatorInv, CoordinatorTypeOK, SessionsOnTrack, Idle

LEMMA InitialCoordinators ==
    ASSUME NEW articles, CoordinatorInit
    PROVE  CoordinatorInv(articles)
<1>1. UserServerTypeOK /\ BooksAgree
    BY InitialBooks DEF CoordinatorInit
<1>2. faults \in Faults
    BY FaultsAssumption DEF CoordinatorInit, AllWell, Faults
<1>3. session \in [Servers -> Sessions(articles)] /\ SessionsOnTrack
    BY DEF CoordinatorInit, Sessions, NoSession, SessionsOnTrack, Idle
<1>4. QED
    BY <1>1, <1>2, <1>3 DEF CoordinatorInv, CoordinatorTypeOK

LEMMA StutteringKeepsBooks ==
    ASSUME NEW articles, CoordinatorInv(articles), UNCHANGED coordinatorVars
    PROVE  CoordinatorInv(articles)'
BY DEF coordinatorVars, usVars, CoordinatorInv, CoordinatorTypeOK, UserServerTypeOK, BooksAgree,
       SessionsOnTrack, Idle

-----------------------------------------------------------------------------
\* Inside a session its purpose stays.
LEMMA PurposeKept ==
    ASSUME NEW articles, CoordinatorInv(articles), NEW s \in Servers, CoordinatorStep(s), NEW r \in Servers
    PROVE  /\ session'[r].phase # "idle" => session[r].phase # "idle"
           /\ session[r].phase # "idle" => session'[r].purpose = session[r].purpose
<1>1. /\ CoordinatorTypeOK(articles)
      /\ session[s].phase # "idle"
    BY DEF CoordinatorInv, CoordinatorStep, SendPrepare, ReceiveVote, ReadTimeout, ReadFails,
           DecideSecondLeg, SendDecision
<1>2. session[s] \in LiveSessions(articles) /\ session \in [Servers -> Sessions(articles)]
    BY <1>1, SessionIsLive DEF Idle, CoordinatorTypeOK
<1>3. r # s => session'[r] = session[r]
    BY <1>2 DEF CoordinatorStep, SendPrepare, ReceiveVote, ReadTimeout, ReadFails, DecideSecondLeg,
                PrepareFails
<1>4. session'[s].purpose = session[s].purpose
  <2>1. CASE PrepareFails(s)
    BY <1>2, <2>1 DEF PrepareFails, LiveSessions
  <2>2. CASE SendPrepare(s)
    BY <1>2, <2>1, <2>2 DEF SendPrepare, LiveSessions
  <2>3. CASE ReceiveVote(s)
    BY <1>2, <2>1, <2>3 DEF ReceiveVote, LiveSessions
  <2>4. CASE ReadTimeout(s) \/ ReadFails(s)
    BY <2>1, <2>4 DEF ReadTimeout, ReadFails
  <2>5. CASE DecideSecondLeg(s)
    BY <1>2, <2>5 DEF DecideSecondLeg, LiveSessions
  <2>6. QED
    BY <2>2, <2>3, <2>4, <2>5 DEF CoordinatorStep
<1>5. QED
    BY <1>1, <1>3, <1>4

LEMMA SessionBegun ==
    ASSUME NEW articles, CoordinatorInv(articles), NEW s \in Servers, NEW p, Begin(s, p)
    PROVE  session'[s].phase = "prepare" /\ session'[s].purpose = p
           /\ \A r \in Servers \ {s} : session'[r] = session[r]
BY DEF Begin, NewSession, CoordinatorInv, CoordinatorTypeOK

LEMMA SessionEnded ==
    ASSUME NEW articles, CoordinatorInv(articles), NEW s \in Servers, NEW commit, NEW sent,
           DecideFirstLeg(s, commit, sent)
    PROVE  session'[s].phase = "idle" /\ \A r \in Servers \ {s} : session'[r] = session[r]
BY DEF DecideFirstLeg, NoSession, CoordinatorInv, CoordinatorTypeOK

-----------------------------------------------------------------------------
\* What each of the two coordinators holds sessions for.
Own(articles, s) ==
    {p \in Purposes(articles) :
        /\ p.kind \in IF s = MarketServer THEN {"BUY", "SELL", "EXCHANGE"} ELSE {"TO_INVENTORY", "FROM_INVENTORY"}
        /\ p.kind = "EXCHANGE" => p.buyer # p.seller /\ p.price <= p.bid}

PurposesOwned(articles) == \A s \in Servers : ~Idle(s) => session[s].purpose \in Own(articles, s)

\* The transactions a coordinator can ask a user server to prepare.
LegsOf(articles, s) ==
    {LegTransaction(p, leg, item) : p \in Own(articles, s), leg \in {1, 2}, item \in Item}

Proper(q, legs) == \A i \in DOMAIN q : q[i].message = "PREPARE" => q[i].transaction \in legs

\* Whatever fails, nothing else is ever prepared.
LegsPrepared(articles) ==
    \A u \in Users, s \in Servers :
        /\ Proper(to_us[u][s], LegsOf(articles, s))
        /\ current[u][s].exists => current[u][s].transaction \in LegsOf(articles, s)

LegsInv(articles) == CoordinatorInv(articles) /\ PurposesOwned(articles) /\ LegsPrepared(articles)

\* Two sequences joined are a third one if they agree place by place.
LEMMA JoinedIs ==
    ASSUME NEW R, NEW q1 \in Seq(R), NEW q2 \in Seq(R), NEW q \in Seq(R),
           Len(q) = Len(q1) + Len(q2),
           \A i \in 1..Len(q) : q[i] = IF i <= Len(q1) THEN q1[i] ELSE q2[i - Len(q1)]
    PROVE  q1 \o q2 = q
<1>1. /\ q1 \o q2 \in Seq(R)
      /\ Len(q1 \o q2) = Len(q1) + Len(q2)
      /\ \A i \in 1..Len(q1) + Len(q2) :
            (q1 \o q2)[i] = IF i <= Len(q1) THEN q1[i] ELSE q2[i - Len(q1)]
    BY ConcatProperties
<1> DEFINE joined == q1 \o q2
<1>2. joined \in Seq(R) /\ Len(joined) = Len(q) /\ \A i \in 1..Len(q) : joined[i] = q[i]
    BY <1>1
<1> HIDE DEF joined
<1>3. joined = q
    BY <1>2, SeqEqual
<1>4. QED
    BY <1>3 DEF joined

LEMMA JoinedOperations ==
    ASSUME NEW x, NEW y, NEW z, NEW w
    PROVE  /\ <<x>> \o <<>> = <<x>>
           /\ <<x>> \o <<y>> = <<x, y>>
           /\ <<x>> \o <<>> \o <<z, w>> = <<x, z, w>>
           /\ <<x>> \o <<y>> \o <<z, w>> = <<x, y, z, w>>
<1> DEFINE R == {x, y, z, w}
<1>1. /\ <<>> \in Seq(R) /\ <<x>> \in Seq(R) /\ <<y>> \in Seq(R) /\ <<z, w>> \in Seq(R) /\ <<x, y>> \in Seq(R)
      /\ <<x, z, w>> \in Seq(R) /\ <<x, y, z, w>> \in Seq(R)
    OBVIOUS
<1> HIDE DEF R
<1>2. <<x>> \o <<>> = <<x>>
    BY <1>1, ConcatEmptySeq
<1>3. <<x>> \o <<y>> = <<x, y>>
  <2>1. /\ Len(<<x, y>>) = Len(<<x>>) + Len(<<y>>)
        /\ \A i \in 1..Len(<<x, y>>) : <<x, y>>[i] = IF i <= Len(<<x>>) THEN <<x>>[i] ELSE <<y>>[i - Len(<<x>>)]
    OBVIOUS
  <2>2. QED
    BY <1>1, <2>1, JoinedIs
<1>4. <<x>> \o <<z, w>> = <<x, z, w>>
  <2>1. /\ Len(<<x, z, w>>) = Len(<<x>>) + Len(<<z, w>>)
        /\ \A i \in 1..Len(<<x, z, w>>) :
                <<x, z, w>>[i] = IF i <= Len(<<x>>) THEN <<x>>[i] ELSE <<z, w>>[i - Len(<<x>>)]
    OBVIOUS
  <2>2. QED
    BY <1>1, <2>1, JoinedIs
<1>5. <<x, y>> \o <<z, w>> = <<x, y, z, w>>
  <2>1. /\ Len(<<x, y, z, w>>) = Len(<<x, y>>) + Len(<<z, w>>)
        /\ \A i \in 1..Len(<<x, y, z, w>>) :
                <<x, y, z, w>>[i] = IF i <= Len(<<x, y>>) THEN <<x, y>>[i] ELSE <<z, w>>[i - Len(<<x, y>>)]
    OBVIOUS
  <2>2. QED
    BY <1>1, <2>1, JoinedIs
<1>6. QED
    BY <1>2, <1>3, <1>4, <1>5

\* The legs, written out.
LEMMA LegForms ==
    ASSUME NEW p, NEW item
    PROVE  /\ p.kind = "BUY" => \A leg : LegTransaction(p, leg, item) =
                IF p.price > 0 THEN <<SlotReserve, MoneyReserve(p.price)>> ELSE <<SlotReserve>>
           /\ p.kind = "SELL" => \A leg : LegTransaction(p, leg, item) = <<ItemReserve(p.item)>>
           /\ p.kind = "EXCHANGE" => LegTransaction(p, 1, item) =
                <<ItemToServer(p.item), MoneyTransfer(p.price, FALSE)>>
           /\ p.kind = "EXCHANGE" => LegTransaction(p, 2, item) =
                IF p.bid - p.price > 0
                THEN <<SlotUnreserve(p.slot), MoneyUnreserve(p.bid - p.price), ItemToInventory(item, p.slot),
                       MoneyTransfer(-p.price, -p.price < 0)>>
                ELSE <<SlotUnreserve(p.slot), ItemToInventory(item, p.slot),
                       MoneyTransfer(-p.price, -p.price < 0)>>
           /\ p.kind = "TO_INVENTORY" => \A leg : LegTransaction(p, leg, item) = <<ItemToInventory(p.item, 0)>>
           /\ p.kind = "FROM_INVENTORY" => \A leg : LegTransaction(p, leg, item) = <<ItemToServer(p.item)>>
<1>3. ASSUME p.kind = "BUY", NEW leg
      PROVE  LegTransaction(p, leg, item) =
                IF p.price > 0 THEN <<SlotReserve, MoneyReserve(p.price)>> ELSE <<SlotReserve>>
  <2> DEFINE c == p.price > 0
             x == SlotReserve
             y == MoneyReserve(p.price)
  <2>1. LegTransaction(p, leg, item) = <<x>> \o OptionalOp(c, y)
    BY <1>3 DEF LegTransaction
  <2>2. OptionalOp(c, y) = IF c THEN <<y>> ELSE <<>>
    BY DEF OptionalOp
  <2> HIDE DEF c, x, y
  <2>3. CASE c
    <3>1. LegTransaction(p, leg, item) = <<x>> \o <<y>>
        BY <2>1, <2>2, <2>3
    <3>2. LegTransaction(p, leg, item) = <<x, y>>
        BY <3>1, JoinedOperations
    <3>3. QED
        BY <2>3, <3>2 DEF c, x, y
  <2>4. CASE ~c
    <3>1. LegTransaction(p, leg, item) = <<x>> \o <<>>
        BY <2>1, <2>2, <2>4
    <3>2. LegTransaction(p, leg, item) = <<x>>
        BY <3>1, JoinedOperations
    <3>3. QED
        BY <2>4, <3>2 DEF c, x, y
  <2>5. QED
    BY <2>3, <2>4
<1>4. ASSUME p.kind = "EXCHANGE"
      PROVE  LegTransaction(p, 2, item) =
                IF p.bid - p.price > 0
                THEN <<SlotUnreserve(p.slot), MoneyUnreserve(p.bid - p.price), ItemToInventory(item, p.slot),
                       MoneyTransfer(-p.price, -p.price < 0)>>
                ELSE <<SlotUnreserve(p.slot), ItemToInventory(item, p.slot),
                       MoneyTransfer(-p.price, -p.price < 0)>>
  <2> DEFINE c == p.bid - p.price > 0
             x == SlotUnreserve(p.slot)
             y == MoneyUnreserve(p.bid - p.price)
             z == ItemToInventory(item, p.slot)
             w == MoneyTransfer(-p.price, -p.price < 0)
  <2>1. LegTransaction(p, 2, item) = <<x>> \o OptionalOp(c, y) \o <<z, w>>
    BY <1>4 DEF LegTransaction, ItemReceiverLeg
  <2>2. OptionalOp(c, y) = IF c THEN <<y>> ELSE <<>>
    BY DEF OptionalOp
  <2> HIDE DEF c, x, y, z, w
  <2>3. CASE c
    <3>1. LegTransaction(p, 2, item) = <<x>> \o <<y>> \o <<z, w>>
        BY <2>1, <2>2, <2>3
    <3>2. LegTransaction(p, 2, item) = <<x, y, z, w>>
        BY <3>1, JoinedOperations
    <3>3. QED
        BY <2>3, <3>2 DEF c, x, y, z, w
  <2>4. CASE ~c
    <3>1. LegTransaction(p, 2, item) = <<x>> \o <<>> \o <<z, w>>
        BY <2>1, <2>2, <2>4
    <3>2. LegTransaction(p, 2, item) = <<x, z, w>>
        BY <3>1, JoinedOperations
    <3>3. QED
        BY <2>4, <3>2 DEF c, x, y, z, w
  <2>5. QED
    BY <2>3, <2>4
<1>5. p.kind = "EXCHANGE" =>
        LegTransaction(p, 1, item) = <<ItemToServer(p.item), MoneyTransfer(p.price, FALSE)>>
    BY DEF LegTransaction, MoneyReceiverLeg
<1>6. /\ p.kind = "SELL" => \A leg : LegTransaction(p, leg, item) = <<ItemReserve(p.item)>>
      /\ p.kind = "TO_INVENTORY" => \A leg : LegTransaction(p, leg, item) = <<ItemToInventory(p.item, 0)>>
      /\ p.kind = "FROM_INVENTORY" => \A leg : LegTransaction(p, leg, item) = <<ItemToServer(p.item)>>
    BY DEF LegTransaction
<1>7. QED
    BY <1>3, <1>4, <1>5, <1>6

-----------------------------------------------------------------------------
\* Nothing a server asks for depends on the state.
LEMMA LegsAreFixed ==
    ASSUME NEW articles, NEW s
    PROVE  LegsOf(articles, s)' = LegsOf(articles, s)
BY DEF LegsOf, Own, Purposes, LegTransaction, MoneyReceiverLeg, ItemReceiverLeg, OptionalOp, Item, Slots,
       ItemToServer, ItemToInventory, ItemReserve, SlotReserve, SlotUnreserve, MoneyTransfer, MoneyReserve,
       MoneyUnreserve

LEMMA ProperQueues ==
    ASSUME NEW q \in Seq(ToUsMessages), NEW legs, Proper(q, legs)
    PROVE  /\ q # <<>> => Proper(Tail(q), legs)
           /\ q # <<>> /\ Head(q).message = "PREPARE" => Head(q).transaction \in legs
           /\ \A m : m.message = "PREPARE" => (m.transaction \in legs => Proper(Append(q, m), legs))
           /\ \A m : m.message # "PREPARE" => Proper(Append(q, m), legs)
           /\ Proper(<<>>, legs)
<1>1. q # <<>> => Proper(Tail(q), legs)
    BY HeadTailProperties DEF Proper
<1>2. q # <<>> /\ Head(q).message = "PREPARE" => Head(q).transaction \in legs
    BY HeadTailProperties DEF Proper
<1>3. ASSUME NEW m, m.message = "PREPARE" => m.transaction \in legs
      PROVE  Proper(Append(q, m), legs)
  <2>1. /\ DOMAIN Append(q, m) = 1..Len(q) + 1
        /\ \A i \in 1..Len(q) : Append(q, m)[i] = q[i]
        /\ Append(q, m)[Len(q) + 1] = m
    OBVIOUS
  <2>2. \A i \in 1..Len(q) + 1 : i \in 1..Len(q) \/ i = Len(q) + 1
    OBVIOUS
  <2>3. QED
    BY <1>3, <2>1, <2>2 DEF Proper
<1>4. Proper(<<>>, legs)
    BY DEF Proper
<1>5. QED
    BY <1>1, <1>2, <1>3, <1>4

\* The session a coordinator holds stays one of its own.
LEMMA PurposesStayOwned ==
    ASSUME NEW articles, PurposesOwned(articles),
           \A r \in Servers : /\ session'[r].phase # "idle" => session[r].phase # "idle"
                              /\ session[r].phase # "idle" => session'[r].purpose = session[r].purpose
    PROVE  PurposesOwned(articles)'
BY DEF PurposesOwned, Idle, Own, Purposes

\* What is sent is asked for by the session.
LEMMA SendKeepsLegs ==
    ASSUME NEW articles, UserServerTypeOK, LegsPrepared(articles), NEW u \in Users, NEW s \in Servers,
           NEW m, m.message = "PREPARE" => m.transaction \in LegsOf(articles, s), SendTo(s, u, m)
    PROVE  LegsPrepared(articles)'
<1>1. /\ to_us \in [Users -> [Servers -> Seq(ToUsMessages)]]
      /\ to_us' = [to_us EXCEPT ![u][s] = Append(@, m)] /\ UNCHANGED current
    BY DEF UserServerTypeOK, SendTo
<1> SUFFICES ASSUME NEW v \in Users, NEW r \in Servers
             PROVE  Proper(to_us'[v][r], LegsOf(articles, r))
    BY <1>1, LegsAreFixed DEF LegsPrepared, Proper
<1>2. CASE v = u /\ r = s
  <2>1. to_us'[v][r] = Append(to_us[u][s], m) /\ to_us[u][s] \in Seq(ToUsMessages)
    BY <1>1, <1>2
  <2>2. Proper(to_us[u][s], LegsOf(articles, s))
    BY DEF LegsPrepared
  <2>3. QED
    BY <1>2, <2>1, <2>2, ProperQueues
<1>3. CASE ~(v = u /\ r = s)
  <2>1. to_us'[v][r] = to_us[v][r]
    BY <1>1, <1>3
  <2>2. QED
    BY <2>1 DEF LegsPrepared
<1>4. QED
    BY <1>2, <1>3

\* A packet is read, and what is prepared for its sender is replaced.
LEMMA ReadKeepsLegs ==
    ASSUME NEW articles, UserServerTypeOK, LegsPrepared(articles), NEW u \in Users, NEW s \in Servers,
           to_us[u][s] # <<>>, ReadPacket(u, s), NEW x,
           current' = current \/ current' = [current EXCEPT ![u][s] = x],
           x.exists => x.transaction \in LegsOf(articles, s)
    PROVE  LegsPrepared(articles)'
<1>1. /\ to_us \in [Users -> [Servers -> Seq(ToUsMessages)]]
      /\ to_us' = [to_us EXCEPT ![u][s] = Tail(@)]
      /\ current \in [Users -> [Servers -> [exists : BOOLEAN, transaction : Transactions]]]
    BY DEF UserServerTypeOK, ReadPacket
<1> SUFFICES ASSUME NEW v \in Users, NEW r \in Servers
             PROVE  /\ Proper(to_us'[v][r], LegsOf(articles, r))
                    /\ current'[v][r].exists => current'[v][r].transaction \in LegsOf(articles, r)
    BY <1>1, LegsAreFixed DEF LegsPrepared, Proper
<1>2. Proper(to_us[v][r], LegsOf(articles, r))
      /\ (current[v][r].exists => current[v][r].transaction \in LegsOf(articles, r))
    BY DEF LegsPrepared
<1>3. CASE v = u /\ r = s
  <2>1. to_us'[v][r] = Tail(to_us[u][s]) /\ to_us[u][s] \in Seq(ToUsMessages)
    BY <1>1, <1>3
  <2>2. Proper(to_us'[v][r], LegsOf(articles, r))
    BY <1>2, <1>3, <2>1, ProperQueues
  <2>3. current'[v][r] = current[v][r] \/ current'[v][r] = x
    BY <1>1, <1>3
  <2>4. QED
    BY <1>2, <1>3, <2>2, <2>3
<1>4. CASE ~(v = u /\ r = s)
  <2>1. to_us'[v][r] = to_us[v][r] /\ current'[v][r] = current[v][r]
    BY <1>1, <1>4
  <2>2. QED
    BY <1>2, <2>1
<1>5. QED
    BY <1>3, <1>4

LEMMA PacketKeepsLegs ==
    ASSUME NEW articles, UserServerTypeOK, LegsPrepared(articles), NEW u \in Users, NEW s \in Servers,
           HandlePacket(u, s)
    PROVE  LegsPrepared(articles)'
<1>1. to_us[u][s] # <<>> /\ ReadPacket(u, s)
    BY DEF HandlePacket, HandlePrepare, HandleCommit, HandleAbort, HandleUnexpected, Arrived
<1>2. to_us[u][s] \in Seq(ToUsMessages) /\ Proper(to_us[u][s], LegsOf(articles, s))
    BY DEF UserServerTypeOK, LegsPrepared
<1>3. Head(to_us[u][s]).message = "PREPARE" => Head(to_us[u][s]).transaction \in LegsOf(articles, s)
    BY <1>1, <1>2, ProperQueues
<1>4. CASE HandlePrepare(u, s)
  <2> DEFINE x == [exists |-> TRUE, transaction |-> Head(to_us[u][s]).transaction]
  <2>1. current' = current \/ current' = [current EXCEPT ![u][s] = x]
    BY <1>4 DEF HandlePrepare
  <2>2. x.exists => x.transaction \in LegsOf(articles, s)
    BY <1>3, <1>4 DEF HandlePrepare, Arrived
  <2> HIDE DEF x
  <2>3. QED
    BY <1>1, <2>1, <2>2, ReadKeepsLegs
<1>5. CASE HandleCommit(u, s) \/ HandleAbort(u, s) \/ HandleUnexpected(u, s)
  <2>1. current' = current \/ current' = [current EXCEPT ![u][s] = NoCurrent]
    BY <1>5 DEF HandleCommit, HandleAbort, HandleUnexpected
  <2>2. ~NoCurrent.exists
    BY DEF NoCurrent
  <2>3. QED
    BY <1>1, <2>1, <2>2, ReadKeepsLegs
<1>6. QED
    BY <1>4, <1>5 DEF HandlePacket

LEMMA LegsStayPrepared ==
    ASSUME NEW articles, LegsPrepared(articles), UNCHANGED <<to_us, current>>
    PROVE  LegsPrepared(articles)'
BY LegsAreFixed DEF LegsPrepared, Proper

LEMMA LossKeepsLegs ==
    ASSUME NEW articles, UserServerTypeOK, LegsPrepared(articles), NEW u \in Users, NEW s \in Servers,
           LoseConnection(u, s)
    PROVE  LegsPrepared(articles)'
<1>1. /\ to_us \in [Users -> [Servers -> Seq(ToUsMessages)]]
      /\ to_us' = [to_us EXCEPT ![u][s] = <<>>]
      /\ current \in [Users -> [Servers -> [exists : BOOLEAN, transaction : Transactions]]]
      /\ current' = [current EXCEPT ![u][s] = NoCurrent]
    BY DEF UserServerTypeOK, LoseConnection
<1> SUFFICES ASSUME NEW v \in Users, NEW r \in Servers
             PROVE  /\ Proper(to_us'[v][r], LegsOf(articles, r))
                    /\ current'[v][r].exists => current'[v][r].transaction \in LegsOf(articles, r)
    BY <1>1, LegsAreFixed DEF LegsPrepared, Proper
<1>2. CASE v = u /\ r = s
  <2>1. to_us'[v][r] = <<>> /\ current'[v][r] = NoCurrent
    BY <1>1, <1>2
  <2>2. QED
    BY <2>1 DEF Proper, NoCurrent
<1>3. CASE ~(v = u /\ r = s)
  <2>1. to_us'[v][r] = to_us[v][r] /\ current'[v][r] = current[v][r]
    BY <1>1, <1>3
  <2>2. QED
    BY <2>1 DEF LegsPrepared
<1>4. QED
    BY <1>2, <1>3

-----------------------------------------------------------------------------
\* The transaction a session asks for is one of its server's legs.
LEMMA SessionAsksForLeg ==
    ASSUME NEW articles, LegsInv(articles), NEW s \in Servers, ~Idle(s)
    PROVE  SessionTransaction(s) \in LegsOf(articles, s) /\ SessionUser(s) \in Users
<1>1. CoordinatorTypeOK(articles) /\ session[s].purpose \in Own(articles, s)
    BY DEF LegsInv, CoordinatorInv, PurposesOwned
<1>2. session[s] \in LiveSessions(articles)
    BY <1>1, SessionIsLive
<1>3. QED
    BY <1>1, <1>2, LegUserIsUser DEF LiveSessions, LegsOf, SessionTransaction, SessionUser

LEMMA DecisionKeepsLegs ==
    ASSUME NEW articles, LegsInv(articles), NEW s \in Servers, NEW commit, NEW sent,
           SendDecision(s, commit, sent)
    PROVE  LegsPrepared(articles)'
<1>1. ~Idle(s) /\ UserServerTypeOK /\ LegsPrepared(articles)
    BY DEF SendDecision, Idle, LegsInv, CoordinatorInv, CoordinatorTypeOK
<1>2. SessionUser(s) \in Users
    BY <1>1, SessionAsksForLeg
<1>3. Decision(commit).message # "PREPARE"
    BY DEF Decision
<1>4. CASE SendTo(s, SessionUser(s), Decision(commit))
    BY <1>1, <1>2, <1>3, <1>4, SendKeepsLegs
<1>5. CASE CannotSendTo(s, SessionUser(s))
    BY <1>1, <1>5, LegsStayPrepared DEF CannotSendTo, usVars
<1>6. QED
    BY <1>4, <1>5 DEF SendDecision

LEMMA CoordinatorKeepsLegs ==
    ASSUME NEW articles, LegsInv(articles), NEW s \in Servers, CoordinatorStep(s)
    PROVE  LegsInv(articles)'
<1>1. CoordinatorInv(articles)' /\ PurposesOwned(articles)'
    BY CoordinatorKeepsBooks, PurposeKept, PurposesStayOwned DEF LegsInv
<1>2. LegsPrepared(articles) /\ UserServerTypeOK
    BY DEF LegsInv, CoordinatorInv, CoordinatorTypeOK
<1>3. CASE SendPrepare(s)
  <2> DEFINE m == Prepare(SessionTransaction(s))
             u == SessionUser(s)
  <2>1. ~Idle(s)
    BY <1>3 DEF SendPrepare, Idle
  <2>2. u \in Users /\ (m.message = "PREPARE" => m.transaction \in LegsOf(articles, s))
    BY <2>1, SessionAsksForLeg DEF Prepare
  <2>3. SendTo(s, u, m) \/ CannotSendTo(s, u)
    BY <1>3 DEF SendPrepare
  <2>4. CASE SendTo(s, u, m)
    <3> HIDE DEF m, u
    <3>1. LegsPrepared(articles)'
        BY <1>2, <2>2, <2>4, SendKeepsLegs
    <3>2. QED
        BY <1>1, <3>1 DEF LegsInv
  <2>5. CASE CannotSendTo(s, u)
    BY <1>1, <1>2, <2>5, LegsStayPrepared DEF CannotSendTo, usVars, LegsInv
  <2>6. QED
    BY <2>3, <2>4, <2>5
<1>4. CASE ReceiveVote(s) \/ ReadTimeout(s) \/ ReadFails(s)
  <2>1. UNCHANGED <<to_us, current>>
    BY <1>4 DEF ReceiveVote, ReadTimeout, ReadFails, usVars
  <2>2. QED
    BY <1>1, <1>2, <2>1, LegsStayPrepared DEF LegsInv
<1>5. CASE DecideSecondLeg(s)
    BY <1>1, <1>5, DecisionKeepsLegs DEF DecideSecondLeg, LegsInv
<1>6. QED
    BY <1>3, <1>4, <1>5 DEF CoordinatorStep

LEMMA BeginKeepsLegs ==
    ASSUME NEW articles, LegsInv(articles), NEW s \in Servers, NEW p \in Own(articles, s), Begin(s, p)
    PROVE  LegsInv(articles)'
<1>1. p \in Purposes(articles)
    BY DEF Own
<1>2. CoordinatorInv(articles)'
    BY <1>1, BeginKeepsBooks DEF LegsInv
<1>3. session'[s].purpose = p /\ \A r \in Servers \ {s} : session'[r] = session[r]
    BY SessionBegun DEF LegsInv
<1>4. PurposesOwned(articles)'
    BY <1>3 DEF PurposesOwned, LegsInv, Idle, Own, Purposes
<1>5. LegsPrepared(articles)'
    BY LegsStayPrepared DEF LegsInv, Begin, usVars
<1>6. QED
    BY <1>2, <1>4, <1>5 DEF LegsInv

LEMMA DecideFirstLegKeepsLegs ==
    ASSUME NEW articles, LegsInv(articles), NEW s \in Servers,
           NEW commit, NEW sent, DecideFirstLeg(s, commit, sent)
    PROVE  LegsInv(articles)'
<1>1. CoordinatorInv(articles)'
    BY DecideFirstLegKeepsBooks DEF LegsInv
<1>2. session'[s].phase = "idle" /\ \A r \in Servers \ {s} : session'[r] = session[r]
    BY SessionEnded DEF LegsInv
<1>3. PurposesOwned(articles)'
    BY <1>2 DEF PurposesOwned, LegsInv, Idle, Own, Purposes
<1>4. QED
    BY <1>1, <1>3, DecisionKeepsLegs DEF DecideFirstLeg, LegsInv

LEMMA OthersKeepLegs ==
    ASSUME NEW articles, LegsInv(articles), UserServerTurn \/ Disconnect \/ UNCHANGED coordinatorVars
    PROVE  LegsInv(articles)'
<1>1. CoordinatorInv(articles)' /\ UNCHANGED session
    BY UserServerTurnKeepsBooks, DisconnectKeepsBooks, StutteringKeepsBooks
       DEF LegsInv, UserServerTurn, Disconnect, coordinatorVars
<1>2. PurposesOwned(articles)'
    BY <1>1, PurposesStayOwned DEF LegsInv
<1>3. LegsPrepared(articles) /\ UserServerTypeOK
    BY DEF LegsInv, CoordinatorInv, CoordinatorTypeOK
<1>4. CASE \E u \in Users, s \in Servers : HandlePacket(u, s)
    BY <1>1, <1>2, <1>3, <1>4, PacketKeepsLegs DEF LegsInv
<1>5. CASE \E u \in Users : SendUserUpdate(u)
    BY <1>1, <1>2, <1>3, <1>5, LegsStayPrepared DEF LegsInv, SendUserUpdate, netVars
<1>6. CASE \E u \in Users, s \in Servers : LoseConnection(u, s)
    BY <1>1, <1>2, <1>3, <1>6, LossKeepsLegs DEF LegsInv
<1>7. CASE UNCHANGED coordinatorVars
    BY <1>1, <1>2, <1>3, <1>7, LegsStayPrepared DEF LegsInv, coordinatorVars, usVars
<1>8. QED
    BY <1>4, <1>5, <1>6, <1>7 DEF UserServerTurn, UserServerStep, Disconnect

LEMMA InitialLegs ==
    ASSUME NEW articles, CoordinatorInit
    PROVE  LegsInv(articles)
<1>1. CoordinatorInv(articles)
    BY InitialCoordinators
<1>2. \A s \in Servers : Idle(s)
    BY DEF CoordinatorInit, NoSession, Idle
<1>3. \A u \in Users, s \in Servers : to_us[u][s] = <<>> /\ current[u][s] = NoCurrent
    BY DEF CoordinatorInit, UserServerInit
<1>4. QED
    BY <1>1, <1>2, <1>3 DEF LegsInv, PurposesOwned, LegsPrepared, Proper, NoCurrent

-----------------------------------------------------------------------------
(***************************************************************************)
(* As long as nothing fails, each user's connection to a server is in one  *)
(* of three states, and the session says in which.                         *)
(***************************************************************************)
\* A vote on t, as far as the coordinators read it.
VoteFits(vote, t) ==
    vote.vote = "COMMIT" =>
        /\ vote.num_operations = Len(t)
        /\ vote.item = IF t[1].type \in {"ITEM_TO_SERVER", "ITEM_RESERVE"} THEN t[1].item ELSE BlankItem

\* Nothing is prepared, or the decision on what is prepared is on its way.
AtRest(u, s) ==
    /\ from_us[u][s] = <<>>
    /\ \/ to_us[u][s] = <<>> /\ ~current[u][s].exists
       \/ (\E c \in BOOLEAN : to_us[u][s] = <<Decision(c)>>) /\ current[u][s].exists

\* t is prepared, and the vote on it has been read.
Voted(u, s, t) ==
    /\ from_us[u][s] = <<>>
    /\ to_us[u][s] = <<>>
    /\ current[u][s] = [exists |-> TRUE, transaction |-> t]

\* t is to be prepared, maybe after the decision on the transaction before it, or the vote is
\* on its way back.
Asked(u, s, t) ==
    \/ from_us[u][s] = <<>> /\ to_us[u][s] = <<Prepare(t)>> /\ ~current[u][s].exists
    \/ /\ from_us[u][s] = <<>>
       /\ (\E c \in BOOLEAN : to_us[u][s] = <<Decision(c), Prepare(t)>>)
       /\ current[u][s].exists
    \/ /\ \E vote \in FromUsMessages : from_us[u][s] = <<vote>> /\ VoteFits(vote, t)
       /\ to_us[u][s] = <<>>
       /\ current[u][s] = [exists |-> TRUE, transaction |-> t]

FirstLegVoted(u, s) == session[s].leg = 2 /\ u = LegUser(session[s].purpose, 1)

Turn(u, s) ==
    /\ Idle(s) => AtRest(u, s)
    /\ ~Idle(s) /\ u = SessionUser(s) =>
        /\ session[s].phase = "prepare" => AtRest(u, s)
        /\ session[s].phase = "vote"    => Asked(u, s, SessionTransaction(s))
        /\ session[s].phase = "decide"  => Voted(u, s, SessionTransaction(s))
    /\ ~Idle(s) /\ u # SessionUser(s) =>
        /\ FirstLegVoted(u, s)  => Voted(u, s, LegTransaction(session[s].purpose, 1, session[s].item))
        /\ ~FirstLegVoted(u, s) => AtRest(u, s)

\* The item of the first leg's vote is the one the session is about.
ItemRead(s) ==
    (/\ ~Idle(s)
     /\ session[s].leg = 2 \/ (session[s].phase = "decide" /\ session[s].can_commit)
     /\ session[s].purpose.kind \in {"EXCHANGE", "SELL", "FROM_INVENTORY"})
    => session[s].item = session[s].purpose.item

TakingTurns ==
    /\ \A u \in Users, s \in Servers : Turn(u, s) /\ link[u][s] # "broken"
    /\ \A s \in Servers : ItemRead(s)

Calm == AllWell /\ ~aborted

FaultsBounded ==
    /\ faults.timeout <= MaxTimeouts
    /\ faults.lost <= MaxLostConnections
    /\ faults.connect <= MaxFailedConnects

TurnInv(articles) == LegsInv(articles) /\ FaultsBounded /\ (Calm => TakingTurns)

-----------------------------------------------------------------------------
\* The item of the vote is used in the second leg only.
LEMMA FirstLegNeedsNoItem ==
    ASSUME NEW p, NEW x, NEW y
    PROVE  LegTransaction(p, 1, x) = LegTransaction(p, 1, y)
BY DEF LegTransaction

\* A fault that happens is never taken back.
LEMMA FaultsStayBounded ==
    ASSUME faults \in Faults, FaultsBounded,
           \/ UNCHANGED faults
           \/ faults.timeout > 0 /\ faults' = [faults EXCEPT !.timeout = @ - 1]
           \/ faults.lost > 0 /\ faults' = [faults EXCEPT !.lost = @ - 1]
           \/ faults.connect > 0 /\ faults' = [faults EXCEPT !.connect = @ - 1]
    PROVE  FaultsBounded' /\ (AllWell' => AllWell /\ UNCHANGED faults)
<1>1. CASE UNCHANGED faults
    BY <1>1 DEF FaultsBounded, AllWell
<1>2. CASE faults.timeout > 0 /\ faults' = [faults EXCEPT !.timeout = @ - 1]
    BY <1>2, FaultsAssumption DEF FaultsBounded, AllWell, Faults
<1>3. CASE faults.lost > 0 /\ faults' = [faults EXCEPT !.lost = @ - 1]
    BY <1>3, FaultsAssumption DEF FaultsBounded, AllWell, Faults
<1>4. CASE faults.connect > 0 /\ faults' = [faults EXCEPT !.connect = @ - 1]
    BY <1>4, FaultsAssumption DEF FaultsBounded, AllWell, Faults
<1>5. QED
    BY <1>1, <1>2, <1>3, <1>4

\* A connection whose packets, and a session that, stay as they are stay in turn.
LEMMA TurnKept ==
    ASSUME NEW u, NEW s, Turn(u, s), session'[s] = session[s], from_us'[u][s] = from_us[u][s],
           to_us'[u][s] = to_us[u][s], current'[u][s] = current[u][s]
    PROVE  Turn(u, s)'
BY DEF Turn, AtRest, Asked, Voted, Idle, FirstLegVoted, SessionUser, SessionTransaction, VoteFits, LegTransaction,
       MoneyReceiverLeg, ItemReceiverLeg
-----------------------------------------------------------------------------
LEMMA Sent ==
    ASSUME UserServerTypeOK, NEW u \in Users, NEW s \in Servers, NEW m, SendTo(s, u, m)
    PROVE  /\ to_us'[u][s] = Append(to_us[u][s], m)
           /\ \A v \in Users, r \in Servers : (v # u \/ r # s) => to_us'[v][r] = to_us[v][r]
           /\ UNCHANGED <<account, current, from_us, aborted, faults>>
           /\ \A v \in Users, r \in Servers : link[v][r] # "broken" => link'[v][r] # "broken"
BY DEF UserServerTypeOK, SendTo

LEMMA ShortQueues ==
    ASSUME NEW x, NEW y
    PROVE  /\ Append(<<>>, y) = <<y>> /\ Append(<<x>>, y) = <<x, y>>
           /\ Head(<<x>>) = x /\ Tail(<<x>>) = <<>> /\ <<x>> # <<>>
           /\ Head(<<x, y>>) = x /\ Tail(<<x, y>>) = <<y>> /\ <<x, y>> # <<>>
<1> DEFINE R == {x, y}
<1>1. <<>> \in Seq(R) /\ <<x>> \in Seq(R) /\ <<y>> \in Seq(R) /\ <<x, y>> \in Seq(R)
    OBVIOUS
<1>2. Append(<<>>, y) = <<y>>
    OBVIOUS
<1>3. Append(<<x>>, y) = <<x, y>>
  <2>1. /\ Len(<<x>>) = 1 /\ <<x>>[1] = x
        /\ Len(<<x, y>>) = 2 /\ <<x, y>>[1] = x /\ <<x, y>>[2] = y /\ y \in R
    OBVIOUS
  <2> DEFINE q == Append(<<x>>, y)
  <2> HIDE DEF R
  <2>2. q \in Seq(R) /\ Len(q) = 2 /\ q[1] = x /\ q[2] = y
    BY <1>1, <2>1, AppendProperties
  <2> HIDE DEF q
  <2>3. q = <<x, y>>
    BY <1>1, <2>1, <2>2, SeqEqual
  <2>4. QED
    BY <2>3 DEF q
<1>4. Head(<<x>>) = x /\ <<x>> # <<>> /\ Head(<<x, y>>) = x /\ <<x, y>> # <<>>
    OBVIOUS
<1>5. Tail(<<x>>) = <<>>
    BY <1>1, <1>4, HeadTailProperties, EmptySeq
<1>6. Tail(<<x, y>>) = <<y>>
    BY <1>1, <1>4, HeadTailProperties, SeqEqual
<1>7. QED
    BY <1>2, <1>3, <1>4, <1>5, <1>6

\* While nothing fails a send succeeds.
LEMMA SendSucceeds ==
    ASSUME faults \in Faults, FaultsBounded, AllWell', NEW u \in Users, NEW s \in Servers, link[u][s] # "broken"
    PROVE  ~CannotSendTo(s, u)
<1> SUFFICES ASSUME CannotSendTo(s, u) PROVE FALSE
    OBVIOUS
<1>1. faults.connect > 0 /\ faults' = [faults EXCEPT !.connect = @ - 1]
    BY DEF CannotSendTo
<1>2. faults' = faults
    BY <1>1, FaultsStayBounded
<1>3. QED
    BY <1>1, <1>2 DEF Faults

\* The fields of a session a step replaces.
LEMMA TurnsAfterBegin ==
    ASSUME NEW articles, LegsInv(articles), TakingTurns, NEW s \in Servers, NEW p \in Own(articles, s), Begin(s, p)
    PROVE  TakingTurns'
<1>1. /\ session'[s] = NewSession(p) /\ \A r \in Servers \ {s} : session'[r] = session[r]
      /\ Idle(s) /\ UNCHANGED <<to_us, from_us, current, link>>
    BY DEF Begin, LegsInv, CoordinatorInv, CoordinatorTypeOK, usVars
<1>2. ASSUME NEW u \in Users, NEW r \in Servers
      PROVE  Turn(u, r)' /\ link'[u][r] # "broken"
  <2>1. Turn(u, r) /\ link[u][r] # "broken"
    BY DEF TakingTurns
  <2>2. CASE r # s
    BY <1>1, <2>1, <2>2, TurnKept
  <2>3. CASE r = s
    <3>1. AtRest(u, s)
        BY <1>1, <2>1, <2>3 DEF Turn
    <3>2. AtRest(u, s)'
        BY <1>1, <3>1 DEF AtRest
    <3>3. session'[s].phase = "prepare" /\ session'[s].leg = 1
        BY <1>1 DEF NewSession
    <3>4. QED
        BY <1>1, <2>1, <2>3, <3>2, <3>3 DEF Turn, Idle, FirstLegVoted
  <2>4. QED
    BY <2>2, <2>3
<1>3. ASSUME NEW r \in Servers
      PROVE  ItemRead(r)'
  <2>1. ItemRead(r)
    BY DEF TakingTurns
  <2>2. QED
    BY <1>1, <2>1 DEF ItemRead, Idle, NewSession
<1>4. QED
    BY <1>2, <1>3 DEF TakingTurns

LEMMA TurnsAfterPrepare ==
    ASSUME NEW articles, LegsInv(articles), TakingTurns, NEW s \in Servers, SendPrepare(s),
           FaultsBounded, AllWell'
    PROVE  TakingTurns'
<1>0. PICK u, t : u = SessionUser(s) /\ t = SessionTransaction(s)
    OBVIOUS
<1>1. ~Idle(s) /\ session[s].phase = "prepare" /\ UserServerTypeOK /\ CoordinatorTypeOK(articles)
      /\ faults \in Faults
    BY DEF SendPrepare, Idle, LegsInv, CoordinatorInv, CoordinatorTypeOK
<1>2. u \in Users /\ session[s] \in LiveSessions(articles)
    BY <1>0, <1>1, SessionAsksForLeg, SessionIsLive
<1>3. SendTo(s, u, Prepare(t)) /\ session' = [session EXCEPT ![s].phase = "vote"]
    BY <1>0, <1>1, <1>2, SendSucceeds DEF SendPrepare, TakingTurns
<1>4. /\ session'[s] = [session[s] EXCEPT !.phase = "vote"]
      /\ \A r \in Servers \ {s} : session'[r] = session[r]
    BY <1>1, <1>3 DEF CoordinatorTypeOK
<1>5. /\ session'[s].phase = "vote" /\ session'[s].purpose = session[s].purpose
      /\ session'[s].leg = session[s].leg /\ session'[s].item = session[s].item
      /\ session'[s].can_commit = session[s].can_commit
    BY <1>2, <1>4 DEF LiveSessions
<1>6. SessionUser(s)' = u /\ SessionTransaction(s)' = t
    BY <1>0, <1>5 DEF SessionUser, SessionTransaction, LegUser, LegTransaction, MoneyReceiverLeg, ItemReceiverLeg
<1>7. ASSUME NEW v \in Users, NEW r \in Servers
      PROVE  Turn(v, r)' /\ link'[v][r] # "broken"
  <2>1. Turn(v, r) /\ link[v][r] # "broken"
    BY DEF TakingTurns
  <2>2. link'[v][r] # "broken" /\ UNCHANGED <<from_us, current>>
    BY <1>1, <1>2, <1>3, <2>1, Sent
  <2>3. CASE r # s
    <3>1. to_us'[v][r] = to_us[v][r]
        BY <1>1, <1>2, <1>3, <2>3, Sent
    <3>2. QED
        BY <1>4, <2>1, <2>2, <2>3, <3>1, TurnKept
  <2>4. CASE r = s /\ v # u
    <3>1. to_us'[v][s] = to_us[v][s]
        BY <1>1, <1>2, <1>3, <2>4, Sent
    <3>2. /\ FirstLegVoted(v, s)' <=> FirstLegVoted(v, s)
          /\ LegTransaction(session[s].purpose, 1, session[s].item)'
                = LegTransaction(session[s].purpose, 1, session[s].item)
        BY <1>5 DEF FirstLegVoted, LegUser, LegTransaction, MoneyReceiverLeg
    <3>3. /\ FirstLegVoted(v, s)  => Voted(v, s, LegTransaction(session[s].purpose, 1, session[s].item))
          /\ ~FirstLegVoted(v, s) => AtRest(v, s)
        BY <1>0, <1>1, <2>1, <2>4 DEF Turn
    <3>4. /\ FirstLegVoted(v, s)'  => Voted(v, s, LegTransaction(session[s].purpose, 1, session[s].item))'
          /\ ~FirstLegVoted(v, s)' => AtRest(v, s)'
        BY <2>2, <3>1, <3>2, <3>3 DEF Voted, AtRest
    <3>5. ~Idle(s)' /\ v # SessionUser(s)'
        BY <1>5, <1>6, <2>4 DEF Idle
    <3>6. QED
        BY <2>2, <2>4, <3>4, <3>5 DEF Turn
  <2>5. CASE r = s /\ v = u
    <3>1. AtRest(u, s)
        BY <1>0, <1>1, <2>1, <2>5 DEF Turn
    <3>2. to_us'[u][s] = Append(to_us[u][s], Prepare(t))
        BY <1>1, <1>2, <1>3, Sent
    <3>3. Asked(u, s, t)'
      <4>1. from_us'[u][s] = <<>> /\ current'[u][s] = current[u][s]
        BY <2>2, <3>1 DEF AtRest
      <4>2. CASE to_us[u][s] = <<>> /\ ~current[u][s].exists
        <5>1. to_us'[u][s] = <<Prepare(t)>>
            BY <3>2, <4>2, ShortQueues
        <5>2. QED
            BY <4>1, <4>2, <5>1 DEF Asked, Prepare
      <4>3. CASE (\E c \in BOOLEAN : to_us[u][s] = <<Decision(c)>>) /\ current[u][s].exists
        <5>1. PICK c \in BOOLEAN : to_us[u][s] = <<Decision(c)>>
            BY <4>3
        <5>2. to_us'[u][s] = <<Decision(c), Prepare(t)>>
            BY <3>2, <5>1, ShortQueues
        <5>3. QED
            BY <4>1, <4>3, <5>2 DEF Asked, Prepare, Decision
      <4>4. QED
        BY <3>1, <4>2, <4>3 DEF AtRest
    <3>4. QED
        BY <1>5, <1>6, <2>2, <2>5, <3>3 DEF Turn, Idle
  <2>6. QED
    BY <2>3, <2>4, <2>5
<1>8. ASSUME NEW r \in Servers
      PROVE  ItemRead(r)'
  <2>1. ItemRead(r)
    BY DEF TakingTurns
  <2>2. CASE r = s
    BY <1>1, <1>5, <2>1, <2>2 DEF ItemRead, Idle
  <2>3. CASE r # s
    BY <1>4, <2>1, <2>3 DEF ItemRead, Idle
  <2>4. QED
    BY <2>2, <2>3
<1>9. QED
    BY <1>7, <1>8 DEF TakingTurns
\* What is read of a vote that is on its way.
LEMMA VoteRead ==
    ASSUME NEW articles, LegsInv(articles), TakingTurns, NEW s \in Servers, ReceiveVote(s)
    PROVE  LET u    == SessionUser(s)
               vote == Head(from_us[u][s])
           IN  /\ u \in Users
               /\ from_us'[u][s] = <<>>
               /\ to_us[u][s] = <<>>
               /\ current[u][s] = [exists |-> TRUE, transaction |-> SessionTransaction(s)]
               /\ vote \in FromUsMessages /\ VoteFits(vote, SessionTransaction(s))
               /\ \A v \in Users, r \in Servers : (v # u \/ r # s) => from_us'[v][r] = from_us[v][r]
<1> DEFINE u == SessionUser(s)
           t == SessionTransaction(s)
<1>1. ~Idle(s) /\ session[s].phase = "vote" /\ UserServerTypeOK /\ from_us[u][s] # <<>>
      /\ from_us' = [from_us EXCEPT ![u][s] = Tail(@)]
    BY DEF ReceiveVote, Idle, LegsInv, CoordinatorInv, CoordinatorTypeOK
<1>2. u \in Users
    BY <1>1, SessionAsksForLeg
<1>3. Asked(u, s, t)
    BY <1>1, <1>2 DEF TakingTurns, Turn
<1> HIDE DEF u, t
<1>4. /\ \E vote \in FromUsMessages : from_us[u][s] = <<vote>> /\ VoteFits(vote, t)
      /\ to_us[u][s] = <<>>
      /\ current[u][s] = [exists |-> TRUE, transaction |-> t]
    BY <1>1, <1>3, Zenon DEF Asked
<1>5. PICK vote \in FromUsMessages : from_us[u][s] = <<vote>> /\ VoteFits(vote, t)
    BY <1>4
<1>6. Head(from_us[u][s]) = vote /\ Tail(from_us[u][s]) = <<>>
    BY <1>5, ShortQueues
<1>7. /\ from_us'[u][s] = <<>>
      /\ \A v \in Users, r \in Servers : (v # u \/ r # s) => from_us'[v][r] = from_us[v][r]
    BY <1>1, <1>2, <1>6 DEF UserServerTypeOK
<1>8. QED
    BY <1>2, <1>4, <1>5, <1>6, <1>7 DEF u, t

\* The leg of a session by itself, and of the other leg of a trade.
LEMMA LegsOfTrade ==
    ASSUME NEW articles, LegsInv(articles), NEW s \in Servers, ~Idle(s)
    PROVE  /\ session[s] \in LiveSessions(articles)
           /\ session[s].purpose \in Own(articles, s)
           /\ session[s].leg = 2 => session[s].purpose.kind = "EXCHANGE"
           /\ session[s].purpose.kind = "EXCHANGE" =>
                /\ LegUser(session[s].purpose, 1) = session[s].purpose.seller
                /\ LegUser(session[s].purpose, 2) = session[s].purpose.buyer
                /\ session[s].purpose.buyer # session[s].purpose.seller
                /\ session[s].purpose.buyer \in Users /\ session[s].purpose.seller \in Users
                /\ Legs(session[s].purpose) = 2
           /\ session[s].purpose.kind # "EXCHANGE" =>
                /\ session[s].leg = 1 /\ Legs(session[s].purpose) = 1
                /\ \A k : LegUser(session[s].purpose, k) = session[s].purpose.user
<1>1. session[s] \in LiveSessions(articles) /\ session[s].purpose \in Own(articles, s)
      /\ session[s].leg <= Legs(session[s].purpose)
    BY SessionIsLive DEF LegsInv, CoordinatorInv, SessionsOnTrack, PurposesOwned
<1>2. session[s].leg \in {1, 2}
    BY <1>1 DEF LiveSessions
<1>3. session[s].purpose.kind = "EXCHANGE" =>
        /\ session[s].purpose.buyer # session[s].purpose.seller
        /\ session[s].purpose.buyer \in Users /\ session[s].purpose.seller \in Users
    BY <1>1 DEF Own, Purposes
<1>4. QED
    BY <1>1, <1>2, <1>3 DEF Legs, LegUser

\* The vote on a transaction whose first operation takes or reserves an item names that item.
LEMMA FirstLegNamesItem ==
    ASSUME NEW p, NEW x, NEW vote, VoteFits(vote, LegTransaction(p, 1, x)), vote.vote = "COMMIT",
           p.kind \in {"EXCHANGE", "SELL", "FROM_INVENTORY"}
    PROVE  vote.item = p.item
<1> DEFINE t == LegTransaction(p, 1, x)
<1>1. t[1].type \in {"ITEM_TO_SERVER", "ITEM_RESERVE"} /\ t[1].item = p.item
  <2>1. CASE p.kind = "EXCHANGE"
    <3>1. t = <<ItemToServer(p.item), MoneyTransfer(p.price, FALSE)>>
        BY <2>1, LegForms
    <3>2. QED
        BY <3>1 DEF ItemToServer
  <2>2. CASE p.kind = "SELL"
    <3>1. t = <<ItemReserve(p.item)>>
        BY <2>2, LegForms
    <3>2. QED
        BY <3>1 DEF ItemReserve
  <2>3. CASE p.kind = "FROM_INVENTORY"
    <3>1. t = <<ItemToServer(p.item)>>
        BY <2>3, LegForms
    <3>2. QED
        BY <3>1 DEF ItemToServer
  <2>4. QED
    BY <2>1, <2>2, <2>3
<1> HIDE DEF t
<1>2. VoteFits(vote, t)
    BY DEF t
<1>3. QED
    BY <1>1, <1>2 DEF VoteFits

LEMMA TurnsAfterVote ==
    ASSUME NEW articles, LegsInv(articles), TakingTurns, NEW s \in Servers, ReceiveVote(s)
    PROVE  TakingTurns'
<1>0. PICK u, t, old, new, vote :
        /\ u = SessionUser(s) /\ t = SessionTransaction(s)
        /\ old = session[s] /\ new = session'[s] /\ vote = Head(from_us[u][s])
    OBVIOUS
<1>1. ~Idle(s) /\ old.phase = "vote" /\ CoordinatorTypeOK(articles) /\ UNCHANGED <<to_us, current, link>>
    BY <1>0 DEF ReceiveVote, Idle, LegsInv, CoordinatorInv
<1>2. /\ old \in LiveSessions(articles)
      /\ u = LegUser(old.purpose, old.leg) /\ t = LegTransaction(old.purpose, old.leg, old.item)
    BY <1>0, <1>1, SessionIsLive DEF SessionUser, SessionTransaction
<1>3. /\ u \in Users /\ from_us'[u][s] = <<>> /\ to_us'[u][s] = <<>>
      /\ current'[u][s] = [exists |-> TRUE, transaction |-> t]
      /\ VoteFits(vote, t)
      /\ \A v \in Users, r \in Servers : (v # u \/ r # s) => from_us'[v][r] = from_us[v][r]
    BY <1>0, <1>1, VoteRead
<1>4. Voted(u, s, t)'
    BY <1>3 DEF Voted
<1>5. \/ new = [old EXCEPT !.phase = "decide", !.can_commit = FALSE]
      \/ /\ vote.vote = "COMMIT" /\ old.leg = Legs(old.purpose)
         /\ new = [old EXCEPT !.phase = "decide", !.item = IF old.leg = 1 THEN vote.item ELSE old.item,
                              !.slot = vote.slot]
      \/ /\ vote.vote = "COMMIT" /\ old.leg # Legs(old.purpose)
         /\ new = [old EXCEPT !.phase = "prepare", !.leg = old.leg + 1,
                              !.item = IF old.leg = 1 THEN vote.item ELSE old.item, !.slot = vote.slot]
  <2>1. CASE PrepareFails(s)
    BY <1>0, <1>1, <2>1 DEF PrepareFails, CoordinatorTypeOK
  <2>2. CASE ~PrepareFails(s)
    <3> DEFINE last == old.leg = Legs(old.purpose)
    <3>1. /\ vote.vote = "COMMIT"
          /\ session' = [session EXCEPT
                ![s].phase = IF last THEN "decide" ELSE "prepare",
                ![s].leg   = IF last THEN @ ELSE @ + 1,
                ![s].item  = IF old.leg = 1 THEN vote.item ELSE @,
                ![s].slot  = vote.slot]
        BY <1>0, <2>2 DEF ReceiveVote
    <3> HIDE DEF last
    <3>2. new = [old EXCEPT
                !.phase = IF last THEN "decide" ELSE "prepare",
                !.leg   = IF last THEN @ ELSE @ + 1,
                !.item  = IF old.leg = 1 THEN vote.item ELSE @,
                !.slot  = vote.slot]
        BY <1>0, <1>1, <3>1 DEF CoordinatorTypeOK
    <3>3. last => new = [old EXCEPT !.phase = "decide", !.item = IF old.leg = 1 THEN vote.item ELSE old.item,
                                    !.slot = vote.slot]
        BY <1>2, <3>2 DEF LiveSessions
    <3>4. ~last => new = [old EXCEPT !.phase = "prepare", !.leg = old.leg + 1,
                                     !.item = IF old.leg = 1 THEN vote.item ELSE old.item, !.slot = vote.slot]
        BY <1>2, <3>2 DEF LiveSessions
    <3>5. QED
        BY <3>1, <3>3, <3>4 DEF last
  <2>3. QED
    BY <2>1, <2>2
<1>6. \A r \in Servers \ {s} : session'[r] = session[r]
    BY <1>1 DEF ReceiveVote, PrepareFails, CoordinatorTypeOK
<1>7. /\ old.leg = 2 => old.purpose.kind = "EXCHANGE"
      /\ old.purpose.kind = "EXCHANGE" =>
            /\ Legs(old.purpose) = 2
            /\ LegUser(old.purpose, 1) # LegUser(old.purpose, 2)
      /\ old.leg \in {1, 2}
      /\ old.purpose.kind # "EXCHANGE" => Legs(old.purpose) = 1
    BY <1>0, <1>1, LegsOfTrade DEF LiveSessions
<1>8. /\ new.purpose = old.purpose
      /\ \/ /\ new.phase = "decide" /\ new.leg = old.leg
            /\ new.can_commit => vote.vote = "COMMIT" /\ (old.leg = 1 => new.item = vote.item)
         \/ /\ new.phase = "prepare" /\ old.leg = 1 /\ new.leg = 2 /\ vote.vote = "COMMIT"
            /\ new.item = vote.item /\ old.purpose.kind = "EXCHANGE"
      /\ old.leg = 2 => new.item = old.item
  <2>1. CASE new = [old EXCEPT !.phase = "decide", !.can_commit = FALSE]
    BY <1>2, <2>1 DEF LiveSessions
  <2>2. CASE /\ vote.vote = "COMMIT"
             /\ new = [old EXCEPT !.phase = "decide", !.item = IF old.leg = 1 THEN vote.item ELSE old.item,
                                  !.slot = vote.slot]
    BY <1>2, <2>2 DEF LiveSessions
  <2>3. CASE /\ vote.vote = "COMMIT" /\ old.leg # Legs(old.purpose)
             /\ new = [old EXCEPT !.phase = "prepare", !.leg = old.leg + 1,
                                  !.item = IF old.leg = 1 THEN vote.item ELSE old.item, !.slot = vote.slot]
    <3>1. old.leg = 1 /\ old.purpose.kind = "EXCHANGE"
        BY <1>7, <2>3, LegsOfTrade, <1>0, <1>1
    <3>2. QED
        BY <1>2, <2>3, <3>1 DEF LiveSessions
  <2>4. QED
    BY <1>5, <2>1, <2>2, <2>3
<1>9. ASSUME NEW x, NEW y
      PROVE  LegTransaction(old.purpose, 1, x) = LegTransaction(old.purpose, 1, y)
    BY FirstLegNeedsNoItem
<1>10. ASSUME NEW v \in Users, NEW r \in Servers
      PROVE  Turn(v, r)' /\ link'[v][r] # "broken"
  <2>1. Turn(v, r) /\ link'[v][r] # "broken"
    BY <1>1 DEF TakingTurns
  <2>2. CASE r # s
    BY <1>1, <1>3, <1>6, <2>1, <2>2, TurnKept
  <2>3. CASE r = s /\ v # u
    <3>1. from_us'[v][s] = from_us[v][s]
        BY <1>3, <2>3
    <3>2. CASE old.leg = 2
      <4>1. v = LegUser(old.purpose, 1)  => Voted(v, s, LegTransaction(old.purpose, 1, old.item))
        BY <1>0, <1>1, <2>1, <2>3, <3>2 DEF Turn, FirstLegVoted
      <4>2. v # LegUser(old.purpose, 1)  => AtRest(v, s)
        BY <1>0, <1>1, <2>1, <2>3, <3>2 DEF Turn, FirstLegVoted
      <4>3. /\ v = LegUser(old.purpose, 1)  => Voted(v, s, LegTransaction(old.purpose, 1, old.item))'
            /\ v # LegUser(old.purpose, 1)  => AtRest(v, s)'
        <5>1. UNCHANGED <<to_us[v][s], from_us[v][s], current[v][s]>>
            BY <1>1, <3>1
        <5>2. v = LegUser(old.purpose, 1) => Voted(v, s, LegTransaction(old.purpose, 1, old.item))'
            BY <4>1, <5>1 DEF Voted, LegTransaction, MoneyReceiverLeg
        <5>3. v # LegUser(old.purpose, 1)  => AtRest(v, s)'
            BY <4>2, <5>1 DEF AtRest
        <5>4. QED
            BY <5>2, <5>3
      <4>4. new.phase = "decide" /\ new.leg = 2 /\ new.item = old.item /\ new.purpose = old.purpose
        BY <1>8, <3>2
      <4>5. SessionUser(s)' = u /\ ~Idle(s)' /\ session'[s] = new
        BY <1>0, <1>2, <3>2, <4>4 DEF SessionUser, LegUser, Idle
      <4>6. QED
        BY <2>1, <2>3, <4>3, <4>4, <4>5 DEF Turn, FirstLegVoted, LegUser, LegTransaction, MoneyReceiverLeg
    <3>3. CASE old.leg = 1
      <4>1. AtRest(v, s)
        BY <1>0, <1>1, <2>1, <2>3, <3>3 DEF Turn, FirstLegVoted
      <4>2. AtRest(v, s)'
        BY <1>1, <3>1, <4>1 DEF AtRest
      <4>3. ~Idle(s)' /\ ~FirstLegVoted(v, s)'
        <5>1. LegUser(new.purpose, 1) = u
            BY <1>2, <1>8, <3>3
        <5>2. QED
            BY <1>0, <1>8, <2>3, <5>1 DEF FirstLegVoted, Idle, LegUser
      <4>4. session'[s].phase = "prepare" \/ v # SessionUser(s)'
        BY <1>0, <1>2, <1>8, <2>3, <3>3 DEF SessionUser, LegUser
      <4>5. session'[s].phase = "decide" \/ session'[s].phase = "prepare"
        BY <1>0, <1>8
      <4>6. QED
        BY <2>1, <2>3, <4>2, <4>3, <4>4, <4>5 DEF Turn
    <3>4. QED
        BY <1>7, <3>2, <3>3
  <2>4. CASE r = s /\ v = u
    <3>1. CASE new.phase = "decide" /\ new.leg = old.leg
      <4>1. SessionUser(s)' = u /\ ~Idle(s)'
        BY <1>0, <1>2, <1>8, <3>1 DEF SessionUser, LegUser, Idle
      <4>2. LegTransaction(new.purpose, new.leg, new.item) = t
        BY <1>2, <1>7, <1>8, <1>9, <3>1
      <4>3. SessionTransaction(s)' = LegTransaction(new.purpose, new.leg, new.item)
        BY <1>0 DEF SessionTransaction, LegTransaction, MoneyReceiverLeg, ItemReceiverLeg
      <4>4. QED
        BY <1>0, <1>4, <2>1, <2>4, <3>1, <4>1, <4>2, <4>3 DEF Turn, Voted
    <3>2. CASE new.phase = "prepare" /\ old.leg = 1 /\ new.leg = 2 /\ old.purpose.kind = "EXCHANGE"
      <4>1. SessionUser(s)' = LegUser(new.purpose, 2) /\ ~Idle(s)'
        BY <1>0, <3>2 DEF SessionUser, LegUser, Idle
      <4>2. u # SessionUser(s)' /\ FirstLegVoted(u, s)'
        BY <1>0, <1>2, <1>7, <1>8, <3>2, <4>1 DEF FirstLegVoted, LegUser
      <4>3. LegTransaction(new.purpose, 1, new.item) = t
        BY <1>2, <1>8, <1>9, <3>2
      <4>4. LegTransaction(session[s].purpose, 1, session[s].item)' = LegTransaction(new.purpose, 1, new.item)
        BY <1>0 DEF LegTransaction, MoneyReceiverLeg
      <4>5. QED
        BY <1>4, <2>1, <2>4, <4>1, <4>2, <4>3, <4>4 DEF Turn, Voted
    <3>3. QED
        BY <1>8, <3>1, <3>2
  <2>5. QED
    BY <2>2, <2>3, <2>4
<1>11. ASSUME NEW r \in Servers
      PROVE  ItemRead(r)'
  <2>1. ItemRead(r)
    BY DEF TakingTurns
  <2>2. CASE r # s
    BY <1>6, <2>1, <2>2 DEF ItemRead, Idle
  <2>3. CASE r = s /\ old.leg = 2
    <3>1. old.purpose.kind \in {"EXCHANGE", "SELL", "FROM_INVENTORY"} => old.item = old.purpose.item
        BY <1>0, <1>1, <2>1, <2>3 DEF ItemRead
    <3>2. QED
        BY <1>0, <1>8, <2>3, <3>1 DEF ItemRead
  <2>4. CASE r = s /\ old.leg = 1
    <3>1. t = LegTransaction(old.purpose, 1, old.item)
        BY <1>2, <2>4
    <3>2. vote.vote = "COMMIT" /\ old.purpose.kind \in {"EXCHANGE", "SELL", "FROM_INVENTORY"}
            => vote.item = old.purpose.item
        BY <1>3, <3>1, FirstLegNamesItem
    <3>3. QED
        BY <1>0, <1>8, <2>4, <3>2 DEF ItemRead
  <2>5. QED
    BY <1>7, <2>2, <2>3, <2>4
<1>12. QED
    BY <1>10, <1>11 DEF TakingTurns
\* No packets but those to u about it from s are read or sent.
OnlyTo(u, s) == \A v \in Users, r \in Servers : (v # u \/ r # s) => to_us'[v][r] = to_us[v][r]

\* A decision reaches the user of the current leg, if nothing fails.
LEMMA DecisionSent ==
    ASSUME NEW articles, LegsInv(articles), TakingTurns, NEW s \in Servers, NEW commit \in BOOLEAN,
           NEW sent \in BOOLEAN, SendDecision(s, commit, sent), FaultsBounded, AllWell', NEW u, u = SessionUser(s)
    PROVE  /\ u \in Users /\ sent = TRUE /\ session[s].phase = "decide"
           /\ AtRest(u, s)'
           /\ to_us'[u][s] = <<Decision(commit)>> /\ to_us[u][s] = <<>>
           /\ current[u][s] = [exists |-> TRUE, transaction |-> SessionTransaction(s)]
           /\ OnlyTo(u, s)
           /\ UNCHANGED <<account, current, from_us, aborted, faults>>
           /\ \A v \in Users, r \in Servers : link'[v][r] # "broken"
<1>0. PICK t : t = SessionTransaction(s)
    OBVIOUS
<1>1. ~Idle(s) /\ session[s].phase = "decide" /\ UserServerTypeOK /\ faults \in Faults
    BY DEF SendDecision, Idle, LegsInv, CoordinatorInv, CoordinatorTypeOK
<1>2. u \in Users
    BY <1>1, SessionAsksForLeg
<1>3. Voted(u, s, t)
    BY <1>0, <1>1, <1>2 DEF TakingTurns, Turn
<1>4. SendTo(s, u, Decision(commit)) /\ sent
    BY <1>0, <1>1, <1>2, SendSucceeds DEF SendDecision, TakingTurns
<1>5. /\ to_us'[u][s] = <<Decision(commit)>>
      /\ \A v \in Users, r \in Servers : (v # u \/ r # s) => to_us'[v][r] = to_us[v][r]
      /\ UNCHANGED <<account, current, from_us, aborted, faults>>
      /\ \A v \in Users, r \in Servers : link'[v][r] # "broken"
    BY <1>1, <1>2, <1>3, <1>4, Sent, ShortQueues DEF Voted, TakingTurns
<1>6. AtRest(u, s)'
    BY <1>3, <1>5 DEF AtRest, Voted, Decision
<1>7. current[u][s] = [exists |-> TRUE, transaction |-> t] /\ to_us[u][s] = <<>>
    BY <1>3 DEF Voted
<1>8. QED
    BY <1>0, <1>1, <1>2, <1>4, <1>5, <1>6, <1>7 DEF OnlyTo

LEMMA TurnsAfterSecondDecision ==
    ASSUME NEW articles, LegsInv(articles), TakingTurns, NEW s \in Servers, DecideSecondLeg(s),
           FaultsBounded, AllWell'
    PROVE  TakingTurns'
<1>0. PICK u, p, item : u = SessionUser(s) /\ p = session[s].purpose /\ item = session[s].item
    OBVIOUS
<1>1. PICK sent \in BOOLEAN :
        /\ SendDecision(s, session[s].can_commit, sent)
        /\ session[s].leg = 2
        /\ session' = [session EXCEPT ![s].leg = 1, ![s].can_commit = @ /\ sent]
    BY DEF DecideSecondLeg
<1>2. ~Idle(s) /\ session[s] \in LiveSessions(articles) /\ CoordinatorTypeOK(articles)
    BY <1>1, SessionIsLive DEF SendDecision, Idle, LegsInv, CoordinatorInv
<1>3. session[s].can_commit \in BOOLEAN
    BY <1>2 DEF LiveSessions
<1>4. /\ u \in Users /\ session[s].phase = "decide" /\ AtRest(u, s)' /\ sent
      /\ \A v \in Users, r \in Servers : (v # u \/ r # s) => to_us'[v][r] = to_us[v][r]
      /\ UNCHANGED <<current, from_us>>
      /\ \A v \in Users, r \in Servers : link'[v][r] # "broken"
  <2>1. PICK c \in BOOLEAN : c = session[s].can_commit
    BY <1>3
  <2>2. SendDecision(s, c, sent)
    BY <1>1, <2>1
  <2>3. /\ u \in Users /\ sent = TRUE /\ session[s].phase = "decide"
        /\ AtRest(u, s)'
        /\ to_us'[u][s] = <<Decision(c)>> /\ to_us[u][s] = <<>>
        /\ current[u][s] = [exists |-> TRUE, transaction |-> SessionTransaction(s)]
        /\ OnlyTo(u, s)
        /\ UNCHANGED <<account, current, from_us, aborted, faults>>
        /\ \A v \in Users, r \in Servers : link'[v][r] # "broken"
    BY <1>0, <2>2, DecisionSent, Zenon
  <2>4. QED
    BY <2>3 DEF OnlyTo
<1>5. /\ session'[s].phase = "decide" /\ session'[s].leg = 1
      /\ session'[s].purpose = p /\ session'[s].item = item
      /\ session'[s].can_commit => session[s].can_commit
      /\ \A r \in Servers \ {s} : session'[r] = session[r]
    BY <1>0, <1>1, <1>2, <1>4 DEF LiveSessions, CoordinatorTypeOK
<1>6. u = LegUser(p, 2) /\ LegUser(p, 1) # u
    BY <1>0, <1>1, <1>2, LegsOfTrade DEF SessionUser
<1>7. SessionUser(s)' = LegUser(p, 1) /\ ~Idle(s)'
    BY <1>5 DEF SessionUser, LegUser, Idle
<1>8. SessionTransaction(s)' = LegTransaction(p, 1, item)
    BY <1>5 DEF SessionTransaction, LegTransaction, MoneyReceiverLeg, ItemReceiverLeg
<1>9. ASSUME NEW v \in Users, NEW r \in Servers
      PROVE  Turn(v, r)' /\ link'[v][r] # "broken"
  <2>1. Turn(v, r) /\ link'[v][r] # "broken"
    BY <1>4 DEF TakingTurns
  <2>2. CASE r # s
    BY <1>4, <1>5, <2>1, <2>2, TurnKept
  <2>3. CASE r = s /\ v = u
    <3>1. v # SessionUser(s)' /\ ~FirstLegVoted(v, s)'
        BY <1>5, <1>6, <1>7, <2>3 DEF FirstLegVoted
    <3>2. QED
        BY <1>4, <1>7, <2>1, <2>3, <3>1 DEF Turn
  <2>4. CASE r = s /\ v = LegUser(p, 1)
    <3>1. Voted(v, s, LegTransaction(p, 1, item))
        BY <1>0, <1>1, <1>2, <1>6, <2>1, <2>4 DEF Turn, FirstLegVoted
    <3>2. UNCHANGED <<to_us[v][s], from_us[v][s], current[v][s]>>
        BY <1>4, <1>6, <2>4
    <3>3. Voted(v, s, SessionTransaction(s))'
        BY <1>8, <3>1, <3>2 DEF Voted
    <3>4. QED
        BY <1>5, <1>7, <2>1, <2>4, <3>3 DEF Turn
  <2>5. CASE r = s /\ v # u /\ v # LegUser(p, 1)
    <3>1. AtRest(v, s)
        BY <1>0, <1>2, <2>1, <2>5 DEF Turn, FirstLegVoted
    <3>2. UNCHANGED <<to_us[v][s], from_us[v][s], current[v][s]>>
        BY <1>4, <2>5
    <3>3. AtRest(v, s)'
        BY <3>1, <3>2 DEF AtRest
    <3>4. v # SessionUser(s)' /\ ~FirstLegVoted(v, s)'
        BY <1>5, <1>7, <2>5 DEF FirstLegVoted
    <3>5. QED
        BY <1>7, <2>1, <2>5, <3>3, <3>4 DEF Turn
  <2>6. QED
    BY <2>2, <2>3, <2>4, <2>5
<1>10. ASSUME NEW r \in Servers
      PROVE  ItemRead(r)'
  <2>1. ItemRead(r)
    BY DEF TakingTurns
  <2>2. CASE r = s
    BY <1>0, <1>1, <1>2, <1>5, <2>1, <2>2 DEF ItemRead
  <2>3. CASE r # s
    BY <1>5, <2>1, <2>3 DEF ItemRead, Idle
  <2>4. QED
    BY <2>2, <2>3
<1>11. QED
    BY <1>9, <1>10 DEF TakingTurns

LEMMA TurnsAfterFirstDecision ==
    ASSUME NEW articles, LegsInv(articles), TakingTurns, NEW s \in Servers, NEW commit \in BOOLEAN, NEW sent \in BOOLEAN,
           DecideFirstLeg(s, commit, sent), FaultsBounded, AllWell'
    PROVE  TakingTurns'
<1>0. PICK u : u = SessionUser(s)
    OBVIOUS
<1>1. /\ SendDecision(s, commit, sent) /\ session[s].leg = 1
      /\ ~Idle(s)
    BY DEF DecideFirstLeg, SendDecision, Idle
<1>2. Idle(s)' /\ \A r \in Servers \ {s} : session'[r] = session[r]
    BY SessionEnded DEF LegsInv, Idle
<1>3. /\ u \in Users /\ AtRest(u, s)'
      /\ \A v \in Users, r \in Servers : (v # u \/ r # s) => to_us'[v][r] = to_us[v][r]
      /\ UNCHANGED <<current, from_us>>
      /\ \A v \in Users, r \in Servers : link'[v][r] # "broken"
  <2>1. /\ u \in Users /\ sent = TRUE /\ session[s].phase = "decide"
        /\ AtRest(u, s)'
        /\ to_us'[u][s] = <<Decision(commit)>> /\ to_us[u][s] = <<>>
        /\ current[u][s] = [exists |-> TRUE, transaction |-> SessionTransaction(s)]
        /\ OnlyTo(u, s)
        /\ UNCHANGED <<account, current, from_us, aborted, faults>>
        /\ \A v \in Users, r \in Servers : link'[v][r] # "broken"
    BY <1>0, <1>1, DecisionSent, Zenon
  <2>2. QED
    BY <2>1 DEF OnlyTo
<1>4. ASSUME NEW v \in Users, NEW r \in Servers
      PROVE  Turn(v, r)' /\ link'[v][r] # "broken"
  <2>1. Turn(v, r) /\ link'[v][r] # "broken"
    BY <1>3 DEF TakingTurns
  <2>2. CASE r # s
    BY <1>2, <1>3, <2>1, <2>2, TurnKept
  <2>3. CASE r = s /\ v = u
    BY <1>2, <1>3, <2>1, <2>3 DEF Turn
  <2>4. CASE r = s /\ v # u
    <3>1. AtRest(v, s)
        BY <1>0, <1>1, <2>1, <2>4 DEF Turn, FirstLegVoted
    <3>2. AtRest(v, s)'
        BY <1>3, <2>4, <3>1 DEF AtRest
    <3>3. QED
        BY <1>2, <2>1, <2>4, <3>2 DEF Turn
  <2>5. QED
    BY <2>2, <2>3, <2>4
<1>5. ASSUME NEW r \in Servers
      PROVE  ItemRead(r)'
  <2>1. ItemRead(r)
    BY DEF TakingTurns
  <2>2. QED
    BY <1>2, <2>1 DEF ItemRead, Idle
<1>6. QED
    BY <1>4, <1>5 DEF TakingTurns

-----------------------------------------------------------------------------
\* The user server answers when it is asked, and then takes the decision.
LEMMA PacketsInTurn ==
    ASSUME UserServerTypeOK, NEW u \in Users, NEW s \in Servers, HandlePacket(u, s), ~aborted'
    PROVE  /\ AtRest(u, s) => AtRest(u, s)'
           /\ \A t : Asked(u, s, t) => Asked(u, s, t)'
           /\ \A t : ~Voted(u, s, t)
<1>1. /\ to_us[u][s] # <<>>
      /\ to_us'[u][s] = Tail(to_us[u][s])
      /\ HandlePrepare(u, s) \/ HandleCommit(u, s) \/ HandleAbort(u, s)
  <2>1. to_us[u][s] # <<>> /\ ReadPacket(u, s)
    BY DEF HandlePacket, HandlePrepare, HandleCommit, HandleAbort, HandleUnexpected, Arrived
  <2>2. HandlePrepare(u, s) \/ HandleCommit(u, s) \/ HandleAbort(u, s)
    BY DEF HandlePacket, HandleUnexpected
  <2>3. to_us'[u][s] = Tail(to_us[u][s])
    BY <2>1 DEF ReadPacket, UserServerTypeOK
  <2>4. QED
    BY <2>1, <2>2, <2>3
<1>2. ASSUME NEW c, Head(to_us[u][s]) = Decision(c), Tail(to_us[u][s]) = <<>> \/ current[u][s].exists
      PROVE  ~current'[u][s].exists /\ from_us'[u][s] = from_us[u][s]
  <2>1. Head(to_us[u][s]).message # "PREPARE"
    BY <1>2 DEF Decision
  <2>2. HandleCommit(u, s) \/ HandleAbort(u, s)
    BY <1>1, <2>1 DEF HandlePrepare, Arrived
  <2>3. current' = [current EXCEPT ![u][s] = NoCurrent] /\ UNCHANGED from_us
    BY <2>2 DEF HandleCommit, HandleAbort
  <2>4. current'[u][s] = NoCurrent
    BY <2>3 DEF UserServerTypeOK
  <2>5. QED
    BY <2>3, <2>4 DEF NoCurrent
<1>3. ASSUME AtRest(u, s)
      PROVE  AtRest(u, s)'
  <2>1. PICK c \in BOOLEAN : to_us[u][s] = <<Decision(c)>> /\ current[u][s].exists
    BY <1>1, <1>3 DEF AtRest
  <2>2. Head(to_us[u][s]) = Decision(c) /\ to_us'[u][s] = <<>>
    BY <1>1, <2>1, ShortQueues
  <2>3. QED
    BY <1>2, <1>3, <2>1, <2>2 DEF AtRest
<1>4. ASSUME NEW t, Asked(u, s, t)
      PROVE  Asked(u, s, t)'
  <2>1. CASE from_us[u][s] = <<>> /\ to_us[u][s] = <<Prepare(t)>> /\ ~current[u][s].exists
    <3>1. Head(to_us[u][s]) = Prepare(t) /\ to_us'[u][s] = <<>>
        BY <1>1, <2>1, ShortQueues
    <3>2. HandlePrepare(u, s) /\ Head(to_us[u][s]).transaction = t
        BY <1>1, <3>1 DEF Prepare, HandleCommit, HandleAbort, Arrived
    <3>3. t \in Transactions /\ t # <<>> /\ account[u] \in Account
        BY <3>1, <3>2, ReadKeepsTypes, PreparedIsTransaction, <1>1 DEF UserServerTypeOK, Prepare
    <3> DEFINE vote == IF transaction_possible(t, account[u], s) THEN VoteCommit(t, account[u]) ELSE VoteAbort
    <3>4. vote \in FromUsMessages
        BY <3>3, VotesAreMessages DEF VoteAbort, FromUsMessages
    <3>5. VoteFits(vote, t)
        BY DEF VoteFits, VoteCommit, VoteAbort
    <3>6. /\ current' = [current EXCEPT ![u][s] = [exists |-> TRUE, transaction |-> t]]
          /\ from_us' = [from_us EXCEPT ![u][s] = Append(@, vote)]
        BY <3>2 DEF HandlePrepare
    <3> HIDE DEF vote
    <3>7. current'[u][s] = [exists |-> TRUE, transaction |-> t] /\ from_us'[u][s] = <<vote>>
        BY <2>1, <3>6, ShortQueues DEF UserServerTypeOK
    <3>8. QED
        BY <3>1, <3>4, <3>5, <3>7 DEF Asked
  <2>2. CASE /\ from_us[u][s] = <<>>
             /\ \E c \in BOOLEAN : to_us[u][s] = <<Decision(c), Prepare(t)>>
             /\ current[u][s].exists
    <3>1. PICK c \in BOOLEAN : to_us[u][s] = <<Decision(c), Prepare(t)>>
        BY <2>2
    <3>2. Head(to_us[u][s]) = Decision(c) /\ to_us'[u][s] = <<Prepare(t)>>
        BY <1>1, <3>1, ShortQueues
    <3>3. QED
        BY <1>2, <2>2, <3>2 DEF Asked, Prepare
  <2>3. QED
    BY <1>1, <1>4, <2>1, <2>2 DEF Asked
<1>5. ASSUME NEW t, Voted(u, s, t)
      PROVE  FALSE
    BY <1>1, <1>5 DEF Voted
<1>6. QED
    BY <1>3, <1>4, <1>5

LEMMA TurnsAfterPacket ==
    ASSUME NEW articles, LegsInv(articles), TakingTurns, NEW u \in Users, NEW s \in Servers, HandlePacket(u, s),
           UNCHANGED session, ~aborted'
    PROVE  TakingTurns'
<1>1. UserServerTypeOK /\ UNCHANGED link
    BY DEF LegsInv, CoordinatorInv, CoordinatorTypeOK, HandlePacket, HandlePrepare, HandleCommit, HandleAbort,
           HandleUnexpected
<1>2. ASSUME NEW v \in Users, NEW r \in Servers, v # u \/ r # s
      PROVE  UNCHANGED <<to_us[v][r], from_us[v][r], current[v][r]>>
  <2>1. to_us'[v][r] = to_us[v][r]
    BY <1>1, <1>2 DEF HandlePacket, HandlePrepare, HandleCommit, HandleAbort, HandleUnexpected, ReadPacket,
                      UserServerTypeOK
  <2>2. from_us'[v][r] = from_us[v][r] /\ current'[v][r] = current[v][r]
    <3>1. CASE HandlePrepare(u, s)
        BY <1>1, <1>2, <3>1 DEF HandlePrepare, UserServerTypeOK
    <3>2. CASE HandleCommit(u, s) \/ HandleAbort(u, s) \/ HandleUnexpected(u, s)
        BY <1>1, <1>2, <3>2 DEF HandleCommit, HandleAbort, HandleUnexpected, UserServerTypeOK
    <3>3. QED
        BY <3>1, <3>2 DEF HandlePacket
  <2>3. QED
    BY <2>1, <2>2
<1>3. ASSUME NEW v \in Users, NEW r \in Servers
      PROVE  Turn(v, r)' /\ link'[v][r] # "broken"
  <2>1. Turn(v, r) /\ link'[v][r] # "broken"
    BY <1>1 DEF TakingTurns
  <2>2. CASE v # u \/ r # s
    BY <1>2, <2>1, <2>2, TurnKept
  <2>3. CASE v = u /\ r = s
    <3>1. /\ AtRest(v, r) => AtRest(v, r)'
          /\ \A t : Asked(v, r, t) => Asked(v, r, t)'
          /\ \A t : ~Voted(v, r, t)
        BY <1>1, <2>3, PacketsInTurn
    <3>2. PICK t : t = SessionTransaction(r)
        OBVIOUS
    <3>3. Asked(v, r, t) => Asked(v, r, t)'
        BY <3>1
    <3>4. /\ Idle(r)' <=> Idle(r)
          /\ SessionUser(r)' = SessionUser(r)
          /\ SessionTransaction(r)' = t
          /\ FirstLegVoted(v, r)' <=> FirstLegVoted(v, r)
        BY <3>2 DEF Idle, SessionUser, SessionTransaction, FirstLegVoted, LegUser, LegTransaction,
                    MoneyReceiverLeg, ItemReceiverLeg
    <3>5. Turn(v, r)'
        BY <2>1, <3>1, <3>2, <3>3, <3>4 DEF Turn
    <3>6. QED
        BY <2>1, <3>5
  <2>4. QED
    BY <2>2, <2>3
<1>4. QED
    BY <1>3 DEF TakingTurns, ItemRead, Idle
-----------------------------------------------------------------------------
\* A step takes at most one fault, and it does so unless nothing failed.
FaultStep ==
    \/ UNCHANGED faults
    \/ faults.timeout > 0 /\ faults' = [faults EXCEPT !.timeout = @ - 1]
    \/ faults.lost > 0 /\ faults' = [faults EXCEPT !.lost = @ - 1]
    \/ faults.connect > 0 /\ faults' = [faults EXCEPT !.connect = @ - 1]

LEMMA SendsTakeFaults ==
    ASSUME NEW s, NEW u, NEW m, SendTo(s, u, m) \/ CannotSendTo(s, u)
    PROVE  FaultStep
BY DEF SendTo, CannotSendTo, FaultStep

\* What a step that keeps the legs has to show for the turns.
LEMMA TurnInvKept ==
    ASSUME NEW articles, TurnInv(articles), LegsInv(articles)', FaultStep, ~aborted' => ~aborted,
           TakingTurns /\ AllWell /\ AllWell' /\ ~aborted /\ ~aborted' => TakingTurns'
    PROVE  TurnInv(articles)'
<1>1. FaultsBounded' /\ (AllWell' => AllWell /\ UNCHANGED faults)
    BY FaultsStayBounded DEF TurnInv, LegsInv, CoordinatorInv, CoordinatorTypeOK, FaultStep
<1>2. QED
    BY <1>1 DEF TurnInv, Calm

LEMMA FaultTaken ==
    ASSUME faults \in Faults, FaultsBounded, AllWell',
           \/ faults.timeout > 0 /\ faults' = [faults EXCEPT !.timeout = @ - 1]
           \/ faults.lost > 0 /\ faults' = [faults EXCEPT !.lost = @ - 1]
    PROVE  FALSE
<1>1. UNCHANGED faults
    BY FaultsStayBounded
<1>2. QED
    BY <1>1 DEF Faults

LEMMA CoordinatorKeepsTurns ==
    ASSUME NEW articles, TurnInv(articles), NEW s \in Servers, CoordinatorStep(s)
    PROVE  TurnInv(articles)'
<1>1. LegsInv(articles) /\ LegsInv(articles)' /\ FaultsBounded /\ faults \in Faults
    BY CoordinatorKeepsLegs DEF TurnInv, LegsInv, CoordinatorInv, CoordinatorTypeOK
<1>2. CASE SendPrepare(s)
  <2>1. FaultStep /\ ~aborted
    BY <1>2, SendsTakeFaults DEF SendPrepare
  <2>2. TakingTurns /\ AllWell' => TakingTurns'
    BY <1>1, <1>2, TurnsAfterPrepare
  <2>3. QED
    BY <1>1, <2>1, <2>2, TurnInvKept
<1>3. CASE ReceiveVote(s)
  <2>1. FaultStep /\ ~aborted
    BY <1>3 DEF ReceiveVote, FaultStep
  <2>2. TakingTurns => TakingTurns'
    BY <1>1, <1>3, TurnsAfterVote
  <2>3. QED
    BY <1>1, <2>1, <2>2, TurnInvKept
<1>4. CASE ReadTimeout(s)
  <2>1. FaultStep /\ ~aborted
    BY <1>4 DEF ReadTimeout, FaultStep
  <2>2. ~AllWell'
    BY <1>1, <1>4, FaultTaken DEF ReadTimeout
  <2>3. QED
    BY <1>1, <2>1, <2>2, TurnInvKept
<1>5. CASE ReadFails(s)
  <2>1. FaultStep /\ ~aborted
    BY <1>5 DEF ReadFails, FaultStep
  <2>2. SessionUser(s) \in Users
    BY <1>1, <1>5, SessionAsksForLeg DEF ReadFails, Idle
  <2>3. ~TakingTurns
    BY <1>5, <2>2 DEF TakingTurns, ReadFails
  <2>4. QED
    BY <1>1, <2>1, <2>3, TurnInvKept
<1>6. CASE DecideSecondLeg(s)
  <2>1. FaultStep /\ ~aborted
    BY <1>6, SendsTakeFaults DEF DecideSecondLeg, SendDecision
  <2>2. TakingTurns /\ AllWell' => TakingTurns'
    BY <1>1, <1>6, TurnsAfterSecondDecision
  <2>3. QED
    BY <1>1, <2>1, <2>2, TurnInvKept
<1>7. QED
    BY <1>2, <1>3, <1>4, <1>5, <1>6 DEF CoordinatorStep

LEMMA BeginKeepsTurns ==
    ASSUME NEW articles, TurnInv(articles), NEW s \in Servers, NEW p \in Own(articles, s), Begin(s, p)
    PROVE  TurnInv(articles)'
<1>1. LegsInv(articles) /\ LegsInv(articles)'
    BY BeginKeepsLegs DEF TurnInv
<1>2. FaultStep /\ ~aborted
    BY DEF Begin, FaultStep
<1>3. QED
    BY <1>1, <1>2, TurnsAfterBegin, TurnInvKept

LEMMA DecideFirstLegKeepsTurns ==
    ASSUME NEW articles, TurnInv(articles), NEW s \in Servers,
           NEW commit \in BOOLEAN, NEW sent \in BOOLEAN, DecideFirstLeg(s, commit, sent)
    PROVE  TurnInv(articles)'
<1>1. LegsInv(articles) /\ LegsInv(articles)' /\ FaultsBounded
    BY DecideFirstLegKeepsLegs DEF TurnInv
<1>2. FaultStep /\ ~aborted
    BY SendsTakeFaults DEF DecideFirstLeg, SendDecision
<1>3. TakingTurns /\ AllWell' => TakingTurns'
    BY <1>1, TurnsAfterFirstDecision
<1>4. QED
    BY <1>1, <1>2, <1>3, TurnInvKept

LEMMA OthersKeepTurns ==
    ASSUME NEW articles, TurnInv(articles), UserServerTurn \/ Disconnect \/ UNCHANGED coordinatorVars
    PROVE  TurnInv(articles)'
<1>1. LegsInv(articles) /\ LegsInv(articles)' /\ FaultsBounded /\ faults \in Faults
    BY OthersKeepLegs DEF TurnInv, LegsInv, CoordinatorInv, CoordinatorTypeOK
<1>2. CASE UserServerTurn
  <2>1. FaultStep /\ ~aborted /\ UNCHANGED session
    BY <1>2 DEF UserServerTurn, UserServerStep, HandlePacket, HandlePrepare, HandleCommit, HandleAbort,
                HandleUnexpected, Arrived, SendUserUpdate, FaultStep
  <2>2. TakingTurns /\ ~aborted' => TakingTurns'
    <3>1. CASE \E u \in Users, s \in Servers : HandlePacket(u, s)
        BY <1>1, <2>1, <3>1, TurnsAfterPacket
    <3>2. CASE \E u \in Users : SendUserUpdate(u)
      <4>1. UNCHANGED <<session, to_us, from_us, current, link>>
        BY <2>1, <3>2 DEF SendUserUpdate, netVars
      <4>2. QED
        BY <4>1, TurnKept DEF TakingTurns, ItemRead, Idle
    <3>3. QED
        BY <1>2, <3>1, <3>2 DEF UserServerTurn, UserServerStep
  <2>3. QED
    BY <1>1, <2>1, <2>2, TurnInvKept
<1>3. CASE Disconnect
  <2>1. FaultStep /\ ~aborted
    BY <1>3 DEF Disconnect, LoseConnection, FaultStep
  <2>2. ~AllWell'
    BY <1>1, <1>3, FaultTaken DEF Disconnect
  <2>3. QED
    BY <1>1, <2>1, <2>2, TurnInvKept
<1>4. CASE UNCHANGED coordinatorVars
  <2>1. FaultStep /\ UNCHANGED <<session, to_us, from_us, current, link, aborted>>
    BY <1>4 DEF coordinatorVars, usVars, FaultStep
  <2>2. TakingTurns => TakingTurns'
    BY <2>1, TurnKept DEF TakingTurns, ItemRead, Idle
  <2>3. QED
    BY <1>1, <2>1, <2>2, TurnInvKept
<1>5. QED
    BY <1>2, <1>3, <1>4

LEMMA InitialTurns ==
    ASSUME NEW articles, CoordinatorInit
    PROVE  TurnInv(articles)
<1>1. LegsInv(articles)
    BY InitialLegs
<1>2. FaultsBounded
    BY FaultsAssumption DEF CoordinatorInit, AllWell, FaultsBounded
<1>3. /\ \A s \in Servers : Idle(s)
      /\ \A u \in Users, s \in Servers :
            to_us[u][s] = <<>> /\ from_us[u][s] = <<>> /\ ~current[u][s].exists /\ link[u][s] = "none"
    BY DEF CoordinatorInit, UserServerInit, NoSession, Idle, NoCurrent
<1>4. TakingTurns
    BY <1>3 DEF TakingTurns, Turn, AtRest, ItemRead
<1>5. QED
    BY <1>1, <1>2, <1>4 DEF TurnInv
-----------------------------------------------------------------------------
(***************************************************************************)
(* Which commits are under way, and how each step changes that.  A commit  *)
(* is under way from the moment the last user of a trade has voted, or the *)
(* decision on a single leg is sent, until its user server has made it.    *)
(***************************************************************************)
CommitsIn(q) == \E i \in DOMAIN q : q[i].message = "COMMIT"

Decided(u, s) ==
    /\ s = MarketServer
    /\ TradeDecided
    /\ \E leg \in 1..session[s].leg : LegUser(session[s].purpose, leg) = u

\* Whether a commit is under way, and of what, stays as it is.
Undisturbed(u, s) ==
    /\ WillCommit(u, s)' <=> WillCommit(u, s)
    /\ WillCommit(u, s) => current'[u][s] = current[u][s]

NoneDisturbed == \A u \in Users, s \in Servers : Undisturbed(u, s)
OthersUndisturbed(u, s) == \A v \in Users, r \in Servers : (v # u \/ r # s) => Undisturbed(v, r)

\* The queues that occur.
LEMMA CommitQueued ==
    ASSUME NEW c \in BOOLEAN, NEW t
    PROVE  /\ ~CommitsIn(<<>>)
           /\ ~CommitsIn(<<Prepare(t)>>)
           /\ CommitsIn(<<Decision(c)>>) <=> c
           /\ CommitsIn(<<Decision(c), Prepare(t)>>) <=> c
<1>1. Decision(c).message = "COMMIT" <=> c
    BY DEF Decision
<1>2. Prepare(t).message # "COMMIT"
    BY DEF Prepare
<1> DEFINE d == Decision(c)
           m == Prepare(t)
<1> HIDE DEF d, m
<1>3. ~CommitsIn(<<>>)
    BY DEF CommitsIn
<1>4. CommitsIn(<<m>>) <=> m.message = "COMMIT"
    BY DEF CommitsIn
<1>5. CommitsIn(<<d>>) <=> d.message = "COMMIT"
    BY DEF CommitsIn
<1>6. CommitsIn(<<d, m>>) <=> (d.message = "COMMIT" \/ m.message = "COMMIT")
    BY DEF CommitsIn
<1>7. QED
    BY <1>1, <1>2, <1>3, <1>4, <1>5, <1>6 DEF d, m

LEMMA CommitAppended ==
    ASSUME NEW R, NEW q \in Seq(R), NEW m \in R
    PROVE  CommitsIn(Append(q, m)) <=> (CommitsIn(q) \/ m.message = "COMMIT")
<1> DEFINE n == Len(q)
           q2 == Append(q, m)
<1>1. n \in Nat /\ DOMAIN q = 1..n /\ Len(q2) = n + 1 /\ q2 \in Seq(R)
      /\ q2[n + 1] = m /\ \A i \in 1..n : q2[i] = q[i]
    BY AppendProperties
<1>2. DOMAIN q2 = 1..(n + 1)
    BY <1>1
<1> HIDE DEF n, q2
<1>3. \A i \in 1..(n + 1) : i \in 1..n \/ i = n + 1
    BY <1>1
<1>4. \A i \in 1..n : i \in 1..(n + 1)
    BY <1>1
<1>5. n + 1 \in 1..(n + 1)
    BY <1>1
<1>6. CommitsIn(q2) <=> (CommitsIn(q) \/ m.message = "COMMIT")
    BY <1>1, <1>2, <1>3, <1>4, <1>5, Zenon DEF CommitsIn
<1>7. QED
    BY <1>6 DEF q2

\* The users of a trade that is decided have voted.
LEMMA DecidedVoted ==
    ASSUME NEW articles, LegsInv(articles), TakingTurns, NEW u \in Users, NEW s \in Servers, Decided(u, s)
    PROVE  from_us[u][s] = <<>> /\ to_us[u][s] = <<>> /\ current[u][s].exists
<1>1. s = MarketServer /\ ~Idle(s) /\ session[s].phase = "decide"
    BY DEF Decided, TradeDecided, Idle
<1>2. session[s] \in LiveSessions(articles)
    BY <1>1, SessionIsLive DEF LegsInv, CoordinatorInv
<1>3. session[s].leg \in {1, 2}
    BY <1>2 DEF LiveSessions
<1>4. PICK leg \in 1..session[s].leg : LegUser(session[s].purpose, leg) = u
    BY DEF Decided
<1>5. Turn(u, s)
    BY DEF TakingTurns
<1>6. CASE u = SessionUser(s)
    BY <1>1, <1>5, <1>6 DEF Turn, Voted
<1>7. CASE u # SessionUser(s)
  <2>1. session[s].leg = 2 /\ leg = 1
    BY <1>3, <1>4, <1>7 DEF SessionUser
  <2>2. FirstLegVoted(u, s)
    BY <1>4, <2>1 DEF FirstLegVoted
  <2>3. QED
    BY <1>1, <1>5, <1>7, <2>2 DEF Turn, Voted
<1>8. QED
    BY <1>6, <1>7

LEMMA WillCommitIs ==
    ASSUME NEW u, NEW s
    PROVE  WillCommit(u, s) <=> current[u][s].exists /\ (CommitsIn(to_us[u][s]) \/ Decided(u, s))
BY DEF WillCommit, CommitOnItsWay, CommitsIn, Decided

LEMMA KeptUndisturbed ==
    ASSUME NEW u, NEW s, Decided(u, s)' <=> Decided(u, s), CommitsIn(to_us'[u][s]) <=> CommitsIn(to_us[u][s]),
           current'[u][s] = current[u][s]
    PROVE  Undisturbed(u, s)
BY DEF Undisturbed, WillCommit, CommitOnItsWay, CommitsIn, Decided

\* A trade is decided as before if its session is as before, or if there was none and is none.
LEMMA DecidedKept ==
    ASSUME NEW u, NEW s,
           session'[MarketServer] = session[MarketServer] \/ (~TradeDecided /\ ~TradeDecided')
    PROVE  Decided(u, s)' <=> Decided(u, s)
<1>1. CASE session'[MarketServer] = session[MarketServer]
    BY <1>1 DEF Decided, TradeDecided, LegUser
<1>2. CASE ~TradeDecided /\ ~TradeDecided'
    BY <1>2 DEF Decided
<1>3. QED
    BY <1>1, <1>2
LEMMA WillCommitThen ==
    ASSUME NEW u, NEW s
    PROVE  WillCommit(u, s)' <=> current'[u][s].exists /\ (CommitsIn(to_us'[u][s]) \/ Decided(u, s)')
BY DEF WillCommit, CommitOnItsWay, CommitsIn, Decided

LEMMA BeginDisturbsNone ==
    ASSUME NEW articles, LegsInv(articles), NEW s \in Servers, NEW p, Begin(s, p)
    PROVE  NoneDisturbed
<1>1. /\ session'[s].phase = "prepare" /\ session[s].phase = "idle"
      /\ \A r \in Servers \ {s} : session'[r] = session[r]
      /\ UNCHANGED <<to_us, current>>
    BY SessionBegun DEF Begin, Idle, usVars, LegsInv
<1>2. ASSUME NEW u \in Users, NEW r \in Servers
      PROVE  Undisturbed(u, r)
  <2>1. session'[MarketServer] = session[MarketServer] \/ (~TradeDecided /\ ~TradeDecided')
    BY <1>1 DEF TradeDecided, Servers
  <2>2. QED
    BY <1>1, <2>1, DecidedKept, KeptUndisturbed
<1>3. QED
    BY <1>2 DEF NoneDisturbed

LEMMA PrepareDisturbsNone ==
    ASSUME NEW articles, LegsInv(articles), TakingTurns, NEW s \in Servers, SendPrepare(s), FaultsBounded, AllWell'
    PROVE  NoneDisturbed
<1>0. PICK u, t : u = SessionUser(s) /\ t = SessionTransaction(s)
    OBVIOUS
<1>1. ~Idle(s) /\ UserServerTypeOK /\ faults \in Faults /\ session[s] \in LiveSessions(articles)
    BY SessionIsLive DEF SendPrepare, Idle, LegsInv, CoordinatorInv, CoordinatorTypeOK
<1>2. u \in Users /\ t \in LegsOf(articles, s)
    BY <1>0, <1>1, SessionAsksForLeg
<1>3. SendTo(s, u, Prepare(t)) /\ session' = [session EXCEPT ![s].phase = "vote"]
    BY <1>0, <1>1, <1>2, SendSucceeds DEF SendPrepare, TakingTurns
<1>4. /\ session[s].phase = "prepare" /\ session'[s].phase = "vote"
      /\ \A r \in Servers \ {s} : session'[r] = session[r]
    BY <1>1, <1>3 DEF SendPrepare, LegsInv, CoordinatorInv, CoordinatorTypeOK, LiveSessions
<1>5. /\ to_us'[u][s] = Append(to_us[u][s], Prepare(t))
      /\ \A v \in Users, r \in Servers : (v # u \/ r # s) => to_us'[v][r] = to_us[v][r]
      /\ UNCHANGED current
    BY <1>1, <1>2, <1>3, Sent
<1>6. CommitsIn(to_us'[u][s]) <=> CommitsIn(to_us[u][s])
  <2>1. to_us[u][s] \in Seq(ToUsMessages)
    BY <1>1, <1>2 DEF UserServerTypeOK
  <2>2. PICK q \in Seq(ToUsMessages \cup {Prepare(t)}) : q = to_us[u][s]
    BY <2>1, ElementOfSeq, SeqDef
  <2>3. CommitsIn(Append(q, Prepare(t))) <=> (CommitsIn(q) \/ Prepare(t).message = "COMMIT")
    BY CommitAppended
  <2>4. QED
    BY <1>5, <2>2, <2>3 DEF Prepare
<1>7. ASSUME NEW v \in Users, NEW r \in Servers
      PROVE  Undisturbed(v, r)
  <2>1. session'[MarketServer] = session[MarketServer] \/ (~TradeDecided /\ ~TradeDecided')
    BY <1>4 DEF TradeDecided, Servers
  <2>2. CommitsIn(to_us'[v][r]) <=> CommitsIn(to_us[v][r])
    BY <1>5, <1>6
  <2>3. QED
    BY <1>5, <2>1, <2>2, DecidedKept, KeptUndisturbed
<1>8. QED
    BY <1>7 DEF NoneDisturbed

\* The first decision on a trade is on its way to the buyer, the other one is still to be sent.
LEMMA SecondDecisionDisturbsNone ==
    ASSUME NEW articles, LegsInv(articles), TakingTurns, NEW s \in Servers, DecideSecondLeg(s), FaultsBounded, AllWell'
    PROVE  NoneDisturbed
<1>0. PICK u, p : u = SessionUser(s) /\ p = session[s].purpose
    OBVIOUS
<1>1. PICK sent \in BOOLEAN :
        /\ SendDecision(s, session[s].can_commit, sent)
        /\ session[s].leg = 2
        /\ session' = [session EXCEPT ![s].leg = 1, ![s].can_commit = @ /\ sent]
    BY DEF DecideSecondLeg
<1>2. ~Idle(s) /\ session[s] \in LiveSessions(articles) /\ CoordinatorTypeOK(articles)
    BY <1>1, SessionIsLive DEF SendDecision, Idle, LegsInv, CoordinatorInv
<1>3. PICK c \in BOOLEAN : c = session[s].can_commit
    BY <1>2 DEF LiveSessions
<1>4. SendDecision(s, c, sent)
    BY <1>1, <1>3
<1>5. /\ u \in Users /\ sent = TRUE /\ session[s].phase = "decide"
      /\ AtRest(u, s)'
      /\ to_us'[u][s] = <<Decision(c)>> /\ to_us[u][s] = <<>>
      /\ current[u][s] = [exists |-> TRUE, transaction |-> SessionTransaction(s)]
      /\ OnlyTo(u, s)
      /\ UNCHANGED <<account, current, from_us, aborted, faults>>
      /\ \A v \in Users, r \in Servers : link'[v][r] # "broken"
    BY <1>0, <1>4, DecisionSent, Zenon
<1>6. /\ session'[s].phase = "decide" /\ session'[s].leg = 1
      /\ session'[s].purpose = p /\ session'[s].can_commit = c
      /\ \A r \in Servers \ {s} : session'[r] = session[r]
    BY <1>0, <1>1, <1>2, <1>3, <1>5 DEF LiveSessions, CoordinatorTypeOK
<1>7. /\ p.kind = "EXCHANGE" /\ LegUser(p, 1) = p.seller /\ LegUser(p, 2) = p.buyer /\ p.buyer # p.seller
    BY <1>0, <1>1, <1>2, LegsOfTrade
<1>8. u = p.buyer
    BY <1>0, <1>1, <1>7 DEF SessionUser
<1>9. s = MarketServer
  <2>1. p \in Own(articles, s)
    BY <1>0, <1>2, LegsOfTrade
  <2>2. QED
    BY <1>7, <2>1 DEF Own, Servers
<1>10. TradeDecided <=> c
    BY <1>0, <1>3, <1>5, <1>7, <1>9 DEF TradeDecided
<1>11. TradeDecided' <=> c
    BY <1>6, <1>7, <1>9 DEF TradeDecided
<1>12. ASSUME NEW v \in Users
       PROVE  /\ Decided(v, s) <=> c /\ (v = p.seller \/ v = p.buyer)
              /\ Decided(v, s)' <=> c /\ v = p.seller
  <2>1. 1..2 = {1, 2} /\ 1..1 = {1}
    OBVIOUS
  <2>2. (\E leg \in 1..session[s].leg : LegUser(session[s].purpose, leg) = v) <=> (v = p.seller \/ v = p.buyer)
    BY <1>0, <1>1, <1>7, <2>1
  <2>3. (\E leg \in 1..session'[s].leg : LegUser(session'[s].purpose, leg) = v) <=> v = p.seller
    BY <1>6, <1>7, <2>1
  <2>4. QED
    BY <1>9, <1>10, <1>11, <2>2, <2>3 DEF Decided, LegUser
<1>13. ASSUME NEW v \in Users, NEW r \in Servers
       PROVE  Undisturbed(v, r)
  <2>1. CASE r # s
    <3>1. ~Decided(v, r) /\ ~Decided(v, r)'
        BY <1>9, <2>1 DEF Decided
    <3>2. to_us'[v][r] = to_us[v][r] /\ current'[v][r] = current[v][r]
        BY <1>5, <2>1 DEF OnlyTo
    <3>3. QED
        BY <3>1, <3>2, KeptUndisturbed
  <2>2. CASE r = s /\ v = u
    <3>1. CommitsIn(to_us'[v][r]) <=> c
        BY <1>5, <2>2, CommitQueued
    <3>2. ~CommitsIn(to_us[v][r])
        BY <1>5, <2>2, CommitQueued
    <3>3. Decided(v, r) <=> c
        BY <1>8, <1>12, <2>2
    <3>4. ~Decided(v, r)'
        BY <1>7, <1>8, <1>12, <2>2
    <3>5. current[v][r].exists /\ current'[v][r] = current[v][r]
        BY <1>5, <2>2
    <3>6. QED
        BY <3>1, <3>2, <3>3, <3>4, <3>5, WillCommitIs, WillCommitThen DEF Undisturbed
  <2>3. CASE r = s /\ v # u
    <3>1. Decided(v, r)' <=> Decided(v, r)
        BY <1>8, <1>12, <2>3
    <3>2. to_us'[v][r] = to_us[v][r] /\ current'[v][r] = current[v][r]
        BY <1>5, <2>3 DEF OnlyTo
    <3>3. QED
        BY <3>1, <3>2, KeptUndisturbed
  <2>4. QED
    BY <2>1, <2>2, <2>3
<1>14. QED
    BY <1>13 DEF NoneDisturbed
\* The decision on a trade that is not sent yet concerns a user whose commit is under way already;
\* any other decision starts the only commit of its session.
LEMMA FirstDecisionDisturbs ==
    ASSUME NEW articles, LegsInv(articles), TakingTurns, NEW s \in Servers, NEW commit \in BOOLEAN,
           NEW sent \in BOOLEAN, DecideFirstLeg(s, commit, sent), FaultsBounded, AllWell',
           session[s].purpose.kind = "EXCHANGE" => commit = session[s].can_commit
    PROVE  /\ sent = TRUE
           /\ session[s].purpose.kind = "EXCHANGE" => NoneDisturbed
           /\ session[s].purpose.kind # "EXCHANGE" =>
                /\ SessionUser(s) \in Users
                /\ OthersUndisturbed(SessionUser(s), s)
                /\ ~WillCommit(SessionUser(s), s)
                /\ current[SessionUser(s)][s] = [exists |-> TRUE, transaction |-> SessionTransaction(s)]
                /\ \A u : u = SessionUser(s) => (current'[u][s] = current[u][s] /\ (WillCommit(u, s)' <=> commit))
<1>0. PICK u, p : u = SessionUser(s) /\ p = session[s].purpose
    OBVIOUS
<1>1. SendDecision(s, commit, sent) /\ session[s].leg = 1 /\ ~Idle(s) /\ session[s].phase = "decide"
    BY DEF DecideFirstLeg, SendDecision, Idle
<1>2. session'[s].phase = "idle" /\ \A r \in Servers \ {s} : session'[r] = session[r]
    BY SessionEnded DEF LegsInv
<1>3. /\ u \in Users /\ sent = TRUE /\ session[s].phase = "decide"
      /\ AtRest(u, s)'
      /\ to_us'[u][s] = <<Decision(commit)>> /\ to_us[u][s] = <<>>
      /\ current[u][s] = [exists |-> TRUE, transaction |-> SessionTransaction(s)]
      /\ OnlyTo(u, s)
      /\ UNCHANGED <<account, current, from_us, aborted, faults>>
      /\ \A v \in Users, r \in Servers : link'[v][r] # "broken"
    BY <1>0, <1>1, DecisionSent, Zenon
<1>4. /\ current'[u][s] = current[u][s] /\ current[u][s].exists
      /\ CommitsIn(to_us'[u][s]) <=> commit
      /\ ~CommitsIn(to_us[u][s])
  <2>1. CommitsIn(<<Decision(commit)>>) <=> commit
    BY CommitQueued
  <2>2. ~CommitsIn(<<>>)
    BY CommitQueued
  <2>3. QED
    BY <1>3, <2>1, <2>2
<1>5. ASSUME NEW v \in Users, NEW r \in Servers, v # u \/ r # s
      PROVE  CommitsIn(to_us'[v][r]) <=> CommitsIn(to_us[v][r])
    BY <1>3, <1>5 DEF OnlyTo
<1>6. CASE p.kind = "EXCHANGE"
  <2>1. p.kind = "EXCHANGE" /\ LegUser(p, 1) = p.seller /\ p \in Own(articles, s)
    BY <1>0, <1>1, <1>6, LegsOfTrade
  <2>2. s = MarketServer /\ u = p.seller
    BY <1>0, <1>1, <2>1 DEF Own, Servers, SessionUser
  <2>3. /\ Decided(u, s) <=> commit
        /\ \A v : v # u => ~Decided(v, s)
        /\ \A v \in Users, r \in Servers : r # s => ~Decided(v, r)
        /\ \A v \in Users, r \in Servers : ~Decided(v, r)'
    <3>1. 1..1 = {1}
        OBVIOUS
    <3>2. TradeDecided <=> commit
        BY <1>0, <1>1, <1>6, <2>2 DEF TradeDecided
    <3>3. ~TradeDecided'
        BY <1>2, <2>2 DEF TradeDecided
    <3>4. \A v : (\E leg \in 1..session[s].leg : LegUser(session[s].purpose, leg) = v) <=> v = u
        BY <1>0, <1>1, <2>1, <2>2, <3>1
    <3>5. QED
        BY <2>2, <3>2, <3>3, <3>4 DEF Decided
  <2>4. Undisturbed(u, s)
    BY <1>3, <1>4, <2>3, WillCommitIs, WillCommitThen DEF Undisturbed
  <2>5. ASSUME NEW v \in Users, NEW r \in Servers, v # u \/ r # s
        PROVE  Undisturbed(v, r)
    <3>1. ~Decided(v, r) /\ ~Decided(v, r)'
        BY <2>3, <2>5
    <3>2. current'[v][r] = current[v][r]
        BY <1>3
    <3>3. QED
        BY <1>5, <2>5, <3>1, <3>2, KeptUndisturbed
  <2>6. QED
    BY <1>0, <1>3, <1>6, <2>4, <2>5 DEF NoneDisturbed
<1>7. CASE p.kind # "EXCHANGE"
  <2>1. session'[MarketServer] = session[MarketServer] \/ (~TradeDecided /\ ~TradeDecided')
    BY <1>0, <1>2, <1>7 DEF TradeDecided, Servers
  <2>2. ASSUME NEW v \in Users, NEW r \in Servers
        PROVE  Decided(v, r)' <=> Decided(v, r)
    BY <2>1, DecidedKept
  <2>3. ASSUME NEW v \in Users, NEW r \in Servers, v # u \/ r # s
        PROVE  Undisturbed(v, r)
    BY <1>3, <1>5, <2>2, <2>3, KeptUndisturbed
  <2>4. ~Decided(u, s)
    BY <1>0, <1>7 DEF Decided, TradeDecided
  <2>5. ~WillCommit(u, s) /\ (WillCommit(u, s)' <=> commit)
    BY <1>3, <1>4, <2>2, <2>4, WillCommitIs, WillCommitThen
  <2>6. OthersUndisturbed(u, s)
    BY <2>3 DEF OthersUndisturbed
  <2>7. \A x : x = SessionUser(s) => (current'[x][s] = current[x][s] /\ (WillCommit(x, s)' <=> commit))
    BY <1>0, <1>4, <2>5
  <2>8. QED
    BY <1>0, <1>3, <1>7, <2>5, <2>6, <2>7
<1>8. QED
    BY <1>6, <1>7

\* A vote may decide a trade: then the commits of both its legs are under way.
TradeAgreed(s) ==
    LET p == session[s].purpose
    IN  /\ s = MarketServer
        /\ session[s].phase = "vote" /\ TradeDecided'
        /\ p.kind = "EXCHANGE"
        /\ p.seller \in Users /\ p.buyer \in Users /\ p.seller # p.buyer
        /\ ~WillCommit(p.seller, s) /\ ~WillCommit(p.buyer, s)
        /\ current[p.seller][s] = [exists |-> TRUE, transaction |-> LegTransaction(p, 1, p.item)]
        /\ current[p.buyer][s] = [exists |-> TRUE, transaction |-> LegTransaction(p, 2, p.item)]
        /\ UNCHANGED current
        /\ \A u : u = p.seller \/ u = p.buyer => WillCommit(u, s)'
        /\ \A v \in Users, r \in Servers : ~(r = s /\ (v = p.seller \/ v = p.buyer)) => Undisturbed(v, r)

LEMMA VoteDisturbs ==
    ASSUME NEW articles, LegsInv(articles), LegsInv(articles)', TakingTurns, NEW s \in Servers, ReceiveVote(s)
    PROVE  \/ NoneDisturbed /\ (TradeDecided' => TradeDecided)
           \/ TradeAgreed(s)
<1>0. PICK p, item : p = session[s].purpose /\ item = session'[s].item
    OBVIOUS
<1>1. /\ session[s].phase = "vote" /\ ~Idle(s)
      /\ UNCHANGED <<current, to_us>>
    BY DEF ReceiveVote, Idle
<1>2. session[s] \in LiveSessions(articles) /\ session \in [Servers -> Sessions(articles)]
    BY <1>1, SessionIsLive DEF LegsInv, CoordinatorInv, CoordinatorTypeOK
<1>3. \A r \in Servers \ {s} : session'[r] = session[r]
    BY <1>2 DEF ReceiveVote, PrepareFails
<1>4. CASE session'[MarketServer] = session[MarketServer] \/ ~TradeDecided'
  <2>1. session'[MarketServer] = session[MarketServer] \/ (~TradeDecided /\ ~TradeDecided')
    BY <1>1, <1>3, <1>4 DEF TradeDecided, Servers
  <2>2. NoneDisturbed
    BY <1>1, <2>1, DecidedKept, KeptUndisturbed DEF NoneDisturbed
  <2>3. TradeDecided' => TradeDecided
    BY <2>1 DEF TradeDecided
  <2>4. QED
    BY <2>2, <2>3
<1>5. CASE session'[MarketServer] # session[MarketServer] /\ TradeDecided'
  <2>1. s = MarketServer
    BY <1>3, <1>5 DEF Servers
  <2>2. /\ session'[s].phase = "decide" /\ session'[s].can_commit = TRUE /\ session'[s].purpose = p
        /\ p.kind = "EXCHANGE" /\ session'[s].leg = 2 /\ session[s].leg = 2
    <3>1. session'[s].phase = "decide" /\ session'[s].can_commit /\ session'[s].purpose.kind = "EXCHANGE"
        BY <1>5, <2>1 DEF TradeDecided
    <3>2. session'[s].purpose = p
        BY <1>0, <1>1, <2>1, PurposeKept DEF CoordinatorStep, LegsInv, Idle
    <3>3. Legs(p) = 2 /\ session[s].leg \in {1, 2}
        BY <1>2, <3>1, <3>2 DEF Legs, LiveSessions
    <3>4. ~PrepareFails(s)
        BY <1>2, <3>1 DEF PrepareFails, LiveSessions
    <3>5. session[s].leg = Legs(session[s].purpose) /\ session'[s].leg = session[s].leg
        <4>1. PICK vote : vote = Head(from_us[SessionUser(s)][s])
            OBVIOUS
        <4>2. session' = [session EXCEPT
                    ![s].phase = IF session[s].leg = Legs(session[s].purpose) THEN "decide" ELSE "prepare",
                    ![s].leg   = IF session[s].leg = Legs(session[s].purpose) THEN @ ELSE @ + 1,
                    ![s].item  = IF session[s].leg = 1 THEN vote.item ELSE @,
                    ![s].slot  = vote.slot]
            BY <3>4, <4>1 DEF ReceiveVote
        <4>3. QED
            BY <1>2, <3>1, <4>2 DEF LiveSessions
    <3>6. session'[s].can_commit \in BOOLEAN
        <4>1. session'[s] \in Sessions(articles) /\ session'[s].phase # "idle"
            BY <3>1 DEF LegsInv, CoordinatorInv, CoordinatorTypeOK
        <4>2. QED
            BY <4>1 DEF Sessions, NoSession
    <3>7. QED
        BY <1>0, <3>1, <3>2, <3>3, <3>5, <3>6
  <2>3. /\ LegUser(p, 1) = p.seller /\ LegUser(p, 2) = p.buyer /\ p.buyer # p.seller
        /\ p.seller \in Users /\ p.buyer \in Users
    BY <1>0, <1>1, <2>2, LegsOfTrade
  <2>4. TakingTurns'
    BY TurnsAfterVote
  <2>5. item = p.item
    BY <1>0, <2>2, <2>4 DEF TakingTurns, ItemRead, Idle
  <2>6. current'[p.buyer][s] = [exists |-> TRUE, transaction |-> LegTransaction(p, 2, item)]
        /\ to_us'[p.buyer][s] = <<>>
    <3>1. SessionUser(s)' = p.buyer /\ ~Idle(s)'
        BY <2>2, <2>3 DEF SessionUser, LegUser, Idle
    <3>2. SessionTransaction(s)' = LegTransaction(p, 2, item)
        BY <1>0, <2>2 DEF SessionTransaction, LegTransaction, MoneyReceiverLeg, ItemReceiverLeg
    <3>3. Turn(p.buyer, s)'
        BY <2>3, <2>4 DEF TakingTurns
    <3>4. Voted(p.buyer, s, SessionTransaction(s))'
        BY <2>2, <3>1, <3>3 DEF Turn
    <3>5. QED
        BY <3>2, <3>4 DEF Voted
  <2>7. current'[p.seller][s] = [exists |-> TRUE, transaction |-> LegTransaction(p, 1, item)]
    <3>1. SessionUser(s)' = p.buyer /\ ~Idle(s)'
        BY <2>2, <2>3 DEF SessionUser, LegUser, Idle
    <3>2. LegTransaction(session'[s].purpose, 1, session'[s].item) = LegTransaction(p, 1, item)
        BY <1>0, <2>2
    <3>3. Turn(p.seller, s)'
        BY <2>3, <2>4 DEF TakingTurns
    <3>4. FirstLegVoted(p.seller, s)'
        BY <2>2, <2>3 DEF FirstLegVoted, LegUser
    <3>5. LegTransaction(session[s].purpose, 1, session[s].item)' = LegTransaction(p, 1, item)
        BY <1>0, <2>2 DEF LegTransaction, MoneyReceiverLeg
    <3>6. Voted(p.seller, s, LegTransaction(session[s].purpose, 1, session[s].item))'
        BY <2>3, <3>1, <3>3, <3>4 DEF Turn
    <3>7. QED
        BY <3>5, <3>6 DEF Voted
  <2>8. ~TradeDecided
    BY <1>1, <2>1 DEF TradeDecided
  <2>9. ASSUME NEW v
        PROVE  Decided(v, s)' <=> (v = p.seller \/ v = p.buyer)
    <3>1. 1..2 = {1, 2}
        OBVIOUS
    <3>2. (\E leg \in 1..session'[s].leg : LegUser(session'[s].purpose, leg) = v) <=> (v = p.seller \/ v = p.buyer)
        BY <2>2, <2>3, <3>1
    <3>3. QED
        BY <1>5, <2>1, <3>2 DEF Decided, LegUser
  <2>10. ASSUME NEW v \in {p.seller, p.buyer}
         PROVE  ~WillCommit(v, s) /\ WillCommit(v, s)'
    <3>1. Turn(v, s)
        BY <2>3 DEF TakingTurns
    <3>2. v = p.seller => v # SessionUser(s) /\ FirstLegVoted(v, s)
        BY <1>0, <2>2, <2>3 DEF SessionUser, FirstLegVoted
    <3>3. ~CommitsIn(to_us[v][s])
      <4>1. CASE v = p.seller
        <5>1. to_us[v][s] = <<>>
            BY <1>1, <3>1, <3>2, <4>1 DEF Turn, Voted
        <5>2. QED
            BY <5>1, CommitQueued
      <4>2. CASE v = p.buyer
        <5>1. to_us[v][s] = <<>>
            BY <1>1, <2>6, <4>2
        <5>2. QED
            BY <5>1, CommitQueued
      <4>3. QED
        BY <4>1, <4>2
    <3>4. ~Decided(v, s)
        BY <2>8 DEF Decided
    <3>5. current'[v][s].exists
        BY <2>6, <2>7
    <3>6. Decided(v, s)'
        BY <2>9
    <3>7. QED
        BY <3>3, <3>4, <3>5, <3>6, WillCommitIs, WillCommitThen
  <2>11. ASSUME NEW v \in Users, NEW r \in Servers, ~(r = s /\ (v = p.seller \/ v = p.buyer))
         PROVE  Undisturbed(v, r)
    <3>1. ~Decided(v, r)
        BY <2>8 DEF Decided
    <3>2. ~Decided(v, r)'
      <4>1. CASE r = s
        BY <2>9, <2>11, <4>1
      <4>2. CASE r # s
        BY <2>1, <4>2 DEF Decided
      <4>3. QED
        BY <4>1, <4>2
    <3>3. QED
        BY <1>1, <3>1, <3>2, KeptUndisturbed
  <2>12. QED
    BY <1>0, <1>1, <1>5, <2>1, <2>2, <2>3, <2>5, <2>6, <2>7, <2>10, <2>11 DEF TradeAgreed
<1>6. QED
    BY <1>4, <1>5

\* What may be on its way to a user server while nothing fails.
LEMMA QueueForms ==
    ASSUME NEW articles, LegsInv(articles), TakingTurns, NEW u \in Users, NEW s \in Servers
    PROVE  \/ to_us[u][s] = <<>>
           \/ \E c \in BOOLEAN : to_us[u][s] = <<Decision(c)>>
           \/ \E t : to_us[u][s] = <<Prepare(t)>>
           \/ \E c \in BOOLEAN : \E t : to_us[u][s] = <<Decision(c), Prepare(t)>>
<1> DEFINE Form == \/ to_us[u][s] = <<>>
                   \/ \E c \in BOOLEAN : to_us[u][s] = <<Decision(c)>>
                   \/ \E t : to_us[u][s] = <<Prepare(t)>>
                   \/ \E c \in BOOLEAN : \E t : to_us[u][s] = <<Decision(c), Prepare(t)>>
<1>1. Turn(u, s)
    BY DEF TakingTurns
<1>2. AtRest(u, s) => Form
    BY DEF AtRest
<1>3. \A t : Voted(u, s, t) => Form
    BY DEF Voted
<1>4. \A t : Asked(u, s, t) => Form
    BY DEF Asked
<1>5. ~Idle(s) => session[s].phase \in {"prepare", "vote", "decide"}
    BY SessionIsLive DEF LegsInv, CoordinatorInv, LiveSessions
<1> HIDE DEF Form
<1>6. Form
    BY <1>1, <1>2, <1>3, <1>4, <1>5 DEF Turn
<1>7. QED
    BY <1>6 DEF Form

\* The decision that is read first is the only one there is.
LEMMA CommitRead ==
    ASSUME NEW articles, LegsInv(articles), TakingTurns, NEW u \in Users, NEW s \in Servers, to_us[u][s] # <<>>
    PROVE  /\ ~CommitsIn(Tail(to_us[u][s]))
           /\ CommitsIn(to_us[u][s]) <=> Head(to_us[u][s]).message = "COMMIT"
           /\ ~Decided(u, s)
<1>1. ~Decided(u, s)
    BY DecidedVoted
<1>2. PICK q : q = to_us[u][s] /\ q # <<>>
    OBVIOUS
<1>3. CASE \E c \in BOOLEAN : q = <<Decision(c)>>
  <2>1. PICK c \in BOOLEAN : q = <<Decision(c)>>
    BY <1>3
  <2>2. Head(q) = Decision(c) /\ Tail(q) = <<>>
    BY <2>1, ShortQueues
  <2>3. (CommitsIn(q) <=> c) /\ ~CommitsIn(<<>>)
    BY <2>1, CommitQueued
  <2>4. Decision(c).message = "COMMIT" <=> c
    BY DEF Decision
  <2>5. QED
    BY <1>1, <1>2, <2>2, <2>3, <2>4
<1>4. CASE \E t : q = <<Prepare(t)>>
  <2>1. PICK t : q = <<Prepare(t)>>
    BY <1>4
  <2>2. Head(q) = Prepare(t) /\ Tail(q) = <<>>
    BY <2>1, ShortQueues
  <2>3. ~CommitsIn(q) /\ ~CommitsIn(<<>>)
    BY <2>1, CommitQueued
  <2>4. Prepare(t).message # "COMMIT"
    BY DEF Prepare
  <2>5. QED
    BY <1>1, <1>2, <2>2, <2>3, <2>4
<1>5. CASE \E c \in BOOLEAN : \E t : q = <<Decision(c), Prepare(t)>>
  <2>0. PICK c \in BOOLEAN : \E t : q = <<Decision(c), Prepare(t)>>
    BY <1>5
  <2>1. PICK t : q = <<Decision(c), Prepare(t)>>
    BY <2>0
  <2>2. Head(q) = Decision(c) /\ Tail(q) = <<Prepare(t)>>
    BY <2>1, ShortQueues
  <2>3. (CommitsIn(q) <=> c) /\ ~CommitsIn(<<Prepare(t)>>)
    BY <2>1, CommitQueued
  <2>4. Decision(c).message = "COMMIT" <=> c
    BY DEF Decision
  <2>5. QED
    BY <1>1, <1>2, <2>2, <2>3, <2>4
<1>6. \/ to_us[u][s] = <<>>
      \/ \E c \in BOOLEAN : to_us[u][s] = <<Decision(c)>>
      \/ \E t : to_us[u][s] = <<Prepare(t)>>
      \/ \E c \in BOOLEAN : \E t : to_us[u][s] = <<Decision(c), Prepare(t)>>
    BY QueueForms, Zenon
<1>7. \/ \E c \in BOOLEAN : q = <<Decision(c)>>
      \/ \E t : q = <<Prepare(t)>>
      \/ \E c \in BOOLEAN : \E t : q = <<Decision(c), Prepare(t)>>
    BY <1>2, <1>6
<1>8. QED
    BY <1>3, <1>4, <1>5, <1>7

\* Only the commit itself ends that a commit is under way.
LEMMA PacketDisturbs ==
    ASSUME NEW articles, LegsInv(articles), TakingTurns, NEW u \in Users, NEW s \in Servers, HandlePacket(u, s),
           UNCHANGED session, ~aborted'
    PROVE  /\ OthersUndisturbed(u, s)
           /\ HandleCommit(u, s) => WillCommit(u, s) /\ ~WillCommit(u, s)'
           /\ ~HandleCommit(u, s) => Undisturbed(u, s)
<1>1. UserServerTypeOK
    BY DEF LegsInv, CoordinatorInv, CoordinatorTypeOK
<1>2. /\ HandlePrepare(u, s) \/ HandleCommit(u, s) \/ HandleAbort(u, s)
      /\ to_us[u][s] # <<>> /\ ReadPacket(u, s)
    BY DEF HandlePacket, HandleUnexpected, HandlePrepare, HandleCommit, HandleAbort, Arrived
<1>3. /\ to_us'[u][s] = Tail(to_us[u][s])
      /\ \A v \in Users, r \in Servers : (v # u \/ r # s) => to_us'[v][r] = to_us[v][r]
    BY <1>1, <1>2 DEF ReadPacket, UserServerTypeOK
<1>4. \A v \in Users, r \in Servers : (v # u \/ r # s) => current'[v][r] = current[v][r]
    BY <1>1, <1>2 DEF HandlePrepare, HandleCommit, HandleAbort, UserServerTypeOK
<1>5. \A v \in Users, r \in Servers : Decided(v, r)' <=> Decided(v, r)
    BY DecidedKept
<1>6. /\ ~CommitsIn(to_us'[u][s])
      /\ CommitsIn(to_us[u][s]) <=> Head(to_us[u][s]).message = "COMMIT"
      /\ ~Decided(u, s)
  <2>1. /\ ~CommitsIn(Tail(to_us[u][s]))
        /\ CommitsIn(to_us[u][s]) <=> Head(to_us[u][s]).message = "COMMIT"
        /\ ~Decided(u, s)
    BY <1>2, CommitRead
  <2>2. QED
    BY <1>3, <2>1
<1>7. OthersUndisturbed(u, s)
  <2>1. ASSUME NEW v \in Users, NEW r \in Servers, v # u \/ r # s
        PROVE  Undisturbed(v, r)
    <3>1. to_us'[v][r] = to_us[v][r] /\ current'[v][r] = current[v][r]
        BY <1>3, <1>4, <2>1
    <3>2. QED
        BY <1>5, <3>1, KeptUndisturbed
  <2>2. QED
    BY <2>1 DEF OthersUndisturbed
<1>8. ~WillCommit(u, s)'
    BY <1>5, <1>6, WillCommitThen
<1>9. WillCommit(u, s) <=> (current[u][s].exists /\ Head(to_us[u][s]).message = "COMMIT")
    BY <1>6, WillCommitIs
<1>10. HandleCommit(u, s) => WillCommit(u, s)
    BY <1>9 DEF HandleCommit, Arrived
<1>11. ~HandleCommit(u, s) => ~WillCommit(u, s)
    BY <1>2, <1>9 DEF HandlePrepare, HandleAbort, Arrived
<1>12. QED
    BY <1>7, <1>8, <1>10, <1>11 DEF Undisturbed

LEMMA IdleDisturbsNone ==
    ASSUME UNCHANGED <<session, to_us, current>>
    PROVE  NoneDisturbed
<1>1. ASSUME NEW u \in Users, NEW s \in Servers
      PROVE  Undisturbed(u, s)
    BY DecidedKept, KeptUndisturbed
<1>2. QED
    BY <1>1 DEF NoneDisturbed

-----------------------------------------------------------------------------
\* What a coordinator's own step does to the commits under way.
LEMMA CoordinatorDisturbs ==
    ASSUME NEW articles, LegsInv(articles), TakingTurns, NEW s \in Servers, CoordinatorStep(s), FaultsBounded, AllWell'
    PROVE  NoneDisturbed \/ TradeAgreed(s)
<1>1. LegsInv(articles)' /\ faults \in Faults
    BY CoordinatorKeepsLegs DEF LegsInv, CoordinatorInv, CoordinatorTypeOK
<1>2. CASE SendPrepare(s)
    BY <1>2, PrepareDisturbsNone
<1>3. CASE ReceiveVote(s)
    BY <1>1, <1>3, VoteDisturbs
<1>4. CASE ReadTimeout(s)
    BY <1>1, <1>4, FaultTaken DEF ReadTimeout
<1>5. CASE ReadFails(s)
  <2>1. SessionUser(s) \in Users
    BY <1>5, SessionAsksForLeg DEF ReadFails, Idle
  <2>2. QED
    BY <1>5, <2>1 DEF TakingTurns, ReadFails
<1>6. CASE DecideSecondLeg(s)
    BY <1>6, SecondDecisionDisturbsNone
<1>7. QED
    BY <1>2, <1>3, <1>4, <1>5, <1>6 DEF CoordinatorStep
=============================================================================
