---------------------------- MODULE MarketProofs ----------------------------
(***************************************************************************)
(* What the market does to the books at the user server, and that its      *)
(* matching always finds the best match it looks for and its book always   *)
(* holds well-formed orders; and, of settled accounts and a settled book,  *)
(* what keeps orders backed and makes a trade one step of Trading.         *)
(***************************************************************************)
EXTENDS MarketProperties, CoordinatorProofs

\* A pass is at an order of the book, and an exchange is for an order that has a match.
PassOnTrack ==
    /\ matching # NoPass => matching.i > 0
    /\ ~Idle(MarketServer) /\ session[MarketServer].purpose.kind = "EXCHANGE"
        => matching # NoPass /\ Matches(orders[matching.article], matching.i) # {}

MarketInv ==
    /\ CoordinatorInv(Articles)
    /\ orders \in [Articles -> Seq(Market_Order)]
    /\ matching \in {NoPass} \cup [article : Articles, i : Nat]
    /\ PassOnTrack

-----------------------------------------------------------------------------
\* Among finitely many candidates there is a first of those with the least value.
LEMMA FirstOfTheLeast ==
    ASSUME NEW N \in Nat, NEW S \in SUBSET (1..N), NEW c \in [S -> Int], S # {}
    PROVE  \E j \in S : \A k \in S : c[j] < c[k] \/ (c[j] = c[k] /\ j <= k)
<1> DEFINE Upto(n) == {j \in S : j <= n}
           Best(j, n) == j \in Upto(n) /\ \A k \in Upto(n) : c[j] < c[k] \/ (c[j] = c[k] /\ j <= k)
           Counter == {n \in Nat : Upto(n) # {} /\ \A j : ~Best(j, n)}
           Less == {ss \in Nat \X Nat : ss[1] < ss[2]}
<1>1. ASSUME Counter # {}
      PROVE  FALSE
  <2>1. IsWellFoundedOn(Less, Nat)
    BY NatLessThanWellFounded DEF OpToRel
  <2>2. Counter \subseteq Nat
    OBVIOUS
  <2> HIDE DEF Counter
  <2>3. PICK n \in Counter : \A m \in Counter : ~(<<m, n>> \in Less)
    BY <1>1, <2>1, <2>2, WFMin, ZenonT(40)
  <2>4. n \in Nat /\ Upto(n) # {} /\ \A j : ~Best(j, n)
    BY <2>3 DEF Counter
  <2>5. n > 0
    BY <2>4
  <2>6. n - 1 \in Nat /\ n - 1 < n
    BY <2>4, <2>5
  <2>7. <<n - 1, n>> \in Less
    BY <2>4, <2>6
  <2>8. n - 1 \notin Counter
    BY <2>3, <2>7
  <2>9. Upto(n - 1) = {} \/ \E j : Best(j, n - 1)
    BY <2>6, <2>8 DEF Counter
  <2>10. CASE n \notin S
    <3>1. \A k \in S : k <= n <=> k <= n - 1
        BY <2>4, <2>6, <2>10
    <3>2. Upto(n) = Upto(n - 1)
        BY <3>1, Zenon
    <3>3. CASE Upto(n - 1) = {}
        BY <2>4, <3>2, <3>3
    <3>4. CASE \E j : Best(j, n - 1)
        <4>1. PICK j : Best(j, n - 1)
            BY <3>4
        <4>2. Best(j, n)
            BY <3>2, <4>1
        <4>3. QED
            BY <2>4, <4>2
    <3>5. QED
        BY <2>9, <3>3, <3>4
  <2>11. CASE n \in S
    <3>1. \A k \in Upto(n) : k = n \/ k \in Upto(n - 1)
        BY <2>4, <2>6
    <3>2. n \in Upto(n)
        BY <2>4, <2>11
    <3>3. CASE Upto(n - 1) = {}
        <4>1. Best(n, n)
            BY <3>1, <3>2, <3>3
        <4>2. QED
            BY <2>4, <4>1
    <3>4. CASE \E j : Best(j, n - 1)
        <4>1. PICK j : Best(j, n - 1)
            BY <3>4
        <4>2. j \in S /\ j <= n - 1 /\ j \in Int /\ c[j] \in Int /\ c[n] \in Int /\ j <= n
            BY <2>4, <2>11, <4>1
        <4>3. \A k \in Upto(n - 1) : c[j] < c[k] \/ (c[j] = c[k] /\ j <= k)
            BY <4>1
        <4>4. CASE c[j] <= c[n]
            <5>1. Best(j, n)
                BY <3>1, <4>2, <4>3, <4>4
            <5>2. QED
                BY <2>4, <5>1
        <4>5. CASE c[n] < c[j]
            <5>1. \A k \in Upto(n - 1) : c[n] < c[k]
                BY <4>2, <4>3, <4>5
            <5>2. Best(n, n)
                BY <3>1, <3>2, <4>2, <5>1
            <5>3. QED
                BY <2>4, <5>2
        <4>6. QED
            BY <4>2, <4>4, <4>5
    <3>5. QED
        BY <2>9, <3>3, <3>4
  <2>12. QED
    BY <2>10, <2>11
<1>2. Upto(N) = S
  <2>1. \A j \in S : j <= N
    OBVIOUS
  <2>2. QED
    BY <2>1, Zenon
<1>3. \E j : Best(j, N)
    BY <1>1, <1>2
<1>4. QED
    BY <1>2, <1>3

LEMMA OrderTypes ==
    ASSUME NEW o \in Market_Order
    PROVE  /\ o.user \in Users /\ o.price \in Prices /\ o.price \in Nat
           /\ o.is_buy_order = TRUE => o.slot \in Slots
           /\ o.is_buy_order = FALSE => o.item \in Item
           /\ o.is_buy_order = TRUE \/ o.is_buy_order = FALSE
           /\ MoneyDelta(o) \in Int
<1>1. o.user \in Users /\ o.price \in Prices
    BY DEF Market_Order
<1>2. o.price \in Nat
    BY <1>1, PricesAssumption, Zenon
<1>3. /\ o.is_buy_order = TRUE => o.slot \in Slots
      /\ o.is_buy_order = FALSE => o.item \in Item
      /\ o.is_buy_order = TRUE \/ o.is_buy_order = FALSE
    BY DEF Market_Order
<1>4. MoneyDelta(o) \in Int
    BY <1>2 DEF MoneyDelta
<1>5. QED
    BY <1>1, <1>2, <1>3, <1>4

\* best_match_ix is found whenever there is a match (market_server.cpp:760-781), and it is an
\* order after the one it is matched with.
LEMMA BestMatchMatches ==
    ASSUME NEW os \in Seq(Market_Order), NEW i \in Nat \ {0}, Matches(os, i) # {}
    PROVE  /\ BestMatch(os, i) \in Matches(os, i)
           /\ i \in 1..Len(os) /\ BestMatch(os, i) \in (i+1)..Len(os)
<1> DEFINE S == Matches(os, i)
           c == [j \in S |-> Combined(os, i, j)]
<1>1. Len(os) \in Nat /\ S \subseteq (i+1)..Len(os)
    BY DEF Matches
<1>2. i \in 1..Len(os) /\ S \subseteq 1..Len(os)
    BY <1>1
<1>3. \A j \in S : Combined(os, i, j) \in Int
  <2> SUFFICES ASSUME NEW j \in S PROVE Combined(os, i, j) \in Int
    OBVIOUS
  <2>1. os[i] \in Market_Order /\ os[j] \in Market_Order
    BY <1>2, ElementOfSeq
  <2>2. MoneyDelta(os[i]) \in Int /\ MoneyDelta(os[j]) \in Int
    BY <2>1, OrderTypes
  <2>3. QED
    BY <2>2 DEF Combined
<1>4. c \in [S -> Int]
    BY <1>3
<1>5. \E j \in S : \A k \in S : c[j] < c[k] \/ (c[j] = c[k] /\ j <= k)
  <2> HIDE DEF c, S
  <2>1. S # {}
    BY DEF S
  <2>2. QED
    BY <1>1, <1>2, <1>4, <2>1, FirstOfTheLeast
<1>6. \E j \in S : \A k \in S : \/ Combined(os, i, j) < Combined(os, i, k)
                                \/ Combined(os, i, j) = Combined(os, i, k) /\ j <= k
  <2>1. PICK j \in S : \A k \in S : c[j] < c[k] \/ (c[j] = c[k] /\ j <= k)
    BY <1>5
  <2>2. \A k \in S : c[k] = Combined(os, i, k)
    OBVIOUS
  <2> HIDE DEF c, S
  <2>3. QED
    BY <2>1, <2>2
<1>7. BestMatch(os, i) \in S
    BY <1>6 DEF BestMatch
<1>8. QED
    BY <1>1, <1>2, <1>7

LEMMA RemovedIsSequence ==
    ASSUME NEW R, NEW q \in Seq(R), NEW i \in 1..Len(q)
    PROVE  RemoveAt(q, i) \in Seq(R) /\ Len(RemoveAt(q, i)) = Len(q) - 1
<1> DEFINE before == SubSeq(q, 1, i - 1)
           after  == SubSeq(q, i + 1, Len(q))
<1>1. Len(q) \in Nat /\ i \in Nat /\ i > 0 /\ i <= Len(q)
    OBVIOUS
<1>2. (\A k \in 1..(i - 1) : q[k] \in R) /\ (\A k \in (i + 1)..Len(q) : q[k] \in R)
    BY <1>1, ElementOfSeq
<1>3. before \in Seq(R) /\ Len(before) = i - 1
  <2>1. 1 \in Int /\ i - 1 \in Int
    BY <1>1
  <2>2. before \in Seq(R) /\ Len(before) = IF 1 <= i - 1 THEN (i - 1) - 1 + 1 ELSE 0
    BY <1>2, <2>1, SubSeqProperties
  <2> HIDE DEF before
  <2>3. QED
    BY <1>1, <2>2
<1>4. after \in Seq(R) /\ Len(after) = Len(q) - i
  <2>1. i + 1 \in Int /\ Len(q) \in Int
    BY <1>1
  <2>2. after \in Seq(R) /\ Len(after) = IF i + 1 <= Len(q) THEN Len(q) - (i + 1) + 1 ELSE 0
    BY <1>2, <2>1, SubSeqProperties
  <2> HIDE DEF after
  <2>3. QED
    BY <1>1, <2>2
<1>5. RemoveAt(q, i) = before \o after
    BY DEF RemoveAt
<1> HIDE DEF before, after
<1>6. before \o after \in Seq(R) /\ Len(before \o after) = Len(before) + Len(after)
    BY <1>3, <1>4, ConcatProperties
<1>7. (i - 1) + (Len(q) - i) = Len(q) - 1
    BY <1>1
<1>8. QED
    BY <1>3, <1>4, <1>5, <1>6, <1>7, Zenon

\* The exchange of a bid and an ask is a purpose a session can have.
LEMMA TradesArePurposes ==
    ASSUME NEW os \in Seq(Market_Order), NEW i \in Nat \ {0}, NEW j \in Matches(os, i)
    PROVE  TradeOf(os, i, j) \in Purposes(Articles)
<1> DEFINE buy  == IF os[i].is_buy_order THEN os[i] ELSE os[j]
           sell == IF os[i].is_buy_order THEN os[j] ELSE os[i]
<1>1. i \in 1..Len(os) /\ j \in 1..Len(os) /\ os[i].is_buy_order # os[j].is_buy_order
    BY DEF Matches
<1>2. os[i] \in Market_Order /\ os[j] \in Market_Order
    BY <1>1, ElementOfSeq
<1>3. /\ buy \in Market_Order /\ buy.is_buy_order = TRUE
      /\ sell \in Market_Order /\ sell.is_buy_order = FALSE
    BY <1>1, <1>2, OrderTypes
<1> HIDE DEF buy, sell
<1>4. /\ buy.user \in Users /\ sell.user \in Users /\ sell.item \in Item /\ buy.slot \in Slots
      /\ buy.price \in Prices /\ sell.price \in Prices
    BY <1>3, OrderTypes
<1>5. Min({buy.price, sell.price}) \in Prices
  <2>1. {buy.price, sell.price} \in SUBSET Nat /\ {buy.price, sell.price} # {}
    BY <1>4, PricesAssumption
  <2>2. Min({buy.price, sell.price}) \in {buy.price, sell.price}
    BY <2>1, MinIsMember
  <2>3. QED
    BY <1>4, <2>2
<1>6. TradeOf(os, i, j) = Exchange(buy.user, sell.user, sell.item, buy.slot, buy.price,
                                   Min({buy.price, sell.price}))
    BY DEF TradeOf, buy, sell
<1>7. QED
    BY <1>4, <1>5, <1>6 DEF Exchange, Purposes

-----------------------------------------------------------------------------
LEMMA PassKept ==
    ASSUME PassOnTrack, UNCHANGED marketVars,
           session'[MarketServer].phase # "idle" => session[MarketServer].phase # "idle",
           session[MarketServer].phase # "idle" =>
                session'[MarketServer].purpose = session[MarketServer].purpose
    PROVE  PassOnTrack'
BY DEF PassOnTrack, Idle, marketVars

LEMMA NoExchangeKeepsPass ==
    ASSUME PassOnTrack, UNCHANGED matching,
           session'[MarketServer].phase = "idle" \/ session'[MarketServer].purpose.kind # "EXCHANGE"
    PROVE  PassOnTrack'
BY DEF PassOnTrack, Idle

-----------------------------------------------------------------------------
LEMMA MarketCoordinatorKeepsBooks ==
    ASSUME MarketInv, NEW s \in Servers, CoordinatorStep(s), UNCHANGED marketVars
    PROVE  MarketInv'
<1>1. CoordinatorInv(Articles)'
    BY CoordinatorKeepsBooks DEF MarketInv
<1>2. MarketServer \in Servers
    BY DEF Servers
<1>3. PassOnTrack'
    BY <1>2, PurposeKept, PassKept DEF MarketInv
<1>4. QED
    BY <1>1, <1>3 DEF MarketInv, marketVars

LEMMA PlaceOrderKeepsBooks ==
    ASSUME MarketInv, NEW u \in Users, PlaceOrder(u)
    PROVE  MarketInv'
<1>1. PICK p \in Purposes(Articles) : Begin(MarketServer, p) /\ p.kind # "EXCHANGE"
  <2>1. CASE \E a \in Articles, x \in Prices : Begin(MarketServer, Buy(u, a, x))
    BY <2>1 DEF Buy, Purposes
  <2>2. CASE \E it \in Items, x \in Prices : Begin(MarketServer, Sell(u, it, x))
    BY <2>2 DEF Sell, Purposes
  <2>3. QED
    BY <2>1, <2>2 DEF PlaceOrder
<1>2. UNCHANGED marketVars /\ MarketServer \in Servers
    BY DEF PlaceOrder, Servers
<1>3. CoordinatorInv(Articles)'
    BY <1>1, <1>2, BeginKeepsBooks DEF MarketInv
<1>4. session'[MarketServer].purpose.kind # "EXCHANGE"
    BY <1>1, <1>2, SessionBegun DEF MarketInv
<1>5. PassOnTrack'
    BY <1>2, <1>4, NoExchangeKeepsPass DEF MarketInv, marketVars
<1>6. QED
    BY <1>2, <1>3, <1>5 DEF MarketInv, marketVars

\* An order that comes to stand is well formed: the slot and the item of a vote are a slot and
\* an item.
LEMMA FinishPlaceOrderKeepsBooks ==
    ASSUME MarketInv, NEW sent \in BOOLEAN, FinishPlaceOrder(sent)
    PROVE  MarketInv'
<1> DEFINE it == session[MarketServer]
           p  == it.purpose
<1>1. /\ ~Idle(MarketServer) /\ p.kind \in {"BUY", "SELL"}
      /\ DecideFirstLeg(MarketServer, it.can_commit, sent)
      /\ UNCHANGED matching
    BY DEF FinishPlaceOrder
<1>2. MarketServer \in Servers /\ CoordinatorTypeOK(Articles)
    BY DEF Servers, MarketInv, CoordinatorInv
<1>3. it \in LiveSessions(Articles)
    BY <1>1, <1>2, SessionIsLive
<1>4. p \in Purposes(Articles) /\ it.item \in Item /\ it.slot \in Slots
    BY <1>3 DEF LiveSessions
<1>5. CoordinatorInv(Articles)' /\ session'[MarketServer].phase = "idle"
    BY <1>1, <1>2, DecideFirstLegKeepsBooks, SessionEnded DEF MarketInv
<1>6. PassOnTrack'
    BY <1>1, <1>5, NoExchangeKeepsPass DEF MarketInv
<1>7. orders' \in [Articles -> Seq(Market_Order)]
  <2>0. orders \in [Articles -> Seq(Market_Order)]
    BY DEF MarketInv
  <2>1. CASE orders' = orders
    BY <2>0, <2>1
  <2>2. CASE /\ p.kind = "BUY"
             /\ orders' = [orders EXCEPT ![p.article] = Append(@, BuyOrder(p.user, p.price, it.slot))]
    <3> DEFINE o == BuyOrder(p.user, p.price, it.slot)
    <3>1. p.article \in Articles /\ p.user \in Users /\ p.price \in Prices
        BY <1>4, <2>2 DEF Purposes
    <3>2. o \in Market_Order
        BY <1>4, <3>1 DEF BuyOrder, Market_Order
    <3> HIDE DEF o
    <3>3. QED
        BY <2>0, <2>2, <3>1, <3>2 DEF o
  <2>3. CASE /\ p.kind = "SELL"
             /\ orders' = [orders EXCEPT ![ItemType[it.item]] = Append(@, SellOrder(p.user, p.price, it.item))]
    <3> DEFINE o == SellOrder(p.user, p.price, it.item)
               a == ItemType[it.item]
    <3>1. a \in Articles
        BY <1>4, ItemTypeAssumption
    <3>2. p.user \in Users /\ p.price \in Prices
        BY <1>4, <2>3 DEF Purposes
    <3>3. o \in Market_Order
        BY <1>4, <3>2 DEF SellOrder, Market_Order
    <3>4. orders' = [orders EXCEPT ![a] = Append(@, o)]
        BY <2>3
    <3> HIDE DEF o, a
    <3>5. QED
        BY <2>0, <3>1, <3>3, <3>4
  <2>4. QED
    BY <1>1, <2>1, <2>2, <2>3 DEF FinishPlaceOrder
<1>8. QED
    BY <1>1, <1>5, <1>6, <1>7 DEF MarketInv

LEMMA ExchangeNextKeepsBooks ==
    ASSUME MarketInv, NEW a \in Articles, NEW from \in Nat \ {0}, ExchangeNext(a, from)
    PROVE  MarketInv'
<1> DEFINE os == orders[a]
           M  == Matchable(os, from)
           i  == Min(M)
           p  == TradeOf(os, i, BestMatch(os, i))
<1>1. /\ M # {} /\ Begin(MarketServer, p)
      /\ matching' = [article |-> a, i |-> i] /\ UNCHANGED orders
    BY DEF ExchangeNext
<1>2. os \in Seq(Market_Order) /\ MarketServer \in Servers
    BY DEF MarketInv, Servers
<1>3. i \in Nat \ {0} /\ Matches(os, i) # {}
  <2>1. M \in SUBSET Nat /\ \A k \in M : k # 0 /\ Matches(os, k) # {}
    <3>1. M \subseteq from..Len(os) /\ \A k \in M : Matches(os, k) # {}
        BY DEF Matchable
    <3>2. \A k \in from..Len(os) : k \in Nat /\ k # 0
        OBVIOUS
    <3>3. QED
        BY <3>1, <3>2
  <2>2. i \in M
    <3> HIDE DEF M
    <3>1. QED
        BY <1>1, <2>1, MinIsMember
  <2>3. QED
    BY <2>1, <2>2
<1> HIDE DEF i
<1>4. BestMatch(os, i) \in Matches(os, i)
    BY <1>2, <1>3, BestMatchMatches
<1>5. p \in Purposes(Articles)
    BY <1>2, <1>3, <1>4, TradesArePurposes
<1>6. CoordinatorInv(Articles)' /\ session'[MarketServer].purpose = p
    BY <1>1, <1>2, <1>5, BeginKeepsBooks, SessionBegun DEF MarketInv
<1>7. /\ matching' \in [article : Articles, i : Nat]
      /\ matching'.article = a /\ matching'.i = i
    BY <1>1, <1>3
<1>8. PassOnTrack'
  <2>1. matching'.i > 0 /\ matching' # NoPass
    BY <1>3, <1>7 DEF NoPass
  <2>2. Matches(orders', i) = Matches(orders, i)
    BY <1>1
  <2>3. Matches(orders'[matching'.article], matching'.i) # {}
    BY <1>1, <1>3, <1>7
  <2>4. QED
    BY <2>1, <2>3 DEF PassOnTrack
<1>9. QED
    BY <1>1, <1>6, <1>7, <1>8 DEF MarketInv

LEMMA PassesKeepBooks ==
    ASSUME MarketInv, (\E a \in Articles : BeginPass(a)) \/ ContinuePass
    PROVE  MarketInv'
<1>1. CASE \E a \in Articles : BeginPass(a)
    BY <1>1, ExchangeNextKeepsBooks DEF BeginPass
<1>2. CASE matching # NoPass /\ ExchangeNext(matching.article, matching.i)
  <2>1. matching.article \in Articles /\ matching.i \in Nat \ {0}
    BY <1>2 DEF MarketInv, PassOnTrack
  <2>2. QED
    BY <1>2, <2>1, ExchangeNextKeepsBooks
<1>3. CASE Idle(MarketServer) /\ matching' = NoPass /\ UNCHANGED <<coordinatorVars, orders>>
  <2>1. CoordinatorInv(Articles)'
    BY <1>3, StutteringKeepsBooks DEF MarketInv
  <2>2. PassOnTrack'
    BY <1>3 DEF PassOnTrack, Idle, coordinatorVars
  <2>3. QED
    BY <1>3, <2>1, <2>2 DEF MarketInv
<1>4. QED
    BY <1>1, <1>2, <1>3 DEF ContinuePass

\* The two orders removed after a trade are orders of the book.
LEMMA FinishExchangeKeepsBooks ==
    ASSUME MarketInv, NEW sent \in BOOLEAN, FinishExchange(sent)
    PROVE  MarketInv'
<1> DEFINE a  == matching.article
           os == orders[a]
           i  == matching.i
           j  == BestMatch(os, i)
<1>1. /\ ~Idle(MarketServer) /\ session[MarketServer].purpose.kind = "EXCHANGE"
      /\ DecideFirstLeg(MarketServer, session[MarketServer].can_commit, sent)
      /\ \/ /\ orders' = [orders EXCEPT ![a] = RemoveAt(RemoveAt(os, j), i)]
            /\ UNCHANGED matching
         \/ /\ matching' = [matching EXCEPT !.i = @ + 1]
            /\ UNCHANGED orders
    BY DEF FinishExchange
<1>2. MarketServer \in Servers
    BY DEF Servers
<1>3. CoordinatorInv(Articles)' /\ session'[MarketServer].phase = "idle"
    BY <1>1, <1>2, DecideFirstLegKeepsBooks, SessionEnded DEF MarketInv
<1>4. /\ matching # NoPass /\ i > 0 /\ Matches(os, i) # {}
      /\ matching \in [article : Articles, i : Nat]
    BY <1>1 DEF MarketInv, PassOnTrack
<1>5. a \in Articles /\ i \in Nat \ {0} /\ os \in Seq(Market_Order)
    BY <1>4 DEF MarketInv
<1>6. CASE orders' = [orders EXCEPT ![a] = RemoveAt(RemoveAt(os, j), i)] /\ UNCHANGED matching
  <2> DEFINE fewer == RemoveAt(os, j)
             rest  == RemoveAt(fewer, i)
  <2>1. i \in 1..Len(os) /\ j \in (i+1)..Len(os)
    BY <1>4, <1>5, BestMatchMatches
  <2>2. j \in 1..Len(os) /\ i \in 1..(Len(os) - 1)
    BY <1>5, <2>1
  <2>3. fewer \in Seq(Market_Order) /\ Len(fewer) = Len(os) - 1
    BY <1>5, <2>2, RemovedIsSequence
  <2> HIDE DEF fewer
  <2>4. rest \in Seq(Market_Order)
    BY <2>2, <2>3, RemovedIsSequence
  <2>5. orders' = [orders EXCEPT ![a] = rest]
    BY <1>6 DEF fewer
  <2> HIDE DEF rest
  <2>6. orders' \in [Articles -> Seq(Market_Order)]
    BY <2>4, <2>5 DEF MarketInv
  <2>7. PassOnTrack'
    BY <1>3, <1>6, NoExchangeKeepsPass DEF MarketInv
  <2>8. QED
    BY <1>3, <1>6, <2>6, <2>7 DEF MarketInv
<1>7. CASE matching' = [matching EXCEPT !.i = @ + 1] /\ UNCHANGED orders
  <2>1. matching' \in [article : Articles, i : Nat] /\ matching'.i > 0
    BY <1>4, <1>7
  <2>2. PassOnTrack'
    BY <1>3, <2>1 DEF PassOnTrack, Idle
  <2>3. QED
    BY <1>3, <1>7, <2>1, <2>2 DEF MarketInv
<1>8. QED
    BY <1>1, <1>6, <1>7

LEMMA MarketTurnKeepsBooks ==
    ASSUME MarketInv, MarketTurn
    PROVE  MarketInv'
<1>1. MarketServer \in Servers
    BY DEF Servers
<1>2. QED
    BY <1>1, MarketCoordinatorKeepsBooks, PlaceOrderKeepsBooks, FinishPlaceOrderKeepsBooks,
       PassesKeepBooks, FinishExchangeKeepsBooks DEF MarketTurn

LEMMA OthersKeepBooks ==
    ASSUME MarketInv, UNCHANGED marketVars, UserServerTurn \/ Disconnect \/ UNCHANGED coordinatorVars
    PROVE  MarketInv'
<1>1. CoordinatorInv(Articles)'
    BY UserServerTurnKeepsBooks, DisconnectKeepsBooks, StutteringKeepsBooks DEF MarketInv
<1>2. UNCHANGED session
    BY DEF UserServerTurn, Disconnect, coordinatorVars
<1>3. PassOnTrack'
    BY <1>2, PassKept DEF MarketInv
<1>4. QED
    BY <1>1, <1>3 DEF MarketInv, marketVars

LEMMA InitialMarket ==
    ASSUME Init
    PROVE  MarketInv
<1>1. CoordinatorInv(Articles)
    BY InitialCoordinators DEF Init
<1>2. /\ orders \in [Articles -> Seq(Market_Order)]
      /\ matching = NoPass
    BY EmptySeq DEF Init, MarketInit
<1>3. PassOnTrack
    BY <1>2 DEF Init, CoordinatorInit, NoSession, PassOnTrack, Idle, Servers
<1>4. QED
    BY <1>1, <1>2, <1>3 DEF MarketInv

-----------------------------------------------------------------------------
\* The market server trades between two users, at a price the buyer has bid.
LEMMA TradesAreOwn ==
    ASSUME NEW os \in Seq(Market_Order), NEW i \in Nat \ {0}, NEW j \in Matches(os, i)
    PROVE  TradeOf(os, i, j) \in Own(Articles, MarketServer)
<1> DEFINE buy  == IF os[i].is_buy_order THEN os[i] ELSE os[j]
           sell == IF os[i].is_buy_order THEN os[j] ELSE os[i]
           p == TradeOf(os, i, j)
<1>1. p \in Purposes(Articles)
    BY TradesArePurposes
<1>2. /\ i \in 1..Len(os) /\ j \in 1..Len(os)
      /\ os[i].is_buy_order # os[j].is_buy_order
      /\ os[i].user # os[j].user
    BY DEF Matches
<1>3. os[i] \in Market_Order /\ os[j] \in Market_Order
    BY <1>2, ElementOfSeq
<1>4. buy.price \in Nat /\ sell.price \in Nat
    BY <1>3, OrderTypes
<1>5. Min({buy.price, sell.price}) <= buy.price
  <2> HIDE DEF buy, sell
  <2>1. {buy.price, sell.price} \in SUBSET Nat /\ {buy.price, sell.price} # {} /\ buy.price \in {buy.price, sell.price}
    BY <1>4
  <2>2. QED
    BY <2>1, MinIsMember
<1>6. buy.user # sell.user
    BY <1>2
<1>7. /\ p.kind = "EXCHANGE" /\ p.buyer = buy.user /\ p.seller = sell.user
      /\ p.price = Min({buy.price, sell.price}) /\ p.bid = buy.price
    BY DEF TradeOf, Exchange
<1>8. QED
    BY <1>1, <1>5, <1>6, <1>7 DEF Own

LEMMA OrdersAreOwn ==
    ASSUME NEW u \in Users, NEW x \in Prices
    PROVE  /\ \A a \in Articles : Buy(u, a, x) \in Own(Articles, MarketServer)
           /\ \A it \in Items : Sell(u, it, x) \in Own(Articles, MarketServer)
<1>1. \A a \in Articles : Buy(u, a, x) \in Purposes(Articles) /\ Buy(u, a, x).kind = "BUY"
    BY DEF Buy, Purposes
<1>2. \A it \in Items : Sell(u, it, x) \in Purposes(Articles) /\ Sell(u, it, x).kind = "SELL"
    BY DEF Sell, Purposes
<1>3. QED
    BY <1>1, <1>2 DEF Own

\* The trade a pass goes on with.
LEMMA NextTrade ==
    ASSUME MarketInv, NEW a \in Articles, NEW from \in Nat \ {0}, ExchangeNext(a, from)
    PROVE  \E i \in Nat \ {0}, p \in Own(Articles, MarketServer) :
                /\ i \in 1..Len(orders[a]) /\ Matches(orders[a], i) # {}
                /\ p = TradeOf(orders[a], i, BestMatch(orders[a], i))
                /\ Begin(MarketServer, p)
                /\ matching' = [article |-> a, i |-> i]
                /\ UNCHANGED orders
<1> DEFINE os == orders[a]
           M  == Matchable(os, from)
<1>1. M \in SUBSET Nat /\ \A k \in M : k # 0 /\ k \in 1..Len(os) /\ Matches(os, k) # {}
  <2>1. M \subseteq from..Len(os) /\ \A k \in M : Matches(os, k) # {}
    BY DEF Matchable
  <2>2. \A k \in from..Len(os) : k \in Nat /\ k # 0 /\ k <= Len(os)
    OBVIOUS
  <2>3. os \in Seq(Market_Order)
    BY DEF MarketInv
  <2>4. QED
    BY <2>1, <2>2, <2>3
<1>2. PICK i : i = Min(M)
    OBVIOUS
<1>3. M # {} /\ i \in M
  <2>1. M # {}
    BY DEF ExchangeNext
  <2> HIDE DEF M
  <2>2. QED
    BY <1>1, <1>2, <2>1, MinIsMember
<1>4. os \in Seq(Market_Order)
    BY DEF MarketInv
<1>5. BestMatch(os, i) \in Matches(os, i)
    BY <1>1, <1>3, <1>4, BestMatchMatches
<1>6. TradeOf(os, i, BestMatch(os, i)) \in Own(Articles, MarketServer)
    BY <1>1, <1>3, <1>4, <1>5, TradesAreOwn
<1>7. Begin(MarketServer, TradeOf(os, i, BestMatch(os, i))) /\ matching' = [article |-> a, i |-> i]
      /\ UNCHANGED orders
    BY <1>2 DEF ExchangeNext
<1>8. QED
    BY <1>1, <1>3, <1>6, <1>7

\* A step takes one fault at most, and none is taken back.
LEMMA StepsTakeFaults ==
    ASSUME NEW s,
           CoordinatorStep(s) \/ (\E p : Begin(s, p)) \/ (\E c, sent : DecideFirstLeg(s, c, sent))
    PROVE  FaultStep /\ ~aborted
<1>1. CASE SendPrepare(s)
    BY <1>1, SendsTakeFaults DEF SendPrepare
<1>2. CASE ReceiveVote(s) \/ ReadTimeout(s) \/ ReadFails(s)
    BY <1>2 DEF ReceiveVote, ReadTimeout, ReadFails, FaultStep
<1>3. CASE DecideSecondLeg(s)
    BY <1>3, SendsTakeFaults DEF DecideSecondLeg, SendDecision
<1>4. CASE \E p : Begin(s, p)
    BY <1>4 DEF Begin, FaultStep
<1>5. CASE \E c, sent : DecideFirstLeg(s, c, sent)
    BY <1>5, SendsTakeFaults DEF DecideFirstLeg, SendDecision
<1>6. QED
    BY <1>1, <1>2, <1>3, <1>4, <1>5 DEF CoordinatorStep

LEMMA OthersTakeFaults ==
    ASSUME UserServerTurn \/ Disconnect \/ UNCHANGED coordinatorVars
    PROVE  FaultStep /\ (~aborted' => ~aborted)
<1>1. CASE UserServerTurn
  <2>1. FaultStep
    BY <1>1 DEF UserServerTurn, FaultStep
  <2>2. UserServerStep
    BY <1>1 DEF UserServerTurn
  <2>3. ASSUME NEW u \in Users, NEW s \in Servers, HandlePacket(u, s)
        PROVE  ~aborted
    BY <2>3 DEF HandlePacket, HandlePrepare, HandleCommit, HandleAbort, HandleUnexpected, Arrived
  <2>4. ASSUME NEW u \in Users, SendUserUpdate(u)
        PROVE  ~aborted
    BY <2>4 DEF SendUserUpdate
  <2>5. QED
    BY <2>1, <2>2, <2>3, <2>4 DEF UserServerStep
<1>2. CASE Disconnect
    BY <1>2 DEF Disconnect, LoseConnection, FaultStep
<1>3. CASE UNCHANGED coordinatorVars
    BY <1>3 DEF coordinatorVars, usVars, FaultStep
<1>4. QED
    BY <1>1, <1>2, <1>3

\* What the market does next is one of these for the coordinator.
LEMMA MarketTurnIs ==
    ASSUME MarketInv, MarketTurn
    PROVE  \/ CoordinatorStep(MarketServer)
           \/ \E p \in Own(Articles, MarketServer) : Begin(MarketServer, p)
           \/ \E commit \in BOOLEAN, sent \in BOOLEAN : DecideFirstLeg(MarketServer, commit, sent)
           \/ UNCHANGED coordinatorVars
<1>1. CASE \E u \in Users : PlaceOrder(u)
    BY <1>1, OrdersAreOwn DEF PlaceOrder
<1>2. CASE \E sent \in BOOLEAN : FinishPlaceOrder(sent) \/ FinishExchange(sent)
  <2>1. PICK sent \in BOOLEAN : /\ ~Idle(MarketServer)
                                /\ DecideFirstLeg(MarketServer, session[MarketServer].can_commit, sent)
    BY <1>2 DEF FinishPlaceOrder, FinishExchange
  <2>2. session[MarketServer] \in LiveSessions(Articles)
    BY <2>1, SessionIsLive DEF MarketInv, CoordinatorInv, Servers
  <2>3. session[MarketServer].can_commit \in BOOLEAN
    BY <2>2 DEF LiveSessions
  <2>4. QED
    BY <2>1, <2>3
<1>3. CASE (\E a \in Articles : BeginPass(a)) \/ ContinuePass
  <2>1. CASE \E a \in Articles : BeginPass(a)
    <3>1. PICK a \in Articles : ExchangeNext(a, 1)
        BY <2>1 DEF BeginPass
    <3>2. QED
        BY <3>1, NextTrade
  <2>2. CASE matching # NoPass /\ ExchangeNext(matching.article, matching.i)
    <3>1. matching.article \in Articles /\ matching.i \in Nat \ {0}
        BY <2>2 DEF MarketInv, PassOnTrack
    <3>2. PICK a, i : a = matching.article /\ i = matching.i
        OBVIOUS
    <3>3. ExchangeNext(a, i)
        BY <2>2, <3>2 DEF ExchangeNext
    <3>4. QED
        BY <3>1, <3>2, <3>3, NextTrade
  <2>3. QED
    BY <1>3, <2>1, <2>2 DEF ContinuePass
<1>4. QED
    BY <1>1, <1>2, <1>3 DEF MarketTurn

LEMMA MarketTurnKeepsTurns ==
    ASSUME MarketInv, TurnInv(Articles), MarketTurn
    PROVE  TurnInv(Articles)'
<1>1. MarketServer \in Servers
    BY DEF Servers
<1>2. QED
    BY <1>1, MarketTurnIs, CoordinatorKeepsTurns, BeginKeepsTurns, DecideFirstLegKeepsTurns, OthersKeepTurns

\* What is always true of the market, whatever fails.
LEMMA MarketInvariant == Spec => [](MarketInv /\ TurnInv(Articles))
<1>1. Init => MarketInv /\ TurnInv(Articles)
    BY InitialMarket, InitialTurns DEF Init
<1>2. MarketInv /\ TurnInv(Articles) /\ [Next]_vars => MarketInv' /\ TurnInv(Articles)'
    BY MarketTurnKeepsBooks, OthersKeepBooks, MarketTurnKeepsTurns, OthersKeepTurns DEF Next, vars
<1>3. QED
    BY <1>1, <1>2, PTL DEF Spec

-----------------------------------------------------------------------------
\* Every leg starts with an operation on a slot, which is a reason to send an update.
LEMMA LegsAreAnnounced ==
    ASSUME NEW s \in Servers, NEW t \in LegsOf(Articles, s)
    PROVE  SetsDidChange(t) = TRUE
<1>1. PICK p \in Own(Articles, s), leg \in {1, 2}, item \in Item : t = LegTransaction(p, leg, item)
    BY DEF LegsOf
<1>2. p.kind \in {"BUY", "SELL", "EXCHANGE", "TO_INVENTORY", "FROM_INVENTORY"}
    BY DEF Own
<1> DEFINE Slotted(q) == 1 \in DOMAIN q /\ q[1].type \notin {"MONEY_TRANSFER", "MONEY_RESERVE", "MONEY_UNRESERVE"}
<1>3. Slotted(t)
  <2>1. CASE p.kind = "BUY"
    <3>1. t = <<SlotReserve, MoneyReserve(p.price)>> \/ t = <<SlotReserve>>
        BY <1>1, <2>1, LegForms, Zenon
    <3>2. QED
        BY <3>1 DEF SlotReserve
  <2>2. CASE p.kind = "SELL"
    <3>1. t = <<ItemReserve(p.item)>>
        BY <1>1, <2>2, LegForms, Zenon
    <3>2. QED
        BY <3>1 DEF ItemReserve
  <2>3. CASE p.kind = "EXCHANGE" /\ leg = 1
    <3>1. t = <<ItemToServer(p.item), MoneyTransfer(p.price, FALSE)>>
        BY <1>1, <2>3, LegForms, Zenon
    <3>2. QED
        BY <3>1 DEF ItemToServer
  <2>4. CASE p.kind = "EXCHANGE" /\ leg = 2
    <3>1. \/ t = <<SlotUnreserve(p.slot), MoneyUnreserve(p.bid - p.price), ItemToInventory(item, p.slot),
                   MoneyTransfer(-p.price, -p.price < 0)>>
          \/ t = <<SlotUnreserve(p.slot), ItemToInventory(item, p.slot), MoneyTransfer(-p.price, -p.price < 0)>>
        BY <1>1, <2>4, LegForms, Zenon
    <3>2. QED
        BY <3>1 DEF SlotUnreserve
  <2>5. CASE p.kind = "TO_INVENTORY"
    <3>1. t = <<ItemToInventory(p.item, 0)>>
        BY <1>1, <2>5, LegForms, Zenon
    <3>2. QED
        BY <3>1 DEF ItemToInventory
  <2>6. CASE p.kind = "FROM_INVENTORY"
    <3>1. t = <<ItemToServer(p.item)>>
        BY <1>1, <2>6, LegForms, Zenon
    <3>2. QED
        BY <3>1 DEF ItemToServer
  <2>7. QED
    BY <1>1, <1>2, <2>1, <2>2, <2>3, <2>4, <2>5, <2>6
<1>4. QED
    BY <1>3 DEF SetsDidChange

\* The coordinators never touch an account, ...
LEMMA CoordinatorsLeaveAccounts ==
    ASSUME NEW s, CoordinatorStep(s) \/ (\E p : Begin(s, p)) \/ (\E c, sent : DecideFirstLeg(s, c, sent))
    PROVE  UNCHANGED account
<1>1. ASSUME NEW u, NEW m, SendTo(s, u, m) PROVE UNCHANGED account
    BY <1>1 DEF SendTo
<1>2. ASSUME NEW u, CannotSendTo(s, u) PROVE UNCHANGED account
    BY <1>2 DEF CannotSendTo, usVars
<1>3. ASSUME NEW c, NEW sent, SendDecision(s, c, sent) PROVE UNCHANGED account
    BY <1>1, <1>2, <1>3 DEF SendDecision
<1>4. CASE CoordinatorStep(s)
  <2>1. CASE SendPrepare(s)
    BY <1>1, <1>2, <2>1 DEF SendPrepare
  <2>2. CASE ReceiveVote(s)
    BY <2>2 DEF ReceiveVote, accountVars
  <2>3. CASE ReadTimeout(s) \/ ReadFails(s)
    BY <2>3 DEF ReadTimeout, ReadFails, usVars
  <2>4. CASE DecideSecondLeg(s)
    BY <1>3, <2>4 DEF DecideSecondLeg
  <2>5. QED
    BY <1>4, <2>1, <2>2, <2>3, <2>4 DEF CoordinatorStep
<1>5. CASE \E p : Begin(s, p)
    BY <1>5 DEF Begin, usVars
<1>6. CASE \E c, sent : DecideFirstLeg(s, c, sent)
    BY <1>3, <1>6 DEF DecideFirstLeg
<1>7. QED
    BY <1>4, <1>5, <1>6

LEMMA MarketTurnLeavesAccounts ==
    ASSUME MarketTurn
    PROVE  UNCHANGED account
<1>1. CASE \E u \in Users : PlaceOrder(u)
    BY <1>1, CoordinatorsLeaveAccounts DEF PlaceOrder
<1>2. CASE \E sent \in BOOLEAN : FinishPlaceOrder(sent) \/ FinishExchange(sent)
    BY <1>2, CoordinatorsLeaveAccounts DEF FinishPlaceOrder, FinishExchange
<1>3. CASE (\E a \in Articles : BeginPass(a)) \/ ContinuePass
    BY <1>3, CoordinatorsLeaveAccounts DEF BeginPass, ContinuePass, ExchangeNext, coordinatorVars, usVars
<1>4. QED
    BY <1>1, <1>2, <1>3, CoordinatorsLeaveAccounts DEF MarketTurn

\* ... nor does a connection that is lost, or an update that is sent: only a commit does.
LEMMA PacketsChangeAccounts ==
    ASSUME UserServerTypeOK, UserServerTurn \/ Disconnect \/ UNCHANGED coordinatorVars,
           NEW u \in Users, account'[u] # account[u]
    PROVE  \E s \in Servers :
              /\ HandleCommit(u, s) /\ current[u][s].exists
              /\ account'[u] = commit_transaction(current[u][s].transaction, account[u], s).account
              /\ did_change'[u] = (did_change[u] \/ SetsDidChange(current[u][s].transaction))
<1>1. UserServerTurn
    BY DEF Disconnect, LoseConnection, accountVars, coordinatorVars, usVars
<1>2. PICK v \in Users, s \in Servers : HandlePacket(v, s)
    BY <1>1 DEF UserServerTurn, UserServerStep, SendUserUpdate
<1>3. HandleCommit(v, s)
    BY <1>2 DEF HandlePacket, HandlePrepare, HandleAbort, HandleUnexpected, accountVars
<1>4. /\ account' = [account EXCEPT ![v] = commit_transaction(current[v][s].transaction, account[v], s).account]
      /\ did_change' = [did_change EXCEPT ![v] = @ \/ SetsDidChange(current[v][s].transaction)]
    BY <1>3 DEF HandleCommit, accountVars
<1>5. v = u
    BY <1>4 DEF UserServerTypeOK
<1>6. did_change'[u] = (did_change[u] \/ SetsDidChange(current[u][s].transaction))
    BY <1>4, <1>5 DEF UserServerTypeOK
<1>7. QED
    BY <1>3, <1>4, <1>5, <1>6 DEF UserServerTypeOK, HandleCommit

\* Whatever fails, no account changes without the user's players being owed an update: no leg
\* of any session consists of MONEY operations alone (user_server.cpp:464-515,
\* market_server.cpp:374-562).
THEOREM ChangesAlwaysAnnounced == Spec => ChangesAreAnnounced
<1>1. MarketInv /\ TurnInv(Articles) /\ [Next]_vars
        => [\A u \in Users : account'[u] # account[u] => did_change'[u]]_vars
  <2> SUFFICES ASSUME MarketInv, TurnInv(Articles), [Next]_vars, NEW u \in Users, account'[u] # account[u]
               PROVE  did_change'[u]
    OBVIOUS
  <2>1. UserServerTypeOK /\ LegsInv(Articles)
    BY DEF MarketInv, CoordinatorInv, CoordinatorTypeOK, TurnInv
  <2>2. UserServerTurn \/ Disconnect \/ UNCHANGED coordinatorVars
    BY MarketTurnLeavesAccounts DEF Next, vars
  <2>3. PICK s \in Servers :
            /\ current[u][s].exists
            /\ did_change'[u] = (did_change[u] \/ SetsDidChange(current[u][s].transaction))
    BY <2>1, <2>2, PacketsChangeAccounts
  <2>4. PICK t \in LegsOf(Articles, s) : t = current[u][s].transaction
    BY <2>1, <2>3 DEF LegsInv, LegsPrepared
  <2>5. SetsDidChange(t) = TRUE
    BY LegsAreAnnounced
  <2>6. QED
    BY <2>3, <2>4, <2>5
<1>2. QED
    BY <1>1, MarketInvariant, PTL DEF Spec, ChangesAreAnnounced

-----------------------------------------------------------------------------
\* For every set of users, items, prices and slots, and whatever faults happen: every message,
\* transaction, vote and order of the market is well formed.  Above all every leg the market
\* server sends is a transaction of one to four operations on slots that exist, the best match
\* it looks for is found, and the two orders it removes after a trade are orders of the book
\* (market_server.cpp:374-562, 740-813).
THEOREM MarketTypeSafety == Spec => []TypeOK
<1>1. Init => MarketInv
    BY InitialMarket
<1>2. MarketInv /\ [Next]_vars => MarketInv'
    BY MarketTurnKeepsBooks, OthersKeepBooks DEF Next, vars
<1>3. MarketInv => TypeOK
    BY DEF MarketInv, TypeOK, CoordinatorInv
<1>4. QED
    BY <1>1, <1>2, <1>3, PTL DEF Spec
-----------------------------------------------------------------------------
\* What is left of a sequence when a place is taken out, ...
LEMMA RemovedOne ==
    ASSUME NEW R, NEW q \in Seq(R), NEW i \in 1..Len(q)
    PROVE  /\ RemoveAt(q, i) \in Seq(R) /\ Len(RemoveAt(q, i)) = Len(q) - 1
           /\ \A k \in 1..Len(q) - 1 : RemoveAt(q, i)[k] = q[IF k < i THEN k ELSE k + 1]
<1>0. Len(q) \in Nat /\ i \in Nat /\ i > 0 /\ i <= Len(q)
    OBVIOUS
<1>1. PICK before, after : before = SubSeq(q, 1, i - 1) /\ after = SubSeq(q, i + 1, Len(q))
    OBVIOUS
<1>2. (\A k \in 1..(i - 1) : q[k] \in R) /\ (\A k \in (i + 1)..Len(q) : q[k] \in R)
    BY <1>0, ElementOfSeq
<1>3. before \in Seq(R) /\ Len(before) = i - 1 /\ \A k \in 1..(i - 1) : before[k] = q[k]
  <2>1. 1 \in Int /\ i - 1 \in Int
    BY <1>0
  <2>2. /\ before \in Seq(R) /\ Len(before) = IF 1 <= i - 1 THEN (i - 1) - 1 + 1 ELSE 0
        /\ \A k \in 1..(i - 1) - 1 + 1 : before[k] = q[1 + k - 1]
    BY <1>1, <1>2, <2>1, SubSeqProperties
  <2>3. QED
    BY <1>0, <2>2
<1>4. after \in Seq(R) /\ Len(after) = Len(q) - i /\ \A k \in 1..(Len(q) - i) : after[k] = q[i + k]
  <2>1. i + 1 \in Int /\ Len(q) \in Int
    BY <1>0
  <2>2. /\ after \in Seq(R) /\ Len(after) = IF i + 1 <= Len(q) THEN Len(q) - (i + 1) + 1 ELSE 0
        /\ \A k \in 1..Len(q) - (i + 1) + 1 : after[k] = q[(i + 1) + k - 1]
    BY <1>1, <1>2, <2>1, SubSeqProperties
  <2>3. QED
    BY <1>0, <2>2
<1>5. RemoveAt(q, i) = before \o after
    BY <1>1 DEF RemoveAt
<1>6. /\ before \o after \in Seq(R) /\ Len(before \o after) = Len(before) + Len(after)
      /\ \A k \in 1..Len(before) + Len(after) :
            (before \o after)[k] = IF k <= Len(before) THEN before[k] ELSE after[k - Len(before)]
    BY <1>3, <1>4, ConcatProperties
<1>7. ASSUME NEW k \in 1..Len(q) - 1
      PROVE  (before \o after)[k] = q[IF k < i THEN k ELSE k + 1]
  <2>1. CASE k < i
    BY <1>0, <1>3, <1>4, <1>6, <2>1
  <2>2. CASE ~(k < i)
    <3>1. (before \o after)[k] = after[k - (i - 1)]
        BY <1>0, <1>3, <1>4, <1>6, <2>2
    <3>2. k - (i - 1) \in 1..(Len(q) - i)
        BY <1>0, <2>2
    <3>3. after[k - (i - 1)] = q[i + (k - (i - 1))]
        BY <1>4, <3>2
    <3>4. i + (k - (i - 1)) = k + 1
        BY <1>0
    <3>5. QED
        BY <2>2, <3>1, <3>3, <3>4
  <2>3. QED
    BY <2>1, <2>2
<1>8. QED
    BY <1>0, <1>3, <1>4, <1>5, <1>6, <1>7

\* ... and when two are.
Before(k, i, j) == IF k < i THEN k ELSE IF k + 1 < j THEN k + 1 ELSE k + 2

LEMMA RemovedTwo ==
    ASSUME NEW R, NEW q \in Seq(R), NEW i \in 1..Len(q), NEW j \in (i + 1)..Len(q),
           NEW r, r = RemoveAt(RemoveAt(q, j), i)
    PROVE  /\ r \in Seq(R) /\ Len(r) = Len(q) - 2
           /\ \A k \in 1..Len(r) : Before(k, i, j) \in 1..Len(q) /\ r[k] = q[Before(k, i, j)]
<1>0. Len(q) \in Nat /\ i \in Nat /\ i > 0 /\ j \in Nat /\ i < j /\ j <= Len(q)
    OBVIOUS
<1>1. PICK p : p = RemoveAt(q, j)
    OBVIOUS
<1>2. /\ p \in Seq(R) /\ Len(p) = Len(q) - 1
      /\ \A k \in 1..Len(q) - 1 : p[k] = q[IF k < j THEN k ELSE k + 1]
  <2>1. j \in 1..Len(q)
    BY <1>0
  <2>2. QED
    BY <1>1, <2>1, RemovedOne
<1>3. i \in 1..Len(p)
    BY <1>0, <1>2
<1>4. /\ r \in Seq(R) /\ Len(r) = Len(p) - 1
      /\ \A k \in 1..Len(p) - 1 : r[k] = p[IF k < i THEN k ELSE k + 1]
    BY <1>1, <1>2, <1>3, RemovedOne
<1>5. ASSUME NEW k \in 1..Len(r)
      PROVE  Before(k, i, j) \in 1..Len(q) /\ r[k] = q[Before(k, i, j)]
  <2>0. k \in Nat /\ k > 0 /\ k <= Len(q) - 2 /\ k \in 1..Len(p) - 1
    BY <1>0, <1>2, <1>4
  <2>1. CASE k < i
    <3>1. k < j /\ k \in 1..Len(q) - 1
        BY <1>0, <2>0, <2>1
    <3>2. r[k] = p[k] /\ p[k] = q[k]
        BY <1>2, <1>4, <2>0, <2>1, <3>1
    <3>3. QED
        BY <1>0, <2>0, <2>1, <3>2 DEF Before
  <2>2. CASE ~(k < i)
    <3>0. i \in Nat /\ k + 1 \in 1..Len(q) - 1 /\ k \in 1..Len(p) - 1
        BY <1>0, <2>0
    <3>1. r[k] = p[k + 1] /\ k + 1 \in 1..Len(q) - 1
        BY <1>4, <2>2, <3>0
    <3>2. p[k + 1] = q[IF k + 1 < j THEN k + 1 ELSE (k + 1) + 1]
      <4>1. PICK l \in 1..Len(q) - 1 : l = k + 1
        BY <3>1
      <4>2. p[l] = q[IF l < j THEN l ELSE l + 1]
        BY <1>2
      <4>3. QED
        BY <4>1, <4>2
    <3>3. (k + 1) + 1 = k + 2
        BY <2>0
    <3>4. QED
        BY <1>0, <2>0, <2>2, <3>1, <3>2, <3>3 DEF Before
  <2>3. QED
    BY <2>1, <2>2
<1>6. QED
    BY <1>0, <1>2, <1>4, <1>5

\* The places that are left are all but the two.
LEMMA PlacesLeft ==
    ASSUME NEW n \in Nat, NEW i \in 1..n, NEW j \in (i + 1)..n
    PROVE  /\ \A k \in 1..n - 2 : Before(k, i, j) \in 1..n /\ Before(k, i, j) # i /\ Before(k, i, j) # j
           /\ \A k, l \in 1..n - 2 : Before(k, i, j) = Before(l, i, j) => k = l
           /\ \A m \in 1..n : m # i /\ m # j => \E k \in 1..n - 2 : Before(k, i, j) = m
<1>1. \A k \in 1..n - 2 : Before(k, i, j) \in 1..n /\ Before(k, i, j) # i /\ Before(k, i, j) # j
    BY DEF Before
<1>2. \A k, l \in 1..n - 2 : Before(k, i, j) = Before(l, i, j) => k = l
    BY DEF Before
<1>3. ASSUME NEW m \in 1..n, m # i, m # j
      PROVE  \E k \in 1..n - 2 : Before(k, i, j) = m
  <2>1. CASE m < i
    <3>1. m \in 1..n - 2 /\ Before(m, i, j) = m
        BY <2>1 DEF Before
    <3>2. QED
        BY <3>1
  <2>2. CASE i < m /\ m < j
    <3>1. m - 1 \in 1..n - 2 /\ Before(m - 1, i, j) = m
        BY <2>2 DEF Before
    <3>2. QED
        BY <3>1
  <2>3. CASE j < m
    <3>1. m - 2 \in 1..n - 2 /\ Before(m - 2, i, j) = m
        BY <2>3 DEF Before
    <3>2. QED
        BY <3>1
  <2>4. m < i \/ (i < m /\ m < j) \/ j < m
    BY <1>3
  <2>5. QED
    BY <2>1, <2>2, <2>3, <2>4
<1>4. QED
    BY <1>1, <1>2, <1>3
-----------------------------------------------------------------------------
(***************************************************************************)
(* What the orders of one user hold of an account.  O is a set of places   *)
(* and ord[p] the order at place p.                                        *)
(***************************************************************************)
\* A bid holds the slot its item will go to, an offer the slot its item is in.
Holds(a, o, n) ==
    \/ o.is_buy_order = TRUE /\ n = o.slot
    \/ o.is_buy_order = FALSE /\ n \in SlotsHolding(a, o.item)

Bids(O, ord) == {p \in O : ord[p].is_buy_order = TRUE}
Price(O, ord) == [p \in O |-> ord[p].price]
Promised(O, ord) == Total(Price(O, ord), Bids(O, ord))

OrdersFit(O, ord) ==
    /\ IsFiniteSet(O)
    /\ \A p \in O : ord[p] \in Market_Order /\ (ord[p].is_buy_order = FALSE => ord[p].item \in Items)
SlotsBacked(a, O, ord) ==
    /\ \A p \in O : \E n \in Slots : Holds(a, ord[p], n)
    /\ \A p \in O, n \in Slots : Holds(a, ord[p], n) => a.inventory_reservations[n] = MarketServer
    /\ \A p \in O, q \in O, n \in Slots : Holds(a, ord[p], n) /\ Holds(a, ord[q], n) => p = q
    /\ \A n \in Slots : a.inventory_reservations[n] = MarketServer => \E p \in O : Holds(a, ord[p], n)
MoneyBacked(a, O, ord) == a.money_reservations[MarketServer] = Promised(O, ord)
BackedBy(a, O, ord) == OrdersFit(O, ord) /\ SlotsBacked(a, O, ord) /\ MoneyBacked(a, O, ord)

LEMMA BidsAreFinite ==
    ASSUME NEW O, NEW ord, OrdersFit(O, ord)
    PROVE  /\ IsFiniteSet(Bids(O, ord)) /\ Bids(O, ord) \subseteq O
           /\ \A p \in O : Price(O, ord)[p] \in Nat /\ Price(O, ord)[p] = ord[p].price
<1>1. Bids(O, ord) \in SUBSET O /\ IsFiniteSet(O)
    BY DEF Bids, OrdersFit
<1>2. IsFiniteSet(Bids(O, ord))
    BY <1>1, FS_Subset
<1>3. ASSUME NEW p \in O
      PROVE  Price(O, ord)[p] \in Nat /\ Price(O, ord)[p] = ord[p].price
  <2>1. ord[p] \in Market_Order
    BY DEF OrdersFit
  <2>2. ord[p].price \in Nat
    BY <2>1, OrderTypes
  <2>3. QED
    BY <2>2 DEF Price
<1>4. QED
    BY <1>1, <1>2, <1>3

\* No bid is larger than what is reserved.
LEMMA BidIsReserved ==
    ASSUME NEW a, NEW O, NEW ord, NEW p \in O, BackedBy(a, O, ord), ord[p].is_buy_order = TRUE
    PROVE  ord[p].price <= a.money_reservations[MarketServer]
<1>1. OrdersFit(O, ord) /\ a.money_reservations[MarketServer] = Promised(O, ord)
    BY DEF BackedBy, MoneyBacked
<1>2. p \in Bids(O, ord)
    BY DEF Bids
<1>3. PICK m, S : m = Price(O, ord) /\ S = Bids(O, ord)
    OBVIOUS
<1>4. IsFiniteSet(S) /\ (\A x \in S : m[x] \in Nat) /\ p \in S /\ m[p] = ord[p].price
    BY <1>1, <1>2, <1>3, BidsAreFinite
<1>5. m[p] <= Total(m, S)
    BY <1>4, PartOfTotal
<1>6. QED
    BY <1>1, <1>3, <1>4, <1>5 DEF Promised

\* An order that comes to stand, and the reservation made for it.
OrderAdded(O, ord, q, o, P, new) ==
    /\ q \notin O
    /\ \A x : x \in P <=> x \in O \/ x = q
    /\ new[q] = o
    /\ \A p \in O : new[p] = ord[p]
ReservedFor(a, b, o, n) ==
    /\ Holds(a, o, n)
    /\ \A k \in Slots : Holds(a, o, k) => k = n
    /\ a.inventory_reservations[n] = NoServer
    /\ \A k \in Slots : b.inventory[k].item = a.inventory[k].item
    /\ \A k \in Slots : b.inventory_reservations[k] = IF k = n THEN MarketServer ELSE a.inventory_reservations[k]
    /\ b.money_reservations[MarketServer] =
            a.money_reservations[MarketServer] + IF o.is_buy_order = TRUE THEN o.price ELSE 0

LEMMA OrderBacked ==
    ASSUME NEW a, NEW b, NEW O, NEW ord, NEW q, NEW o \in Market_Order, NEW n \in Slots, NEW P, NEW new,
           BackedBy(a, O, ord), o.is_buy_order = FALSE => o.item \in Items,
           OrderAdded(O, ord, q, o, P, new), ReservedFor(a, b, o, n)
    PROVE  BackedBy(b, P, new)
<1>0. /\ q \notin O /\ (\A x : x \in P <=> x \in O \/ x = q) /\ new[q] = o /\ (\A p \in O : new[p] = ord[p])
      /\ Holds(a, o, n) /\ (\A k \in Slots : Holds(a, o, k) => k = n) /\ a.inventory_reservations[n] = NoServer
      /\ \A k \in Slots : b.inventory[k].item = a.inventory[k].item
      /\ \A k \in Slots : b.inventory_reservations[k] = IF k = n THEN MarketServer ELSE a.inventory_reservations[k]
      /\ b.money_reservations[MarketServer] =
            a.money_reservations[MarketServer] + IF o.is_buy_order = TRUE THEN o.price ELSE 0
    BY DEF OrderAdded, ReservedFor
<1>1. OrdersFit(O, ord) /\ SlotsBacked(a, O, ord) /\ a.money_reservations[MarketServer] = Promised(O, ord)
    BY DEF BackedBy, MoneyBacked
<1>2. OrdersFit(P, new)
  <2>1. IsFiniteSet(P)
    <3>1. IsFiniteSet(O \cup {q}) /\ P = O \cup {q}
        BY <1>0, <1>1, FS_AddElement DEF OrdersFit
    <3>2. QED
        BY <3>1
  <2>2. QED
    BY <1>0, <1>1, <2>1 DEF OrdersFit
<1>3. \A x, k : k \in Slots => (Holds(b, x, k) <=> Holds(a, x, k))
    BY <1>0 DEF Holds, SlotsHolding
<1>4. \A p \in O, k \in Slots : Holds(a, ord[p], k) => k # n
    BY <1>0, <1>1, ServerAssumption DEF SlotsBacked
<1>5. SlotsBacked(b, P, new)
  <2>1. \A p \in P : \E k \in Slots : Holds(b, new[p], k)
    BY <1>0, <1>1, <1>3 DEF SlotsBacked
  <2>2. \A p \in P, k \in Slots : Holds(b, new[p], k) => b.inventory_reservations[k] = MarketServer
    BY <1>0, <1>1, <1>3, <1>4 DEF SlotsBacked
  <2>3. \A p \in P, r \in P, k \in Slots : Holds(b, new[p], k) /\ Holds(b, new[r], k) => p = r
    BY <1>0, <1>1, <1>3, <1>4 DEF SlotsBacked
  <2>4. \A k \in Slots : b.inventory_reservations[k] = MarketServer => \E p \in P : Holds(b, new[p], k)
    BY <1>0, <1>1, <1>3 DEF SlotsBacked
  <2>5. QED
    BY <2>1, <2>2, <2>3, <2>4 DEF SlotsBacked
<1>6. b.money_reservations[MarketServer] = Promised(P, new)
  <2>0. PICK m, S, m2, S2 : m = Price(O, ord) /\ S = Bids(O, ord) /\ m2 = Price(P, new) /\ S2 = Bids(P, new)
    OBVIOUS
  <2>1. IsFiniteSet(S) /\ S \subseteq O /\ (\A p \in S : m[p] \in Int /\ m[p] = ord[p].price)
    BY <1>1, <2>0, BidsAreFinite
  <2>2. IsFiniteSet(S2) /\ (\A p \in P : m2[p] \in Int /\ m2[p] = new[p].price)
    <3>1. IsFiniteSet(Bids(P, new)) /\ \A p \in P : Price(P, new)[p] \in Nat /\ Price(P, new)[p] = new[p].price
        BY <1>2, BidsAreFinite
    <3>2. QED
      <4>1. IsFiniteSet(S2) /\ \A p \in P : m2[p] \in Nat /\ m2[p] = new[p].price
        BY <2>0, <3>1
      <4>2. QED
        BY <4>1
  <2>3. \A p \in S : m[p] = m2[p]
    BY <1>0, <2>1, <2>2
  <2>4. Total(m, S) = Total(m2, S)
    BY <2>1, <2>3, TotalOfSame
  <2>5. CASE o.is_buy_order = TRUE
    <3>1. S2 = S \cup {q} /\ q \notin S
        BY <1>0, <2>0, <2>5 DEF Bids
    <3>2. \A p \in S \cup {q} : m2[p] \in Int
        BY <1>0, <2>1, <2>2
    <3>3. Total(m2, S \cup {q}) = m2[q] + Total(m2, S)
        BY <2>1, <3>1, <3>2, TotalWith
    <3>4. m2[q] = o.price /\ m2[q] \in Int
        BY <1>0, <2>2
    <3>5. Total(m2, S) \in Int
        BY <2>1, <3>2, TotalIsInteger
    <3>6. b.money_reservations[MarketServer] = Total(m, S) + o.price
        BY <1>0, <1>1, <2>0, <2>5 DEF Promised
    <3>7. Promised(P, new) = Total(m2, S \cup {q})
        BY <2>0, <3>1 DEF Promised
    <3>8. QED
        BY <2>4, <3>3, <3>4, <3>5, <3>6, <3>7
  <2>6. CASE o.is_buy_order # TRUE
    <3>1. S2 = S
        BY <1>0, <2>0, <2>6 DEF Bids
    <3>2. Total(m, S) \in Int
        BY <2>1, TotalIsInteger
    <3>3. b.money_reservations[MarketServer] = Total(m, S) + 0
        BY <1>0, <1>1, <2>0, <2>6 DEF Promised
    <3>4. Promised(P, new) = Total(m2, S)
        BY <2>0, <3>1 DEF Promised
    <3>5. QED
        BY <2>4, <3>2, <3>3, <3>4
  <2>7. QED
    BY <2>5, <2>6
<1>7. QED
    BY <1>2, <1>5, <1>6 DEF BackedBy, MoneyBacked
\* An order that goes, with what it held.
FreedOf(a, b, o, n, item) ==
    /\ Holds(a, o, n)
    /\ \A k \in Slots : Holds(a, o, k) => k = n
    /\ \A k \in Slots : b.inventory[k].item = IF k = n THEN item ELSE a.inventory[k].item
    /\ \A k \in Slots : b.inventory_reservations[k] = IF k = n THEN NoServer ELSE a.inventory_reservations[k]
    /\ b.money_reservations[MarketServer] =
            a.money_reservations[MarketServer] - IF o.is_buy_order = TRUE THEN o.price ELSE 0

OrderRemoved(O, ord, q, item, P) ==
    /\ \A x : x \in P <=> x \in O /\ x # q
    /\ \A p \in O : ord[p].is_buy_order = FALSE => ord[p].item # item \/ p = q

LEMMA OrderUnbacked ==
    ASSUME NEW a, NEW b, NEW O, NEW ord, NEW q \in O, NEW n \in Slots, NEW item, NEW P,
           BackedBy(a, O, ord), FreedOf(a, b, ord[q], n, item), OrderRemoved(O, ord, q, item, P)
    PROVE  BackedBy(b, P, ord)
<1>b. /\ \A x : x \in P <=> x \in O /\ x # q
      /\ \A p \in O : ord[p].is_buy_order = FALSE => ord[p].item # item \/ p = q
    BY DEF OrderRemoved
<1>a. PICK o : o = ord[q]
    OBVIOUS
<1>0. /\ Holds(a, o, n) /\ (\A k \in Slots : Holds(a, o, k) => k = n)
      /\ \A k \in Slots : b.inventory[k].item = IF k = n THEN item ELSE a.inventory[k].item
      /\ \A k \in Slots : b.inventory_reservations[k] = IF k = n THEN NoServer ELSE a.inventory_reservations[k]
      /\ b.money_reservations[MarketServer] =
            a.money_reservations[MarketServer] - IF o.is_buy_order = TRUE THEN o.price ELSE 0
    BY <1>a DEF FreedOf
<1>1. OrdersFit(O, ord) /\ SlotsBacked(a, O, ord) /\ a.money_reservations[MarketServer] = Promised(O, ord)
    BY DEF BackedBy, MoneyBacked
<1>2. OrdersFit(P, ord)
  <2>1. IsFiniteSet(P)
    <3>1. P \in SUBSET O /\ IsFiniteSet(O)
        BY <1>b, <1>1 DEF OrdersFit
    <3>2. QED
        BY <3>1, FS_Subset
  <2>2. QED
    BY <1>b, <1>1, <2>1 DEF OrdersFit
<1>3. \A p \in P, k \in Slots : ~Holds(a, ord[p], n) /\ (Holds(b, ord[p], k) <=> Holds(a, ord[p], k))
  <2>1. TAKE p \in P, k \in Slots
  <2>2. p \in O /\ p # q
    BY <1>b
  <2>3. ~Holds(a, ord[p], n)
    BY <1>0, <1>a, <1>1, <2>2 DEF SlotsBacked
  <2>4. CASE ord[p].is_buy_order = FALSE
    <3>1. ord[p].item # item /\ n \notin SlotsHolding(a, ord[p].item)
        BY <1>b, <2>2, <2>3, <2>4 DEF Holds
    <3>2. k \in SlotsHolding(b, ord[p].item) <=> k \in SlotsHolding(a, ord[p].item)
        BY <1>0, <3>1 DEF SlotsHolding
    <3>3. QED
        BY <1>0, <2>3, <3>2 DEF Holds
  <2>5. CASE ord[p].is_buy_order # FALSE
    BY <1>0, <2>3, <2>5 DEF Holds
  <2>6. QED
    BY <2>4, <2>5
<1>4. SlotsBacked(b, P, ord)
  <2>1. \A p \in P : \E k \in Slots : Holds(b, ord[p], k)
    BY <1>b, <1>0, <1>1, <1>3 DEF SlotsBacked
  <2>2. \A p \in P, k \in Slots : Holds(b, ord[p], k) => b.inventory_reservations[k] = MarketServer
    BY <1>b, <1>0, <1>1, <1>3 DEF SlotsBacked
  <2>3. \A p \in P, r \in P, k \in Slots : Holds(b, ord[p], k) /\ Holds(b, ord[r], k) => p = r
    BY <1>b, <1>0, <1>1, <1>3 DEF SlotsBacked
  <2>4. ASSUME NEW k \in Slots, b.inventory_reservations[k] = MarketServer
        PROVE  \E p \in P : Holds(b, ord[p], k)
    <3>1. k # n /\ a.inventory_reservations[k] = MarketServer
        BY <1>0, <2>4, ServerAssumption
    <3>2. PICK p \in O : Holds(a, ord[p], k)
        BY <1>1, <3>1 DEF SlotsBacked
    <3>3. p # q
        BY <1>0, <1>a, <3>1, <3>2
    <3>4. QED
        BY <1>b, <1>3, <3>2, <3>3
  <2>5. QED
    BY <2>1, <2>2, <2>3, <2>4 DEF SlotsBacked
<1>5. b.money_reservations[MarketServer] = Promised(P, ord)
  <2>0. PICK m, S, m2, S2 : m = Price(O, ord) /\ S = Bids(O, ord) /\ m2 = Price(P, ord) /\ S2 = Bids(P, ord)
    OBVIOUS
  <2>1. IsFiniteSet(S) /\ S \subseteq O /\ (\A p \in S : m[p] \in Int /\ m[p] = ord[p].price)
    BY <1>1, <2>0, BidsAreFinite
  <2>2. IsFiniteSet(S2) /\ S2 \subseteq P /\ (\A p \in S2 : m2[p] \in Int /\ m2[p] = ord[p].price)
    <3>1. /\ IsFiniteSet(Bids(P, ord)) /\ Bids(P, ord) \subseteq P
          /\ \A p \in P : Price(P, ord)[p] \in Nat /\ Price(P, ord)[p] = ord[p].price
        BY <1>2, BidsAreFinite
    <3>2. \A p \in P : m2[p] \in Nat /\ m2[p] = ord[p].price
        BY <2>0, <3>1
    <3>3. IsFiniteSet(S2) /\ S2 \subseteq P
        BY <2>0, <3>1
    <3>4. QED
        BY <3>2, <3>3
  <2>3. S2 \subseteq S
    BY <1>b, <2>0 DEF Bids
  <2>4. \A p \in S2 : m[p] = m2[p]
    BY <2>1, <2>2, <2>3
  <2>5. Total(m, S2) = Total(m2, S2)
    BY <2>2, <2>4, TotalOfSame
  <2>6. Promised(P, ord) = Total(m2, S2) /\ a.money_reservations[MarketServer] = Total(m, S)
    BY <1>1, <2>0 DEF Promised
  <2>7. Total(m, S2) \in Int
    BY <2>1, <2>2, <2>3, TotalIsInteger
  <2>8. CASE o.is_buy_order = TRUE
    <3>1. S2 = S \ {q} /\ q \in S
        BY <1>a, <1>b, <2>0, <2>8 DEF Bids
    <3>2. \A p \in S : m[p] \in Int
        BY <2>1
    <3>3. Total(m, S) = m[q] + Total(m, S \ {q})
        BY <2>1, <3>1, <3>2, TotalWithout
    <3>4. m[q] = o.price /\ m[q] \in Int
        BY <1>a, <2>1, <3>1
    <3>5. Total(m, S) = o.price + Total(m, S2)
        BY <3>1, <3>3, <3>4
    <3>6. b.money_reservations[MarketServer] = Total(m, S) - o.price
        BY <1>0, <2>6, <2>8
    <3>7. b.money_reservations[MarketServer] = Total(m, S2)
        BY <2>7, <3>4, <3>5, <3>6
    <3>8. QED
        BY <2>5, <2>6, <3>7
  <2>9. CASE o.is_buy_order # TRUE
    <3>1. S2 = S
        BY <1>a, <1>b, <2>0, <2>9 DEF Bids
    <3>2. b.money_reservations[MarketServer] = Total(m, S) - 0
        BY <1>0, <2>6, <2>9
    <3>3. QED
        BY <2>5, <2>6, <2>7, <3>1, <3>2
  <2>10. QED
    BY <2>8, <2>9
<1>6. QED
    BY <1>2, <1>4, <1>5 DEF BackedBy, MoneyBacked

\* Orders that move to other places.
LEMMA OrdersMoved ==
    ASSUME NEW a, NEW O, NEW ord, NEW P, NEW new, NEW f \in [P -> O], BackedBy(a, O, ord),
           \A x \in P, y \in P : f[x] = f[y] => x = y, \A z \in O : \E x \in P : f[x] = z,
           \A x \in P : new[x] = ord[f[x]]
    PROVE  BackedBy(a, P, new)
<1>1. OrdersFit(O, ord) /\ SlotsBacked(a, O, ord) /\ a.money_reservations[MarketServer] = Promised(O, ord)
    BY DEF BackedBy, MoneyBacked
<1>2. OrdersFit(P, new)
  <2>1. IsFiniteSet(O)
    BY <1>1 DEF OrdersFit
  <2>2. f \in Injection(P, O)
    BY DEF Injection, IsInjective
  <2>3. IsFiniteSet(P)
    BY <2>1, <2>2, FS_Injection
  <2>4. QED
    BY <1>1, <2>3 DEF OrdersFit
<1>3. SlotsBacked(a, P, new)
  <2>1. \A p \in P : \E k \in Slots : Holds(a, new[p], k)
    BY <1>1 DEF SlotsBacked
  <2>2. \A p \in P, k \in Slots : Holds(a, new[p], k) => a.inventory_reservations[k] = MarketServer
    BY <1>1 DEF SlotsBacked
  <2>3. \A p \in P, r \in P, k \in Slots : Holds(a, new[p], k) /\ Holds(a, new[r], k) => p = r
    <3>1. TAKE p \in P, r \in P, k \in Slots
    <3>2. HAVE Holds(a, new[p], k) /\ Holds(a, new[r], k)
    <3>3. f[p] \in O /\ f[r] \in O /\ new[p] = ord[f[p]] /\ new[r] = ord[f[r]]
        OBVIOUS
    <3>4. f[p] = f[r]
        BY <1>1, <3>2, <3>3 DEF SlotsBacked
    <3>5. QED
        BY <3>4
  <2>4. ASSUME NEW k \in Slots, a.inventory_reservations[k] = MarketServer
        PROVE  \E p \in P : Holds(a, new[p], k)
    <3>1. PICK z \in O : Holds(a, ord[z], k)
        BY <1>1, <2>4 DEF SlotsBacked
    <3>2. PICK x \in P : f[x] = z
        OBVIOUS
    <3>3. new[x] = ord[z]
        BY <3>2
    <3>4. QED
        BY <3>1, <3>3
  <2>5. QED
    BY <2>1, <2>2, <2>3, <2>4 DEF SlotsBacked
<1>4. Promised(P, new) = Promised(O, ord)
  <2>0. PICK m, S, m2, S2 : m = Price(O, ord) /\ S = Bids(O, ord) /\ m2 = Price(P, new) /\ S2 = Bids(P, new)
    OBVIOUS
  <2>1. IsFiniteSet(S) /\ S \subseteq O /\ (\A p \in O : m[p] \in Nat /\ m[p] = ord[p].price)
    BY <1>1, <2>0, BidsAreFinite
  <2>2. IsFiniteSet(S2) /\ S2 \subseteq P /\ (\A p \in P : m2[p] \in Nat /\ m2[p] = new[p].price)
    BY <1>2, <2>0, BidsAreFinite
  <2>3. PICK g : g = [x \in S2 |-> f[x]]
    OBVIOUS
  <2>4. \A x \in S2 : g[x] = f[x] /\ x \in P /\ f[x] \in S
    BY <2>0, <2>2, <2>3 DEF Bids
  <2>5. g \in [S2 -> S]
    BY <2>3, <2>4
  <2>6. \A x, y \in S2 : g[x] = g[y] => x = y
    BY <2>4
  <2>7. \A z \in S : \E x \in S2 : g[x] = z
    <3>1. TAKE z \in S
    <3>2. PICK x \in P : f[x] = z
        BY <2>1
    <3>3. x \in S2
        BY <2>0, <3>2 DEF Bids
    <3>4. QED
        BY <2>4, <3>2, <3>3
  <2>8. \A x \in S2 : m2[x] \in Int /\ m[g[x]] = m2[x]
    <3>1. TAKE x \in S2
    <3>2. m2[x] \in Nat /\ m2[x] = new[x].price /\ new[x] = ord[f[x]]
        BY <2>2, <2>4
    <3>3. m[f[x]] = ord[f[x]].price
        BY <2>1, <2>4
    <3>4. QED
        BY <2>4, <3>2, <3>3
  <2>9. Total(m, S) = Total(m2, S2)
    BY <2>1, <2>2, <2>5, <2>6, <2>7, <2>8, TotalOfImage
  <2>10. QED
    BY <2>0, <2>9 DEF Promised
<1>5. QED
    BY <1>1, <1>2, <1>3, <1>4 DEF BackedBy, MoneyBacked
(***************************************************************************)
(* The accounts S and the book B of the market, seen together.             *)
(***************************************************************************)
OrdersOf(B, u) ==
    {p \in Articles \X (1..MaxOrders) : p[2] <= Len(B[p[1]]) /\ B[p[1]][p[2]].user = u}
OrderAt(B, u) == [p \in OrdersOf(B, u) |-> B[p[1]][p[2]]]

BookFits(B) == B \in [Articles -> Seq(Market_Order)] /\ \A a \in Articles : Len(B[a]) <= MaxOrders
EachOnce(S) ==
    \A it \in Items :
        \E u \in Users, n \in Slots :
            /\ n \in SlotsHolding(S[u], it)
            /\ \A v \in Users, k \in Slots : k \in SlotsHolding(S[v], it) => v = u /\ k = n
Backed(S, B) == \A u \in Users : BackedBy(S[u], OrdersOf(B, u), OrderAt(B, u))
ViewFits(S, B) == BookFits(B) /\ EachOnce(S) /\ Backed(S, B)

LEMMA PlaceIs ==
    ASSUME NEW B, NEW u, NEW x
    PROVE  /\ x \in OrdersOf(B, u) <=>
                \E c \in Articles, k \in 1..MaxOrders : x = <<c, k>> /\ k <= Len(B[c]) /\ B[c][k].user = u
           /\ \A c, k : x = <<c, k>> /\ x \in OrdersOf(B, u) => OrderAt(B, u)[x] = B[c][k]
<1>1. ASSUME x \in OrdersOf(B, u)
      PROVE  \E c \in Articles, k \in 1..MaxOrders : x = <<c, k>> /\ k <= Len(B[c]) /\ B[c][k].user = u
  <2>1. PICK c \in Articles, k \in 1..MaxOrders : x = <<c, k>>
    BY <1>1 DEF OrdersOf
  <2>2. x[2] <= Len(B[x[1]]) /\ B[x[1]][x[2]].user = u /\ x[1] = c /\ x[2] = k
    BY <1>1, <2>1 DEF OrdersOf
  <2>3. k <= Len(B[c]) /\ B[c][k].user = u
    BY <2>2
  <2>4. QED
    BY <2>1, <2>3
<1>2. ASSUME NEW c \in Articles, NEW k \in 1..MaxOrders, x = <<c, k>>, k <= Len(B[c]), B[c][k].user = u
      PROVE  x \in OrdersOf(B, u)
  <2>1. x \in Articles \X (1..MaxOrders) /\ x[1] = c /\ x[2] = k
    BY <1>2
  <2>2. QED
    BY <1>2, <2>1 DEF OrdersOf
<1>3. ASSUME NEW c, NEW k, x = <<c, k>>, x \in OrdersOf(B, u)
      PROVE  OrderAt(B, u)[x] = B[c][k]
  <2>1. x[1] = c /\ x[2] = k
    BY <1>3
  <2>2. QED
    BY <1>3, <2>1 DEF OrderAt
<1>4. QED
    BY <1>1, <1>2, <1>3

PlacesAdded(B, D, q, o) ==
    \A u :
        /\ q \notin OrdersOf(B, u)
        /\ \A x : x \in OrdersOf(D, u) <=> x \in OrdersOf(B, u) \/ (x = q /\ u = o.user)
        /\ \A x \in OrdersOf(B, u) : OrderAt(D, u)[x] = OrderAt(B, u)[x]
        /\ u = o.user => OrderAt(D, u)[q] = o

LEMMA PlacesAfterAppend ==
    ASSUME NEW B, NEW c \in Articles, NEW o \in Market_Order, NEW D \in [Articles -> Seq(Market_Order)],
           BookFits(B), Len(B[c]) < MaxOrders, D[c] = Append(B[c], o), \A a \in Articles \ {c} : D[a] = B[a]
    PROVE  BookFits(D) /\ PlacesAdded(B, D, <<c, Len(B[c]) + 1>>, o)
<1>a. SUFFICES ASSUME NEW q, q = <<c, Len(B[c]) + 1>>, NEW u
               PROVE  /\ BookFits(D)
                      /\ q \notin OrdersOf(B, u)
                      /\ \A x : x \in OrdersOf(D, u) <=> x \in OrdersOf(B, u) \/ (x = q /\ u = o.user)
                      /\ \A x \in OrdersOf(B, u) : OrderAt(D, u)[x] = OrderAt(B, u)[x]
                      /\ u = o.user => OrderAt(D, u)[q] = o
    BY DEF PlacesAdded
<1>1. PICK n \in Nat : n = Len(B[c])
    BY DEF BookFits
<1>2. /\ D \in [Articles -> Seq(Market_Order)]
      /\ \A a \in Articles \ {c} : D[a] = B[a]
      /\ Len(D[c]) = n + 1 /\ (\A k \in 1..n : D[c][k] = B[c][k]) /\ D[c][n + 1] = o
    BY <1>1, AppendProperties DEF BookFits
<1>3. n + 1 \in 1..MaxOrders
    BY <1>1, MaxOrdersAssumption
<1>4. BookFits(D)
  <2>1. ASSUME NEW a \in Articles
        PROVE  Len(D[a]) <= MaxOrders
    <3>1. CASE a = c
        BY <1>2, <1>3, <3>1
    <3>2. CASE a # c
      <4>1. D[a] = B[a]
        BY <1>2, <3>2
      <4>2. QED
        BY <4>1 DEF BookFits
    <3>3. QED
        BY <3>1, <3>2
  <2>2. QED
    BY <2>1 DEF BookFits
<1>5. q \notin OrdersOf(B, u)
  <2>1. SUFFICES ASSUME q \in OrdersOf(B, u) PROVE FALSE
    OBVIOUS
  <2>2. PICK a \in Articles, k \in 1..MaxOrders : q = <<a, k>> /\ k <= Len(B[a])
    BY <2>1, PlaceIs
  <2>3. QED
    BY <1>a, <1>1, <2>2
<1>6. ASSUME NEW x \in OrdersOf(B, u)
      PROVE  x \in OrdersOf(D, u) /\ OrderAt(D, u)[x] = OrderAt(B, u)[x]
  <2>1. PICK a \in Articles, k \in 1..MaxOrders : x = <<a, k>> /\ k <= Len(B[a]) /\ B[a][k].user = u
    BY PlaceIs
  <2>2. k <= Len(D[a]) /\ D[a][k] = B[a][k]
    <3>1. CASE a = c
      <4>1. k \in 1..n
        BY <1>1, <2>1, <3>1
      <4>2. QED
        BY <1>2, <3>1, <4>1
    <3>2. CASE a # c
      <4>1. D[a] = B[a]
        BY <1>2, <3>2
      <4>2. QED
        BY <2>1, <4>1
    <3>3. QED
        BY <3>1, <3>2
  <2>3. D[a][k].user = u
    BY <2>1, <2>2
  <2>4. x \in OrdersOf(D, u)
    BY <2>1, <2>2, <2>3, PlaceIs
  <2>5. OrderAt(D, u)[x] = D[a][k] /\ OrderAt(B, u)[x] = B[a][k]
    BY <2>1, <2>4, PlaceIs
  <2>6. QED
    BY <2>2, <2>4, <2>5
<1>7. ASSUME u = o.user
      PROVE  q \in OrdersOf(D, u) /\ OrderAt(D, u)[q] = o
  <2>1. PICK k \in 1..MaxOrders : k = n + 1
    BY <1>3
  <2>2. q = <<c, k>> /\ k <= Len(D[c]) /\ D[c][k] = o
    BY <1>a, <1>1, <1>2, <2>1
  <2>3. D[c][k].user = u
    BY <1>7, <2>2
  <2>4. q \in OrdersOf(D, u)
    BY <2>2, <2>3, PlaceIs
  <2>5. OrderAt(D, u)[q] = D[c][k]
    BY <2>2, <2>4, PlaceIs
  <2>6. QED
    BY <2>2, <2>4, <2>5
<1>8. ASSUME NEW x \in OrdersOf(D, u)
      PROVE  x \in OrdersOf(B, u) \/ (x = q /\ u = o.user)
  <2>1. PICK a \in Articles, k \in 1..MaxOrders : x = <<a, k>> /\ k <= Len(D[a]) /\ D[a][k].user = u
    BY PlaceIs
  <2>2. CASE a = c /\ k = n + 1
    BY <1>a, <1>1, <1>2, <2>1, <2>2
  <2>3. CASE ~(a = c /\ k = n + 1)
    <3>1. k <= Len(B[a]) /\ D[a][k] = B[a][k]
      <4>1. CASE a = c
        <5>1. k \in 1..n
            BY <1>2, <2>1, <2>3, <4>1
        <5>2. QED
            BY <1>1, <1>2, <4>1, <5>1
      <4>2. CASE a # c
        <5>1. D[a] = B[a]
            BY <1>2, <4>2
        <5>2. QED
            BY <2>1, <5>1
      <4>3. QED
        BY <4>1, <4>2
    <3>2. B[a][k].user = u
        BY <2>1, <3>1
    <3>3. QED
        BY <2>1, <3>1, <3>2, PlaceIs
  <2>4. QED
    BY <2>2, <2>3
<1>9. QED
    BY <1>4, <1>5, <1>6, <1>7, <1>8

\* The orders of user u that are left, one by one.
PlacesMoved(B, D, u, Gone) ==
    \E f \in [OrdersOf(D, u) -> OrdersOf(B, u) \ Gone] :
        /\ \A x \in OrdersOf(D, u), y \in OrdersOf(D, u) : f[x] = f[y] => x = y
        /\ \A z \in OrdersOf(B, u) \ Gone : \E x \in OrdersOf(D, u) : f[x] = z
        /\ \A x \in OrdersOf(D, u) : OrderAt(D, u)[x] = OrderAt(B, u)[f[x]]

LEMMA PlacesAfterRemoval ==
    ASSUME NEW B, NEW c \in Articles, NEW i \in 1..Len(B[c]), NEW j \in (i + 1)..Len(B[c]),
           NEW D \in [Articles -> Seq(Market_Order)], BookFits(B), D[c] = RemoveAt(RemoveAt(B[c], j), i),
           \A a \in Articles \ {c} : D[a] = B[a]
    PROVE  BookFits(D) /\ \A u : PlacesMoved(B, D, u, {<<c, i>>, <<c, j>>})
<1>a. SUFFICES ASSUME NEW u
               PROVE  BookFits(D) /\ PlacesMoved(B, D, u, {<<c, i>>, <<c, j>>})
    OBVIOUS
<1>1. PICK n \in Nat : n = Len(B[c])
    BY DEF BookFits
<1>2. i \in 1..n /\ j \in (i + 1)..n /\ n <= MaxOrders /\ n - 2 \in Nat
    BY <1>1 DEF BookFits
<1>3. PICK r : r = RemoveAt(RemoveAt(B[c], j), i)
    OBVIOUS
<1>4. /\ r \in Seq(Market_Order) /\ Len(r) = n - 2
      /\ \A k \in 1..n - 2 : r[k] = B[c][Before(k, i, j)]
  <2>1. B[c] \in Seq(Market_Order)
    BY DEF BookFits
  <2>2. PICK s \in Seq(Market_Order) : s = B[c]
    BY <2>1
  <2>3. i \in 1..Len(s) /\ j \in (i + 1)..Len(s) /\ r = RemoveAt(RemoveAt(s, j), i)
    BY <1>3, <2>2
  <2>4. /\ r \in Seq(Market_Order) /\ Len(r) = Len(s) - 2
        /\ \A k \in 1..Len(r) : Before(k, i, j) \in 1..Len(s) /\ r[k] = s[Before(k, i, j)]
    BY <2>3, RemovedTwo
  <2>5. QED
    BY <1>1, <2>2, <2>4
<1>5. /\ D \in [Articles -> Seq(Market_Order)]
      /\ \A a \in Articles \ {c} : D[a] = B[a]
      /\ Len(D[c]) = n - 2 /\ \A k \in 1..n - 2 : D[c][k] = B[c][Before(k, i, j)]
  <2>1. D[c] = r /\ \A a \in Articles \ {c} : D[a] = B[a]
    BY <1>3 DEF BookFits
  <2>2. QED
    BY <1>4, <2>1
<1>6. BookFits(D)
  <2>1. ASSUME NEW a \in Articles
        PROVE  Len(D[a]) <= MaxOrders
    <3>1. CASE a = c
        BY <1>2, <1>5, <3>1, MaxOrdersAssumption
    <3>2. CASE a # c
      <4>1. D[a] = B[a]
        BY <1>5, <3>2
      <4>2. QED
        BY <4>1 DEF BookFits
    <3>3. QED
        BY <3>1, <3>2
  <2>2. QED
    BY <2>1 DEF BookFits
<1>7. /\ \A k \in 1..n - 2 : Before(k, i, j) \in 1..n /\ Before(k, i, j) # i /\ Before(k, i, j) # j
      /\ \A k, l \in 1..n - 2 : Before(k, i, j) = Before(l, i, j) => k = l
      /\ \A m \in 1..n : m # i /\ m # j => \E k \in 1..n - 2 : Before(k, i, j) = m
    BY <1>2, PlacesLeft
<1>8. PICK f : f = [x \in OrdersOf(D, u) |-> IF x[1] = c THEN <<c, Before(x[2], i, j)>> ELSE x]
    OBVIOUS
<1>9. ASSUME NEW x \in OrdersOf(D, u)
      PROVE  \E a \in Articles, k \in 1..MaxOrders :
                /\ x = <<a, k>> /\ k <= Len(D[a])
                /\ a # c => f[x] = x
                /\ a = c => k \in 1..n - 2 /\ f[x] = <<c, Before(k, i, j)>>
                /\ f[x] \in OrdersOf(B, u) /\ f[x] # <<c, i>> /\ f[x] # <<c, j>>
                /\ OrderAt(D, u)[x] = OrderAt(B, u)[f[x]]
  <2>1. PICK a \in Articles, k \in 1..MaxOrders : x = <<a, k>> /\ k <= Len(D[a]) /\ D[a][k].user = u
    BY PlaceIs
  <2>2. OrderAt(D, u)[x] = D[a][k]
    BY <2>1, PlaceIs
  <2>3. x[1] = a /\ x[2] = k
    BY <2>1
  <2>4. CASE a = c
    <3>1. k \in 1..n - 2 /\ f[x] = <<c, Before(k, i, j)>>
        BY <1>5, <1>8, <2>1, <2>3, <2>4
    <3>2. PICK l \in 1..n : l = Before(k, i, j) /\ l # i /\ l # j
        BY <1>7, <3>1
    <3>3. D[c][k] = B[c][l] /\ l \in 1..MaxOrders /\ l <= Len(B[c]) /\ B[c][l].user = u
      <4>1. D[c][k] = B[c][l]
        BY <1>5, <3>1, <3>2
      <4>2. l \in 1..MaxOrders /\ l <= Len(B[c])
        BY <1>1, <1>2, <3>2, MaxOrdersAssumption
      <4>3. D[c][k].user = u
        BY <2>1, <2>4
      <4>4. QED
        BY <4>1, <4>2, <4>3
    <3>4. f[x] = <<c, l>>
        BY <3>1, <3>2
    <3>5. f[x] \in OrdersOf(B, u) /\ OrderAt(B, u)[f[x]] = B[c][l]
        BY <3>3, <3>4, PlaceIs
    <3>6. f[x] # <<c, i>> /\ f[x] # <<c, j>>
        BY <3>2, <3>4
    <3>7. QED
        BY <2>1, <2>2, <2>4, <3>1, <3>3, <3>5, <3>6
  <2>5. CASE a # c
    <3>1. f[x] = x
        BY <1>8, <2>3, <2>5
    <3>2. D[a] = B[a]
        BY <1>5, <2>5
    <3>3. f[x] \in OrdersOf(B, u) /\ OrderAt(B, u)[f[x]] = B[a][k]
        BY <2>1, <3>1, <3>2, PlaceIs
    <3>4. f[x] # <<c, i>> /\ f[x] # <<c, j>>
        BY <2>1, <2>5, <3>1
    <3>5. QED
        BY <2>1, <2>2, <2>5, <3>1, <3>2, <3>3, <3>4
  <2>6. QED
    BY <2>4, <2>5
<1>10. f \in [OrdersOf(D, u) -> {x \in OrdersOf(B, u) : x # <<c, i>> /\ x # <<c, j>>}]
    BY <1>8, <1>9
<1>11. ASSUME NEW x \in OrdersOf(D, u), NEW y \in OrdersOf(D, u), f[x] = f[y]
       PROVE  x = y
  <2>1. PICK a \in Articles, k \in 1..MaxOrders :
            /\ x = <<a, k>>
            /\ a # c => f[x] = x
            /\ a = c => k \in 1..n - 2 /\ f[x] = <<c, Before(k, i, j)>>
    BY <1>9
  <2>2. PICK b \in Articles, l \in 1..MaxOrders :
            /\ y = <<b, l>>
            /\ b # c => f[y] = y
            /\ b = c => l \in 1..n - 2 /\ f[y] = <<c, Before(l, i, j)>>
    BY <1>9
  <2>3. CASE a = c /\ b = c
    <3>1. k \in 1..n - 2 /\ l \in 1..n - 2 /\ f[x] = <<c, Before(k, i, j)>> /\ f[y] = <<c, Before(l, i, j)>>
        BY <2>1, <2>2, <2>3
    <3>2. Before(k, i, j) = Before(l, i, j)
      <4>1. PICK g, h : g = Before(k, i, j) /\ h = Before(l, i, j)
        OBVIOUS
      <4>2. <<c, g>> = <<c, h>>
        BY <1>11, <3>1, <4>1
      <4>3. g = h
        BY <4>2
      <4>4. QED
        BY <4>1, <4>3
    <3>3. k = l
        BY <1>7, <3>1, <3>2
    <3>4. QED
        BY <2>1, <2>2, <2>3, <3>3
  <2>4. CASE a # c /\ b # c
    BY <1>11, <2>1, <2>2, <2>4
  <2>5. CASE a = c /\ b # c
    <3>1. PICK g : g = Before(k, i, j)
        OBVIOUS
    <3>2. <<c, g>> = <<b, l>>
        BY <1>11, <2>1, <2>2, <2>5, <3>1
    <3>3. c = b
        BY <3>2
    <3>4. QED
        BY <2>5, <3>3
  <2>6. CASE a # c /\ b = c
    <3>1. PICK g : g = Before(l, i, j)
        OBVIOUS
    <3>2. <<c, g>> = <<a, k>>
        BY <1>11, <2>1, <2>2, <2>6, <3>1
    <3>3. c = a
        BY <3>2
    <3>4. QED
        BY <2>6, <3>3
  <2>7. QED
    BY <2>3, <2>4, <2>5, <2>6
<1>12. ASSUME NEW z \in OrdersOf(B, u), z # <<c, i>>, z # <<c, j>>
       PROVE  \E x \in OrdersOf(D, u) : f[x] = z
  <2>1. PICK a \in Articles, m \in 1..MaxOrders : z = <<a, m>> /\ m <= Len(B[a]) /\ B[a][m].user = u
    BY PlaceIs
  <2>2. CASE a = c
    <3>1. m \in 1..n /\ m # i /\ m # j
        BY <1>1, <1>12, <2>1, <2>2
    <3>2. PICK k \in 1..n - 2 : Before(k, i, j) = m
        BY <1>7, <3>1
    <3>3. k \in 1..MaxOrders /\ k <= Len(D[c]) /\ D[c][k] = B[c][m]
        BY <1>2, <1>5, <3>2, MaxOrdersAssumption
    <3>4. PICK x : x = <<c, k>>
        OBVIOUS
    <3>5. D[c][k].user = u
        BY <2>1, <2>2, <3>3
    <3>6. x \in OrdersOf(D, u)
        BY <3>3, <3>4, <3>5, PlaceIs
    <3>7. x[1] = c /\ x[2] = k
        BY <3>4
    <3>8. f[x] = z
        BY <1>8, <2>1, <2>2, <3>2, <3>6, <3>7
    <3>9. QED
        BY <3>6, <3>8
  <2>3. CASE a # c
    <3>1. D[a] = B[a]
        BY <1>5, <2>3
    <3>2. z \in OrdersOf(D, u)
        BY <2>1, <3>1, PlaceIs
    <3>3. z[1] = a
        BY <2>1
    <3>4. f[z] = z
        BY <1>8, <2>3, <3>2, <3>3
    <3>5. QED
        BY <3>2, <3>4
  <2>4. QED
    BY <2>2, <2>3
<1>13. \A x \in OrdersOf(D, u) : OrderAt(D, u)[x] = OrderAt(B, u)[f[x]]
    BY <1>9
<1>14. QED
  <2>1. PICK Gone : Gone = {<<c, i>>, <<c, j>>}
    OBVIOUS
  <2>2. f \in [OrdersOf(D, u) -> OrdersOf(B, u) \ Gone]
    BY <1>10, <2>1
  <2>3. \A z \in OrdersOf(B, u) \ Gone : \E x \in OrdersOf(D, u) : f[x] = z
    BY <1>12, <2>1
  <2>4. PlacesMoved(B, D, u, Gone)
    BY <1>11, <1>13, <2>2, <2>3 DEF PlacesMoved
  <2>5. QED
    BY <1>6, <2>1, <2>4
LEMMA UniquelyHeld ==
    ASSUME NEW S, NEW u \in Users, NEW it \in Items, NEW n \in Slots, EachOnce(S), n \in SlotsHolding(S[u], it)
    PROVE  \A v \in Users, k \in Slots : k \in SlotsHolding(S[v], it) => v = u /\ k = n
BY DEF EachOnce

\* An order holds one slot only.
LEMMA HoldsOne ==
    ASSUME NEW S, NEW u \in Users, NEW o, NEW n \in Slots, EachOnce(S), o.is_buy_order = FALSE => o.item \in Items,
           Holds(S[u], o, n)
    PROVE  \A k \in Slots : Holds(S[u], o, k) => k = n
BY UniquelyHeld DEF Holds

\* Items that stay where they are.
LEMMA OnceKept ==
    ASSUME NEW S, NEW R, EachOnce(S),
           \A v \in Users, k \in Slots, it \in Items : k \in SlotsHolding(R[v], it) <=> k \in SlotsHolding(S[v], it)
    PROVE  EachOnce(R)
<1>1. ASSUME NEW it \in Items
      PROVE  \E u \in Users, n \in Slots :
                /\ n \in SlotsHolding(R[u], it)
                /\ \A v \in Users, k \in Slots : k \in SlotsHolding(R[v], it) => v = u /\ k = n
  <2>1. PICK u \in Users, n \in Slots :
                /\ n \in SlotsHolding(S[u], it)
                /\ \A v \in Users, k \in Slots : k \in SlotsHolding(S[v], it) => v = u /\ k = n
    BY DEF EachOnce
  <2>2. n \in SlotsHolding(R[u], it)
    BY <2>1
  <2>3. \A v \in Users, k \in Slots : k \in SlotsHolding(R[v], it) => v = u /\ k = n
    BY <2>1
  <2>4. QED
    BY <2>2, <2>3
<1>2. QED
    BY <1>1 DEF EachOnce

\* One item goes from one slot to an empty one of another user.
ItemMoved(S, R, u, v, n, m, item) ==
    /\ n \in SlotsHolding(S[u], item)
    /\ m \in SlotsHolding(S[v], NoItem)
    /\ \A k \in Slots, it \in Items : k \in SlotsHolding(R[u], it) <=> k # n /\ k \in SlotsHolding(S[u], it)
    /\ \A k \in Slots, it \in Items :
            k \in SlotsHolding(R[v], it) <=> (k = m /\ it = item) \/ (k # m /\ k \in SlotsHolding(S[v], it))
    /\ \A w \in Users \ {u, v}, k \in Slots, it \in Items : k \in SlotsHolding(R[w], it) <=> k \in SlotsHolding(S[w], it)

LEMMA OnceMoved ==
    ASSUME NEW S, NEW R, NEW u \in Users, NEW v \in Users, NEW n \in Slots, NEW m \in Slots, NEW item \in Items,
           EachOnce(S), u # v, ItemMoved(S, R, u, v, n, m, item)
    PROVE  EachOnce(R)
<1>0. /\ n \in SlotsHolding(S[u], item)
      /\ m \in SlotsHolding(S[v], NoItem)
      /\ \A k \in Slots, it \in Items : k \in SlotsHolding(R[u], it) <=> k # n /\ k \in SlotsHolding(S[u], it)
      /\ \A k \in Slots, it \in Items :
            k \in SlotsHolding(R[v], it) <=> (k = m /\ it = item) \/ (k # m /\ k \in SlotsHolding(S[v], it))
      /\ \A w \in Users \ {u, v}, k \in Slots, it \in Items : k \in SlotsHolding(R[w], it) <=> k \in SlotsHolding(S[w], it)
    BY DEF ItemMoved
<1>1. ASSUME NEW it \in Items
      PROVE  \E w \in Users, x \in Slots :
                /\ x \in SlotsHolding(R[w], it)
                /\ \A t \in Users, k \in Slots : k \in SlotsHolding(R[t], it) => t = w /\ k = x
  <2>1. CASE it = item
    <3>1. \A t \in Users, k \in Slots : k \in SlotsHolding(S[t], it) => t = u /\ k = n
        BY <1>0, <2>1, UniquelyHeld
    <3>2. m \in SlotsHolding(R[v], it)
        BY <1>0, <2>1
    <3>3. ASSUME NEW t \in Users, NEW k \in Slots, k \in SlotsHolding(R[t], it)
          PROVE  t = v /\ k = m
      <4>1. CASE t = v
        BY <1>0, <2>1, <3>1, <3>3, <4>1
      <4>2. CASE t = u
        BY <1>0, <3>1, <3>3, <4>2
      <4>3. CASE t \in Users \ {u, v}
        BY <1>0, <3>1, <3>3, <4>3
      <4>4. QED
        BY <4>1, <4>2, <4>3
    <3>4. QED
        BY <1>0, <3>2, <3>3
  <2>2. CASE it # item
    <3>1. PICK w \in Users, x \in Slots :
                /\ x \in SlotsHolding(S[w], it)
                /\ \A t \in Users, k \in Slots : k \in SlotsHolding(S[t], it) => t = w /\ k = x
        BY DEF EachOnce
    <3>2. x \in SlotsHolding(R[w], it)
      <4>1. CASE w = u
        <5>1. x # n
            BY <1>0, <2>2, <3>1, <4>1 DEF SlotsHolding
        <5>2. QED
            BY <1>0, <3>1, <4>1, <5>1
      <4>2. CASE w = v
        <5>1. x # m
            BY <1>0, <3>1, <4>2, ItemAssumption DEF SlotsHolding
        <5>2. QED
            BY <1>0, <3>1, <4>2, <5>1
      <4>3. CASE w \in Users \ {u, v}
        BY <1>0, <3>1, <4>3
      <4>4. QED
        BY <4>1, <4>2, <4>3
    <3>3. ASSUME NEW t \in Users, NEW k \in Slots, k \in SlotsHolding(R[t], it)
          PROVE  t = w /\ k = x
      <4>1. k \in SlotsHolding(S[t], it)
        <5>1. CASE t = v
            BY <1>0, <2>2, <3>3, <5>1
        <5>2. CASE t = u
            BY <1>0, <3>3, <5>2
        <5>3. CASE t \in Users \ {u, v}
            BY <1>0, <3>3, <5>3
        <5>4. QED
            BY <5>1, <5>2, <5>3
      <4>2. QED
        BY <1>0, <3>1, <4>1
    <3>4. QED
        BY <1>0, <3>2, <3>3
  <2>3. QED
    BY <1>0, <2>1, <2>2
<1>2. QED
    BY <1>1 DEF EachOnce

\* An order comes to stand, for which its user's slot n is reserved.
OrderComes(B, D, c, o) ==
    /\ Len(B[c]) < MaxOrders
    /\ D[c] = Append(B[c], o)
    /\ \A x \in Articles \ {c} : D[x] = B[x]
OrderHeld(S, R, o, n) ==
    /\ o.is_buy_order = FALSE => o.item \in Items
    /\ ReservedFor(S[o.user], R[o.user], o, n)
    /\ R[o.user].money = S[o.user].money
    /\ o.is_buy_order = TRUE => o.price <= S[o.user].money - S[o.user].money_reservations[MarketServer]
    /\ \A v \in Users \ {o.user} : R[v] = S[v]
LEMMA PlacingFits ==
    ASSUME NEW S, NEW B, NEW c \in Articles, NEW o \in Market_Order, NEW n \in Slots, NEW R,
           NEW D \in [Articles -> Seq(Market_Order)], ViewFits(S, B),
           OrderComes(B, D, c, o), OrderHeld(S, R, o, n)
    PROVE  ViewFits(R, D)
<1>1. BookFits(B) /\ EachOnce(S) /\ Backed(S, B)
    BY DEF ViewFits
<1>2. PICK q, u, a, b : q = <<c, Len(B[c]) + 1>> /\ u = o.user /\ a = S[u] /\ b = R[u]
    OBVIOUS
<1>3. /\ ReservedFor(a, b, o, n) /\ \A v \in Users \ {u} : R[v] = S[v]
      /\ o.is_buy_order = FALSE => o.item \in Items
    BY <1>2 DEF OrderHeld
<1>4. BookFits(D) /\ PlacesAdded(B, D, q, o)
  <2>1. Len(B[c]) < MaxOrders /\ D[c] = Append(B[c], o) /\ \A x \in Articles \ {c} : D[x] = B[x]
    BY DEF OrderComes
  <2>2. QED
    BY <1>1, <1>2, <2>1, PlacesAfterAppend
<1>5. EachOnce(R)
  <2>1. ASSUME NEW v \in Users, NEW k \in Slots, NEW it \in Items
        PROVE  k \in SlotsHolding(R[v], it) <=> k \in SlotsHolding(S[v], it)
    <3>1. CASE v = u
      <4>1. k \in SlotsHolding(b, it) <=> k \in SlotsHolding(a, it)
        BY <1>3 DEF SlotsHolding, ReservedFor
      <4>2. QED
        BY <1>2, <3>1, <4>1
    <3>2. CASE v # u
        BY <1>3, <3>2
    <3>3. QED
        BY <3>1, <3>2
  <2>2. QED
    BY <1>1, <2>1, OnceKept
<1>6. ASSUME NEW v \in Users
      PROVE  BackedBy(R[v], OrdersOf(D, v), OrderAt(D, v))
  <2>0. PICK O, ord, P, new : O = OrdersOf(B, v) /\ ord = OrderAt(B, v) /\ P = OrdersOf(D, v) /\ new = OrderAt(D, v)
    OBVIOUS
  <2>1. BackedBy(S[v], O, ord)
    BY <1>1, <2>0 DEF Backed
  <2>2. /\ q \notin O
        /\ \A x : x \in P <=> x \in O \/ (x = q /\ v = u)
        /\ \A x \in O : new[x] = ord[x]
        /\ v = u => new[q] = o
    BY <1>2, <1>4, <2>0 DEF PlacesAdded
  <2>3. CASE v = u
    <3>1. BackedBy(a, O, ord)
        BY <1>2, <2>1, <2>3
    <3>2. OrderAdded(O, ord, q, o, P, new)
        BY <2>2, <2>3 DEF OrderAdded
    <3>3. BackedBy(b, P, new)
        BY <1>3, <3>1, <3>2, OrderBacked
    <3>4. R[v] = b
        BY <1>2, <2>3
    <3>5. QED
        BY <2>0, <3>3, <3>4
  <2>4. CASE v # u
    <3>1. R[v] = S[v]
        BY <1>3, <2>4
    <3>2. P = O
        BY <2>2, <2>4
    <3>3. PICK f : f = [x \in P |-> x]
        OBVIOUS
    <3>4. /\ f \in [P -> O]
          /\ \A x \in P, y \in P : f[x] = f[y] => x = y
          /\ \A z \in O : \E x \in P : f[x] = z
          /\ \A x \in P : new[x] = ord[f[x]]
        BY <2>2, <3>2, <3>3
    <3>5. BackedBy(S[v], P, new)
        BY <2>1, <3>4, OrdersMoved
    <3>6. QED
        BY <2>0, <3>1, <3>5
  <2>5. QED
    BY <2>3, <2>4
<1>7. QED
    BY <1>4, <1>5, <1>6 DEF ViewFits, Backed
\* A bid and an offer go, and the item goes from the slot the offer held to the one the bid held.
OrdersMatched(os, i, j, x, y, bid, ask) ==
    /\ i \in 1..Len(os) /\ j \in (i + 1)..Len(os)
    /\ x \in {i, j} /\ y \in {i, j} /\ x # y
    /\ bid = os[x] /\ ask = os[y]
    /\ bid.is_buy_order = TRUE /\ ask.is_buy_order = FALSE /\ bid.user # ask.user
    /\ ask.price <= bid.price
TradeMade(S, R, bid, ask, n) ==
    /\ FreedOf(S[ask.user], R[ask.user], ask, n, NoItem)
    /\ FreedOf(S[bid.user], R[bid.user], bid, bid.slot, ask.item)
    /\ bid.slot \in SlotsHolding(S[bid.user], NoItem)
    /\ \A v \in Users : v # ask.user /\ v # bid.user => R[v] = S[v]
    /\ R[ask.user].money = S[ask.user].money + ask.price
    /\ R[bid.user].money = S[bid.user].money - ask.price
OrdersGone(B, D, c, i, j) ==
    /\ D[c] = RemoveAt(RemoveAt(B[c], j), i)
    /\ \A a \in Articles \ {c} : D[a] = B[a]
LEMMA TradingFits ==
    ASSUME NEW S, NEW B, NEW c \in Articles, NEW i, NEW j, NEW x, NEW y, NEW bid, NEW ask, NEW n \in Slots,
           NEW R, NEW D \in [Articles -> Seq(Market_Order)], ViewFits(S, B),
           OrdersMatched(B[c], i, j, x, y, bid, ask), TradeMade(S, R, bid, ask, n), OrdersGone(B, D, c, i, j)
    PROVE  ViewFits(R, D)
<1>a. /\ i \in 1..Len(B[c]) /\ j \in (i + 1)..Len(B[c])
      /\ x \in {i, j} /\ y \in {i, j} /\ x # y
    BY DEF OrdersMatched
<1>b. /\ bid = B[c][x] /\ ask = B[c][y] /\ bid.is_buy_order = TRUE /\ ask.is_buy_order = FALSE
      /\ bid.user # ask.user
    BY DEF OrdersMatched
<1>1. BookFits(B) /\ EachOnce(S) /\ Backed(S, B)
    BY DEF ViewFits
<1>2. PICK px, py, buyer, seller : px = <<c, x>> /\ py = <<c, y>> /\ buyer = bid.user /\ seller = ask.user
    OBVIOUS
<1>3. /\ buyer \in Users /\ seller \in Users /\ buyer # seller /\ bid.slot \in Slots
      /\ bid \in Market_Order /\ ask \in Market_Order
  <2>1. x \in 1..Len(B[c]) /\ y \in 1..Len(B[c])
    BY <1>1, <1>a DEF BookFits
  <2>2. B[c] \in Seq(Market_Order)
    BY <1>1 DEF BookFits
  <2>3. bid \in Market_Order /\ ask \in Market_Order
    BY <1>b, <2>1, <2>2, ElementOfSeq
  <2>4. QED
    BY <1>2, <1>b, <2>3, OrderTypes
<1>4. \A v : /\ px \in OrdersOf(B, v) <=> v = buyer
             /\ py \in OrdersOf(B, v) <=> v = seller
  <2>1. x \in 1..MaxOrders /\ y \in 1..MaxOrders /\ x <= Len(B[c]) /\ y <= Len(B[c])
    <3>1. B[c] \in Seq(Market_Order) /\ Len(B[c]) <= MaxOrders
        BY <1>1 DEF BookFits
    <3>2. QED
        BY <1>a, <3>1, MaxOrdersAssumption
  <2>2. ASSUME NEW v, NEW p, NEW k \in 1..MaxOrders, p = <<c, k>>, k <= Len(B[c])
        PROVE  p \in OrdersOf(B, v) <=> v = B[c][k].user
    <3>1. v = B[c][k].user => p \in OrdersOf(B, v)
        BY <2>2, PlaceIs
    <3>2. ASSUME p \in OrdersOf(B, v)
          PROVE  v = B[c][k].user
      <4>1. PICK a \in Articles, l \in 1..MaxOrders : p = <<a, l>> /\ l <= Len(B[a]) /\ B[a][l].user = v
        BY <3>2, PlaceIs
      <4>2. a = c /\ l = k
        BY <2>2, <4>1
      <4>3. QED
        BY <4>1, <4>2
    <3>3. QED
        BY <3>1, <3>2
  <2>3. \A v : px \in OrdersOf(B, v) <=> v = buyer
    BY <1>2, <1>b, <2>1, <2>2
  <2>4. \A v : py \in OrdersOf(B, v) <=> v = seller
    BY <1>2, <1>b, <2>1, <2>2
  <2>5. QED
    BY <2>3, <2>4
<1>5. OrderAt(B, buyer)[px] = bid /\ OrderAt(B, seller)[py] = ask
  <2>1. px \in OrdersOf(B, buyer) /\ py \in OrdersOf(B, seller)
    BY <1>4
  <2>2. OrderAt(B, buyer)[px] = B[c][x] /\ OrderAt(B, seller)[py] = B[c][y]
    BY <1>2, <2>1, PlaceIs
  <2>3. QED
    BY <1>b, <2>2
<1>6. ask.item \in Items
  <2>1. OrdersFit(OrdersOf(B, seller), OrderAt(B, seller))
    BY <1>1, <1>3 DEF Backed, BackedBy
  <2>2. py \in OrdersOf(B, seller) /\ OrderAt(B, seller)[py].is_buy_order = FALSE
    BY <1>4, <1>5, <1>b
  <2>3. QED
    BY <1>5, <2>1, <2>2 DEF OrdersFit
<1>7. /\ FreedOf(S[seller], R[seller], ask, n, NoItem)
      /\ FreedOf(S[buyer], R[buyer], bid, bid.slot, ask.item)
      /\ bid.slot \in SlotsHolding(S[buyer], NoItem)
      /\ \A v \in Users : v # seller /\ v # buyer => R[v] = S[v]
    BY <1>2 DEF TradeMade
<1>c. n \in SlotsHolding(S[seller], ask.item)
  <2>1. Holds(S[seller], ask, n)
    BY <1>7 DEF FreedOf
  <2>2. QED
    BY <1>b, <2>1 DEF Holds
<1>8. EachOnce(R)
  <2>1. n \in SlotsHolding(S[seller], ask.item)
    BY <1>c
  <2>2. \A k \in Slots, it \in Items :
            k \in SlotsHolding(R[seller], it) <=> k # n /\ k \in SlotsHolding(S[seller], it)
    <3>1. \A k \in Slots : R[seller].inventory[k].item = IF k = n THEN NoItem ELSE S[seller].inventory[k].item
        BY <1>7 DEF FreedOf
    <3>2. \A it \in Items : NoItem # it
        BY ItemAssumption
    <3>3. TAKE k \in Slots, it \in Items
    <3>4. CASE k = n
        BY <3>1, <3>2, <3>4 DEF SlotsHolding
    <3>5. CASE k # n
        BY <3>1, <3>5 DEF SlotsHolding
    <3>6. QED
        BY <3>4, <3>5
  <2>3. PICK m \in Slots : m = bid.slot
    BY <1>3
  <2>4. \A k \in Slots : R[buyer].inventory[k].item = IF k = m THEN ask.item ELSE S[buyer].inventory[k].item
    BY <1>7, <2>3 DEF FreedOf
  <2>5. \A k \in Slots, it \in Items :
            k \in SlotsHolding(R[buyer], it)
                <=> (k = m /\ it = ask.item) \/ (k # m /\ k \in SlotsHolding(S[buyer], it))
    BY <2>4 DEF SlotsHolding
  <2>6. \A w \in Users \ {seller, buyer}, k \in Slots, it \in Items :
            k \in SlotsHolding(R[w], it) <=> k \in SlotsHolding(S[w], it)
    BY <1>7
  <2>7. m \in SlotsHolding(S[buyer], NoItem) /\ seller # buyer
    BY <1>3, <1>7, <2>3
  <2>8. QED
    <3>1. PICK item \in Items : item = ask.item
        BY <1>6
    <3>2. ItemMoved(S, R, seller, buyer, n, m, item)
        BY <2>1, <2>2, <2>5, <2>6, <2>7, <3>1 DEF ItemMoved
    <3>3. QED
        BY <1>1, <1>3, <3>2, OnceMoved
<1>9. PICK Gone : Gone = {<<c, i>>, <<c, j>>}
    OBVIOUS
<1>10. BookFits(D) /\ \A v : PlacesMoved(B, D, v, Gone)
  <2>1. D[c] = RemoveAt(RemoveAt(B[c], j), i) /\ \A a \in Articles \ {c} : D[a] = B[a]
    BY DEF OrdersGone
  <2>2. QED
    BY <1>1, <1>9, <1>a, <2>1, PlacesAfterRemoval
<1>11. \A z : z \in Gone <=> z = px \/ z = py
  <2>1. px = <<c, i>> \/ px = <<c, j>>
    BY <1>2, <1>a
  <2>2. py = <<c, i>> \/ py = <<c, j>>
    BY <1>2, <1>a
  <2>3. px # py
    BY <1>2, <1>a
  <2>4. Gone = {px, py}
    BY <1>9, <1>2, <1>a, <2>1, <2>2, <2>3
  <2>5. QED
    BY <2>4
<1>12. ASSUME NEW v \in Users
       PROVE  BackedBy(R[v], OrdersOf(D, v), OrderAt(D, v))
  <2>0. PICK O, ord, P, new, mid : /\ O = OrdersOf(B, v) /\ ord = OrderAt(B, v)
                                   /\ P = OrdersOf(D, v) /\ new = OrderAt(D, v)
                                   /\ mid = OrdersOf(B, v) \ Gone
    OBVIOUS
  <2>1. BackedBy(S[v], O, ord)
    BY <1>1, <2>0 DEF Backed
  <2>2. \A z : z \in mid <=> z \in O /\ z # px /\ z # py
    BY <1>11, <2>0
  <2>3. (px \in O <=> v = buyer) /\ (py \in O <=> v = seller)
    BY <1>4, <2>0
  <2>4. BackedBy(R[v], mid, ord)
    <3>1. CASE v = seller
      <4>1. py \in O /\ ord[py] = ask
        BY <1>5, <2>0, <2>3, <3>1
      <4>2. \A z : z \in mid <=> z \in O /\ z # py
        BY <1>3, <2>2, <2>3, <3>1
      <4>3. \A p \in O : ord[p].is_buy_order = FALSE => ord[p].item # NoItem \/ p = py
        BY <2>1, ItemAssumption DEF BackedBy, OrdersFit
      <4>4. FreedOf(S[v], R[v], ord[py], n, NoItem)
        BY <1>7, <3>1, <4>1
      <4>5. OrderRemoved(O, ord, py, NoItem, mid)
        BY <4>2, <4>3 DEF OrderRemoved
      <4>6. QED
        BY <2>1, <4>1, <4>4, <4>5, OrderUnbacked
    <3>2. CASE v = buyer
      <4>1. px \in O /\ ord[px] = bid
        BY <1>5, <2>0, <2>3, <3>2
      <4>2. \A z : z \in mid <=> z \in O /\ z # px
        BY <1>3, <2>2, <2>3, <3>2
      <4>3. \A p \in O : ord[p].is_buy_order = FALSE => ord[p].item # ask.item \/ p = px
        <5>1. SUFFICES ASSUME NEW p \in O, ord[p].is_buy_order = FALSE, ord[p].item = ask.item
                       PROVE  FALSE
            OBVIOUS
        <5>2. PICK k \in Slots : Holds(S[v], ord[p], k)
            BY <2>1 DEF BackedBy, SlotsBacked
        <5>3. k \in SlotsHolding(S[v], ask.item)
            BY <5>1, <5>2 DEF Holds
        <5>4. n \in SlotsHolding(S[seller], ask.item)
            BY <1>c
        <5>5. v = seller
            BY <1>1, <1>3, <1>6, <5>3, <5>4, UniquelyHeld
        <5>6. QED
            BY <1>3, <3>2, <5>5
      <4>4. FreedOf(S[v], R[v], ord[px], bid.slot, ask.item)
        BY <1>7, <3>2, <4>1
      <4>5. OrderRemoved(O, ord, px, ask.item, mid)
        BY <4>2, <4>3 DEF OrderRemoved
      <4>6. QED
        BY <1>3, <2>1, <4>1, <4>4, <4>5, OrderUnbacked
    <3>3. CASE v # seller /\ v # buyer
      <4>1. mid = O
        BY <2>2, <2>3, <3>3
      <4>2. QED
        BY <1>7, <2>1, <3>3, <4>1
    <3>4. QED
        BY <3>1, <3>2, <3>3
  <2>5. PICK f \in [P -> mid] :
            /\ \A z \in P, w \in P : f[z] = f[w] => z = w
            /\ \A z \in mid : \E w \in P : f[w] = z
            /\ \A z \in P : new[z] = ord[f[z]]
    BY <1>10, <2>0 DEF PlacesMoved
  <2>6. BackedBy(R[v], P, new)
    BY <2>4, <2>5, OrdersMoved
  <2>7. QED
    BY <2>0, <2>6
<1>13. QED
    BY <1>8, <1>10, <1>12 DEF ViewFits, Backed

\* What a step may do to the settled accounts and the settled book: nothing, or one of these.
OrderSettled(S, R, B, D) ==
    \E c \in Articles, o \in Market_Order, n \in Slots :
        /\ OrderComes(B, D, c, o) /\ OrderHeld(S, R, o, n)
        /\ o.is_buy_order = FALSE => c = ItemType[o.item]
TradeSettled(S, R, B, D) ==
    \E c \in Articles, i \in Nat, j \in Nat, x \in Nat, y \in Nat, bid \in Market_Order, ask \in Market_Order,
       n \in Slots :
        OrdersMatched(B[c], i, j, x, y, bid, ask) /\ TradeMade(S, R, bid, ask, n) /\ OrdersGone(B, D, c, i, j)
Settles(S, R, B, D) ==
    \/ R = S /\ D = B
    \/ D \in [Articles -> Seq(Market_Order)] /\ (OrderSettled(S, R, B, D) \/ TradeSettled(S, R, B, D))

LEMMA SettlingFits ==
    ASSUME NEW S, NEW R, NEW B, NEW D, ViewFits(S, B), Settles(S, R, B, D)
    PROVE  ViewFits(R, D)
<1>1. CASE R = S /\ D = B
    BY <1>1
<1>2. CASE D \in [Articles -> Seq(Market_Order)] /\ OrderSettled(S, R, B, D)
  <2>1. PICK c \in Articles, o \in Market_Order, n \in Slots : OrderComes(B, D, c, o) /\ OrderHeld(S, R, o, n)
    BY <1>2 DEF OrderSettled
  <2>2. QED
    BY <1>2, <2>1, PlacingFits
<1>3. CASE D \in [Articles -> Seq(Market_Order)] /\ TradeSettled(S, R, B, D)
  <2>1. PICK c \in Articles, i \in Nat, j \in Nat, x \in Nat, y \in Nat, bid \in Market_Order,
             ask \in Market_Order, n \in Slots :
            OrdersMatched(B[c], i, j, x, y, bid, ask) /\ TradeMade(S, R, bid, ask, n) /\ OrdersGone(B, D, c, i, j)
    BY <1>3 DEF TradeSettled
  <2>2. QED
    BY <1>3, <2>1, TradingFits
<1>4. QED
    BY <1>1, <1>2, <1>3 DEF Settles

-----------------------------------------------------------------------------
(***************************************************************************)
(* What settled accounts and a settled book say of who owns what and of    *)
(* what is on offer, and what an order and a trade do to it.               *)
(***************************************************************************)
OwnedIn(S) == [u \in Users |-> {it \in Items : SlotsHolding(S[u], it) # {}}]
MoneyIn(S) == [u \in Users |-> S[u].money]
OffersIn(B) == [a \in Articles |-> [i \in DOMAIN B[a] |-> OfferOf(B[a][i])]]

Offers == {OfferOf(o) : o \in Market_Order}

\* What Trading says of the bids of a user, of an offer, and of a step.
BidsIn(b, u, a) == {i \in DOMAIN b[a] : b[a][i].is_buy_order /\ b[a][i].user = u}
PromisedOn(b, u, a) == MapThenSumSet(LAMBDA i : b[a][i].price, BidsIn(b, u, a))
PromisedIn(b, u) == MapThenSumSet(LAMBDA a : PromisedOn(b, u, a), Articles)
OnSaleIn(b, it) == \E a \in Articles : \E i \in DOMAIN b[a] : ~b[a][i].is_buy_order /\ b[a][i].item = it

BidPlaced(o, m, b, oo, mm, bb) ==
    \E u \in Users, a \in Articles, p \in Prices :
        /\ p <= m[u] - PromisedIn(b, u)
        /\ bb = [b EXCEPT ![a] = Append(@, [is_buy_order |-> TRUE, user |-> u, price |-> p])]
        /\ oo = o /\ mm = m
AskPlaced(o, m, b, oo, mm, bb) ==
    \E u \in Users, it \in Items, p \in Prices :
        /\ it \in o[u] /\ ~OnSaleIn(b, it)
        /\ bb = [b EXCEPT ![ItemType[it]] =
                    Append(@, [is_buy_order |-> FALSE, user |-> u, price |-> p, item |-> it])]
        /\ oo = o /\ mm = m
Crosses(bid, ask) ==
    bid.is_buy_order /\ ~ask.is_buy_order /\ bid.user # ask.user /\ ask.price <= bid.price
ItemHanded(o, oo, bid, ask) == oo = [o EXCEPT ![ask.user] = @ \ {ask.item}, ![bid.user] = @ \cup {ask.item}]
PriceHanded(m, mm, bid, ask) == mm = [m EXCEPT ![ask.user] = @ + ask.price, ![bid.user] = @ - ask.price]
OffersGo(b, bb, a, i, j) == bb = [b EXCEPT ![a] = RemoveAt(RemoveAt(@, Max({i, j})), Min({i, j}))]
Crossed(o, m, b, oo, mm, bb, a, i, j, bid, ask) ==
    /\ bid = b[a][i] /\ ask = b[a][j] /\ Crosses(bid, ask)
    /\ ItemHanded(o, oo, bid, ask) /\ PriceHanded(m, mm, bid, ask) /\ OffersGo(b, bb, a, i, j)
Traded(o, m, b, oo, mm, bb) ==
    \E a \in Articles : \E i, j \in DOMAIN b[a] : \E bid, ask : Crossed(o, m, b, oo, mm, bb, a, i, j, bid, ask)
TradingStep(o, m, b, oo, mm, bb) ==
    BidPlaced(o, m, b, oo, mm, bb) \/ AskPlaced(o, m, b, oo, mm, bb) \/ Traded(o, m, b, oo, mm, bb)

\* The sums of Trading are totals.
LEMMA PromisedOnIsTotal ==
    ASSUME NEW b, NEW u, NEW a
    PROVE  PromisedOn(b, u, a) = Total([i \in BidsIn(b, u, a) |-> b[a][i].price], BidsIn(b, u, a))
<1>0. PICK I : I = BidsIn(b, u, a)
    OBVIOUS
<1> DEFINE m == [i \in I |-> b[a][i].price]
           P(g) == g = [s \in SUBSET I |-> IF s = {} THEN 0 ELSE b[a][Pick(s)].price + g[s \ {Pick(s)}]]
<1>1. PromisedOn(b, u, a) = (CHOOSE g : P(g))[I]
    BY <1>0 DEF PromisedOn, MapThenSumSet, MapThenFoldSet, Pick
<1>2. ASSUME NEW g
      PROVE  P(g) <=> SumsOf(m, g, I)
  <2>1. \A s \in SUBSET I : s # {} => m[Pick(s)] = b[a][Pick(s)].price
    BY PickIsMember
  <2>2. [s \in SUBSET I |-> IF s = {} THEN 0 ELSE b[a][Pick(s)].price + g[s \ {Pick(s)}]]
        = [s \in SUBSET I |-> IF s = {} THEN 0 ELSE m[Pick(s)] + g[s \ {Pick(s)}]]
    BY <2>1
  <2> HIDE DEF m
  <2>3. QED
    BY <2>2 DEF SumsOf
<1> HIDE DEF P, m
<1>3. (CHOOSE g : P(g)) = (CHOOSE g : SumsOf(m, g, I))
    BY <1>2
<1>4. PromisedOn(b, u, a) = Total(m, I)
    BY <1>1, <1>3 DEF Total
<1>5. QED
    BY <1>0, <1>4 DEF m

LEMMA PromisedInIsTotal ==
    ASSUME NEW b, NEW u
    PROVE  PromisedIn(b, u) = Total([a \in Articles |-> PromisedOn(b, u, a)], Articles)
<1> DEFINE m == [a \in Articles |-> PromisedOn(b, u, a)]
           P(g) == g = [s \in SUBSET Articles |-> IF s = {} THEN 0 ELSE PromisedOn(b, u, Pick(s)) + g[s \ {Pick(s)}]]
<1>1. PromisedIn(b, u) = (CHOOSE g : P(g))[Articles]
    BY DEF PromisedIn, MapThenSumSet, MapThenFoldSet, Pick
<1>2. ASSUME NEW g
      PROVE  P(g) <=> SumsOf(m, g, Articles)
  <2>1. \A s \in SUBSET Articles : s # {} => m[Pick(s)] = PromisedOn(b, u, Pick(s))
    BY PickIsMember
  <2>2. [s \in SUBSET Articles |-> IF s = {} THEN 0 ELSE PromisedOn(b, u, Pick(s)) + g[s \ {Pick(s)}]]
        = [s \in SUBSET Articles |-> IF s = {} THEN 0 ELSE m[Pick(s)] + g[s \ {Pick(s)}]]
    BY <2>1
  <2> HIDE DEF m
  <2>3. QED
    BY <2>2 DEF SumsOf
<1> HIDE DEF P, m
<1>3. (CHOOSE g : P(g)) = (CHOOSE g : SumsOf(m, g, Articles))
    BY <1>2
<1>4. QED
    BY <1>1, <1>3 DEF Total, m

\* The offers of an article follow its orders.
LEMMA OffersOnArticle ==
    ASSUME NEW B, BookFits(B), NEW a \in Articles, NEW q, q = B[a]
    PROVE  /\ q \in Seq(Market_Order) /\ Len(q) \in 0..MaxOrders /\ DOMAIN q = 1..Len(q)
           /\ OffersIn(B)[a] \in Seq(Offers) /\ Len(OffersIn(B)[a]) = Len(q)
           /\ DOMAIN OffersIn(B)[a] = 1..Len(q)
           /\ \A i \in 1..Len(q) : q[i] \in Market_Order /\ OffersIn(B)[a][i] = OfferOf(q[i])
<1>1. q \in Seq(Market_Order) /\ Len(q) <= MaxOrders
    BY DEF BookFits
<1>2. Len(q) \in Nat /\ DOMAIN q = 1..Len(q) /\ \A i \in 1..Len(q) : q[i] \in Market_Order
    BY <1>1
<1>3. OffersIn(B)[a] = [i \in 1..Len(q) |-> OfferOf(q[i])]
    BY <1>2 DEF OffersIn
<1>4. PICK f : f = [i \in 1..Len(q) |-> OfferOf(q[i])]
    OBVIOUS
<1>5. f \in [1..Len(q) -> Offers]
    BY <1>2, <1>4 DEF Offers
<1>6. f \in Seq(Offers) /\ Len(f) = Len(q)
    BY <1>2, <1>5
<1>7. QED
    BY <1>1, <1>2, <1>3, <1>4, <1>5, <1>6, MaxOrdersAssumption

LEMMA OfferIs ==
    ASSUME NEW o \in Market_Order
    PROVE  /\ OfferOf(o).is_buy_order = o.is_buy_order /\ OfferOf(o).user = o.user /\ OfferOf(o).price = o.price
           /\ o.is_buy_order = FALSE => OfferOf(o).item = o.item
           /\ o.is_buy_order \in BOOLEAN
BY OrderTypes DEF OfferOf

\* What a user has promised for bids is what the market server has reserved.
LEMMA PromisedIs ==
    ASSUME NEW B, BookFits(B), NEW u \in Users
    PROVE  PromisedIn(OffersIn(B), u) = Promised(OrdersOf(B, u), OrderAt(B, u))
<1>1. PICK b, T1, F, m, k, h, O, ord :
        /\ b = OffersIn(B) /\ T1 = 1..MaxOrders
        /\ F = [a \in Articles |-> BidsIn(b, u, a)]
        /\ O = OrdersOf(B, u) /\ ord = OrderAt(B, u) /\ m = Price(O, ord)
        /\ k = [a \in Articles |-> [i \in BidsIn(b, u, a) |-> b[a][i].price]]
        /\ h = [a \in Articles |-> PromisedOn(b, u, a)]
    OBVIOUS
<1>2. ASSUME NEW a \in Articles, NEW i
      PROVE  i \in BidsIn(b, u, a) <=> /\ i \in T1 /\ i <= Len(B[a]) /\ B[a][i].user = u
                                       /\ B[a][i].is_buy_order = TRUE
  <2>1. /\ Len(B[a]) \in 0..MaxOrders /\ DOMAIN b[a] = 1..Len(B[a])
        /\ \A l \in 1..Len(B[a]) : B[a][l] \in Market_Order /\ b[a][l] = OfferOf(B[a][l])
    BY <1>1, OffersOnArticle
  <2>2. i \in DOMAIN b[a] <=> i \in T1 /\ i <= Len(B[a])
    BY <1>1, <2>1, MaxOrdersAssumption
  <2>3. CASE i \in DOMAIN b[a]
    <3>1. B[a][i] \in Market_Order /\ b[a][i] = OfferOf(B[a][i])
        BY <2>1, <2>3
    <3>2. b[a][i].is_buy_order = B[a][i].is_buy_order /\ b[a][i].user = B[a][i].user /\ B[a][i].is_buy_order \in BOOLEAN
        BY <3>1, OfferIs
    <3>3. QED
        BY <2>2, <2>3, <3>2 DEF BidsIn
  <2>4. CASE i \notin DOMAIN b[a]
    BY <2>2, <2>4 DEF BidsIn
  <2>5. QED
    BY <2>3, <2>4
<1>3. IsFiniteSet(T1) /\ IsFiniteSet(Articles)
    BY <1>1, FS_Interval, MaxOrdersAssumption, ArticlesAssumption
<1>4. F \in [Articles -> SUBSET T1]
    BY <1>1, <1>2
<1>5. \A a \in Articles : h[a] = Total(k[a], F[a])
    BY <1>1, PromisedOnIsTotal
<1>6. ASSUME NEW a \in Articles, NEW i \in F[a]
      PROVE  k[a][i] \in Int /\ m[<<a, i>>] = k[a][i]
  <2>1. i \in BidsIn(b, u, a)
    BY <1>1
  <2>2. i \in T1 /\ i <= Len(B[a]) /\ B[a][i].user = u /\ B[a][i].is_buy_order = TRUE
    BY <1>2, <2>1
  <2>3. <<a, i>> \in O
    BY <1>1, <2>2 DEF OrdersOf
  <2>4. ord[<<a, i>>] = B[a][i]
    BY <1>1, <2>3 DEF OrderAt
  <2>5. m[<<a, i>>] = B[a][i].price
    BY <1>1, <2>3, <2>4 DEF Price
  <2>6. i \in 1..Len(B[a])
    <3>1. i \in DOMAIN b[a]
        BY <2>1 DEF BidsIn
    <3>2. QED
        BY <1>1, <3>1, OffersOnArticle
  <2>7. B[a][i] \in Market_Order /\ b[a][i] = OfferOf(B[a][i])
    BY <1>1, <2>6, OffersOnArticle
  <2>8. k[a][i] = B[a][i].price
    BY <1>1, <2>1, <2>7, OfferIs
  <2>9. B[a][i].price \in Int
    <3>1. B[a][i].price \in Nat
        BY <2>7, OrderTypes
    <3>2. QED
        BY <3>1
  <2>10. QED
    BY <2>5, <2>8, <2>9
<1>7. Total(m, {p \in Articles \X T1 : p[2] \in F[p[1]]}) = Total(h, Articles)
    BY <1>3, <1>4, <1>5, <1>6, TotalOfPairs
<1>8. {p \in Articles \X T1 : p[2] \in F[p[1]]} = Bids(O, ord)
  <2>1. ASSUME NEW p \in Articles \X T1
        PROVE  p[2] \in F[p[1]] <=> p \in Bids(O, ord)
    <3>1. PICK a \in Articles, i \in T1 : p = <<a, i>>
        OBVIOUS
    <3>2. p[2] \in F[p[1]] <=> i \in BidsIn(b, u, a)
        BY <1>1, <3>1
    <3>3. p \in O <=> i <= Len(B[a]) /\ B[a][i].user = u
        BY <1>1, <3>1 DEF OrdersOf
    <3>4. p \in O => ord[p] = B[a][i]
        BY <1>1, <3>1 DEF OrderAt
    <3>5. QED
        BY <1>2, <3>2, <3>3, <3>4 DEF Bids
  <2>2. Bids(O, ord) \subseteq Articles \X T1
    BY <1>1 DEF Bids, OrdersOf
  <2>3. QED
    BY <2>1, <2>2
<1>9. PromisedIn(b, u) = Total(h, Articles)
    BY <1>1, PromisedInIsTotal
<1>10. QED
    BY <1>1, <1>7, <1>8, <1>9 DEF Promised

\* An offer is added where the order is.
LEMMA OfferAdded ==
    ASSUME NEW B, BookFits(B), NEW c \in Articles, NEW o \in Market_Order, NEW D, OrderComes(B, D, c, o)
    PROVE  OffersIn(D) = [OffersIn(B) EXCEPT ![c] = Append(@, OfferOf(o))]
<1>1. \A x \in Articles \ {c} : OffersIn(D)[x] = OffersIn(B)[x]
    BY DEF OffersIn, OrderComes
<1>2. PICK q, f : q = B[c] /\ f = OffersIn(B)[c]
    OBVIOUS
<1>3. /\ q \in Seq(Market_Order) /\ Len(q) \in Nat /\ f \in Seq(Offers) /\ Len(f) = Len(q)
      /\ \A i \in 1..Len(q) : f[i] = OfferOf(q[i])
    BY <1>2, OffersOnArticle
<1>4. OfferOf(o) \in Offers
    BY DEF Offers
<1>5. PICK r, g : r = Append(q, o) /\ g = Append(f, OfferOf(o))
    OBVIOUS
<1>6. r \in Seq(Market_Order) /\ Len(r) = Len(q) + 1 /\ \A i \in 1..Len(r) : r[i] = IF i = Len(q) + 1 THEN o ELSE q[i]
    BY <1>3, <1>5
<1>7. g \in Seq(Offers) /\ Len(g) = Len(q) + 1
      /\ \A i \in 1..Len(g) : g[i] = IF i = Len(q) + 1 THEN OfferOf(o) ELSE f[i]
    BY <1>3, <1>4, <1>5
<1>8. \A i \in 1..Len(r) : g[i] = OfferOf(r[i])
  <2>1. ASSUME NEW i \in 1..Len(r)
        PROVE  g[i] = OfferOf(r[i])
    <3>1. CASE i = Len(q) + 1
        BY <1>3, <1>6, <1>7, <3>1
    <3>2. CASE i # Len(q) + 1
      <4>1. i \in 1..Len(q) /\ i \in 1..Len(g)
        BY <1>3, <1>6, <1>7, <3>2
      <4>2. QED
        BY <1>3, <1>6, <1>7, <3>2, <4>1
    <3>3. QED
        BY <3>1, <3>2
  <2>2. QED
    BY <2>1
<1>9. OffersIn(D)[c] = g
  <2>1. D[c] = r
    BY <1>2, <1>5 DEF OrderComes
  <2>2. OffersIn(D)[c] = [i \in 1..Len(r) |-> OfferOf(r[i])]
    BY <1>6, <2>1 DEF OffersIn
  <2>3. g = [i \in 1..Len(r) |-> g[i]]
    BY <1>6, <1>7
  <2>4. QED
    BY <1>8, <2>2, <2>3
<1>10. QED
  <2>1. OffersIn(D) = [x \in Articles |-> OffersIn(D)[x]]
    BY DEF OffersIn
  <2>2. DOMAIN OffersIn(B) = Articles
    BY DEF OffersIn
  <2>3. PICK b, d : b = OffersIn(B) /\ d = OffersIn(D)
    OBVIOUS
  <2>4. d = [b EXCEPT ![c] = g]
    BY <1>1, <1>9, <2>1, <2>2, <2>3
  <2>5. QED
    BY <1>2, <1>5, <2>3, <2>4

\* An item that stands for sale is in a slot that is reserved.
LEMMA OfferedIsReserved ==
    ASSUME NEW S, NEW B, ViewFits(S, B), NEW it, OnSaleIn(OffersIn(B), it)
    PROVE  \E v \in Users, n \in Slots : n \in SlotsHolding(S[v], it) /\ S[v].inventory_reservations[n] = MarketServer
<1>1. BookFits(B) /\ Backed(S, B)
    BY DEF ViewFits
<1>0. PICK a \in Articles :
        \E i \in DOMAIN OffersIn(B)[a] : ~OffersIn(B)[a][i].is_buy_order /\ OffersIn(B)[a][i].item = it
    BY DEF OnSaleIn
<1>2. PICK i \in DOMAIN OffersIn(B)[a] : ~OffersIn(B)[a][i].is_buy_order /\ OffersIn(B)[a][i].item = it
    BY <1>0
<1>3. PICK o : o = B[a][i]
    OBVIOUS
<1>4. i \in 1..MaxOrders /\ i <= Len(B[a]) /\ o \in Market_Order /\ OffersIn(B)[a][i] = OfferOf(o)
  <2>1. Len(B[a]) \in 0..MaxOrders /\ i \in 1..Len(B[a])
    BY <1>1, <1>2, OffersOnArticle
  <2>2. B[a][i] \in Market_Order /\ OffersIn(B)[a][i] = OfferOf(B[a][i])
    BY <1>1, <2>1, OffersOnArticle
  <2>3. QED
    BY <1>3, <2>1, <2>2, MaxOrdersAssumption
<1>5. o.is_buy_order = FALSE /\ o.item = it /\ o.user \in Users
    BY <1>2, <1>4, OfferIs, OrderTypes
<1>6. PICK p, v : p = <<a, i>> /\ v = o.user
    OBVIOUS
<1>7. p \in OrdersOf(B, v)
    BY <1>3, <1>4, <1>6 DEF OrdersOf
<1>8. OrderAt(B, v)[p] = o
    BY <1>3, <1>6, <1>7 DEF OrderAt
<1>9. SlotsBacked(S[v], OrdersOf(B, v), OrderAt(B, v))
    BY <1>1, <1>5, <1>6 DEF Backed, BackedBy
<1>10. PICK n \in Slots : Holds(S[v], o, n)
    BY <1>7, <1>8, <1>9 DEF SlotsBacked
<1>11. S[v].inventory_reservations[n] = MarketServer
    BY <1>7, <1>8, <1>9, <1>10 DEF SlotsBacked
<1>12. n \in SlotsHolding(S[v], it)
    BY <1>5, <1>10 DEF Holds
<1>13. QED
    BY <1>5, <1>6, <1>11, <1>12

\* An order that comes to stand is an offer its user can honour.
LEMMA OrderIsOffered ==
    ASSUME NEW S, NEW R, NEW B, NEW D, ViewFits(S, B), OrderSettled(S, R, B, D)
    PROVE  TradingStep(OwnedIn(S), MoneyIn(S), OffersIn(B), OwnedIn(R), MoneyIn(R), OffersIn(D))
<1>1. PICK c \in Articles, o \in Market_Order, n \in Slots :
        /\ OrderComes(B, D, c, o) /\ OrderHeld(S, R, o, n)
        /\ o.is_buy_order = FALSE => c = ItemType[o.item]
    BY DEF OrderSettled
<1>2. BookFits(B) /\ EachOnce(S) /\ Backed(S, B)
    BY DEF ViewFits
<1>3. PICK u : u = o.user
    OBVIOUS
<1>4. u \in Users /\ o.price \in Prices
    BY <1>3, OrderTypes
<1>5. /\ Holds(S[u], o, n) /\ S[u].inventory_reservations[n] = NoServer
      /\ \A k \in Slots : R[u].inventory[k].item = S[u].inventory[k].item
      /\ R[u].money = S[u].money
      /\ \A v \in Users \ {u} : R[v] = S[v]
      /\ o.is_buy_order = TRUE => o.price <= S[u].money - S[u].money_reservations[MarketServer]
      /\ o.is_buy_order = FALSE => o.item \in Items
    BY <1>1, <1>3 DEF OrderHeld, ReservedFor
<1>6. \A v \in Users : \A it : SlotsHolding(R[v], it) = SlotsHolding(S[v], it)
    BY <1>5 DEF SlotsHolding
<1>7. OwnedIn(R) = OwnedIn(S)
    BY <1>6 DEF OwnedIn
<1>8. MoneyIn(R) = MoneyIn(S)
    BY <1>5 DEF MoneyIn
<1>9. OffersIn(D) = [OffersIn(B) EXCEPT ![c] = Append(@, OfferOf(o))]
    BY <1>1, <1>2, OfferAdded
<1>10. CASE o.is_buy_order = TRUE
  <2>1. OfferOf(o) = [is_buy_order |-> TRUE, user |-> u, price |-> o.price]
    BY <1>3, <1>10 DEF OfferOf
  <2>2. PromisedIn(OffersIn(B), u) = S[u].money_reservations[MarketServer]
    <3>1. MoneyBacked(S[u], OrdersOf(B, u), OrderAt(B, u))
        BY <1>2, <1>4 DEF Backed, BackedBy
    <3>2. QED
        BY <1>2, <1>4, <3>1, PromisedIs DEF MoneyBacked
  <2>3. MoneyIn(S)[u] = S[u].money
    BY <1>4 DEF MoneyIn
  <2>4. o.price <= MoneyIn(S)[u] - PromisedIn(OffersIn(B), u)
    BY <1>5, <1>10, <2>2, <2>3
  <2>5. BidPlaced(OwnedIn(S), MoneyIn(S), OffersIn(B), OwnedIn(R), MoneyIn(R), OffersIn(D))
    BY <1>4, <1>7, <1>8, <1>9, <2>1, <2>4 DEF BidPlaced
  <2>6. QED
    BY <2>5 DEF TradingStep
<1>11. CASE o.is_buy_order = FALSE
  <2>1. OfferOf(o) = [is_buy_order |-> FALSE, user |-> u, price |-> o.price, item |-> o.item]
    BY <1>3, <1>11 DEF OfferOf
  <2>2. n \in SlotsHolding(S[u], o.item) /\ o.item \in Items
    BY <1>5, <1>11 DEF Holds
  <2>3. o.item \in OwnedIn(S)[u]
    BY <1>4, <2>2 DEF OwnedIn
  <2>4. ~OnSaleIn(OffersIn(B), o.item)
    <3>1. ASSUME OnSaleIn(OffersIn(B), o.item)
          PROVE  FALSE
      <4>1. PICK v \in Users, k \in Slots :
                k \in SlotsHolding(S[v], o.item) /\ S[v].inventory_reservations[k] = MarketServer
        BY <3>1, OfferedIsReserved
      <4>2. v = u /\ k = n
        BY <1>2, <1>4, <2>2, <4>1 DEF EachOnce
      <4>3. QED
        BY <1>5, <4>1, <4>2, ServerAssumption
    <3>2. QED
        BY <3>1
  <2>5. c = ItemType[o.item]
    BY <1>1, <1>11
  <2>6. AskPlaced(OwnedIn(S), MoneyIn(S), OffersIn(B), OwnedIn(R), MoneyIn(R), OffersIn(D))
    BY <1>4, <1>7, <1>8, <1>9, <2>1, <2>2, <2>3, <2>4, <2>5 DEF AskPlaced
  <2>7. QED
    BY <2>6 DEF TradingStep
<1>12. QED
    BY <1>10, <1>11, OrderTypes

LEMMA EndsOfTwo ==
    ASSUME NEW i \in Nat, NEW j \in Nat, i < j
    PROVE  \A x, y : x \in {i, j} /\ y \in {i, j} /\ x # y => Max({x, y}) = j /\ Min({x, y}) = i
<1>1. \A x, y : x \in {i, j} /\ y \in {i, j} /\ x # y => {x, y} = {i, j}
    OBVIOUS
<1>2. j \in {i, j} /\ (\A w \in {i, j} : j >= w) /\ \A z \in {i, j} : (\A w \in {i, j} : z >= w) => z = j
    OBVIOUS
<1>3. i \in {i, j} /\ (\A w \in {i, j} : i <= w) /\ \A z \in {i, j} : (\A w \in {i, j} : z <= w) => z = i
    OBVIOUS
<1>4. Max({i, j}) = j
    BY <1>2 DEF Max
<1>5. Min({i, j}) = i
    BY <1>3 DEF Min
<1>6. QED
    BY <1>1, <1>4, <1>5

\* The offers of a trade go where the orders go.
LEMMA OffersRemoved ==
    ASSUME NEW B, NEW D, NEW c \in Articles, NEW i, NEW j, NEW x, NEW y, BookFits(B),
           i \in 1..Len(B[c]), j \in (i + 1)..Len(B[c]), x \in {i, j}, y \in {i, j}, x # y,
           OrdersGone(B, D, c, i, j)
    PROVE  OffersGo(OffersIn(B), OffersIn(D), c, x, y)
<1>1. \A z \in Articles \ {c} : OffersIn(D)[z] = OffersIn(B)[z]
    BY DEF OffersIn, OrdersGone
<1>2. PICK q, f : q = B[c] /\ f = OffersIn(B)[c]
    OBVIOUS
<1>3. /\ q \in Seq(Market_Order) /\ Len(q) \in Nat /\ f \in Seq(Offers) /\ Len(f) = Len(q)
      /\ \A k \in 1..Len(q) : f[k] = OfferOf(q[k])
    BY <1>2, OffersOnArticle
<1>4. i \in 1..Len(q) /\ j \in (i + 1)..Len(q) /\ i \in 1..Len(f) /\ j \in (i + 1)..Len(f)
    BY <1>2, <1>3
<1>5. PICK r, g : r = RemoveAt(RemoveAt(q, j), i) /\ g = RemoveAt(RemoveAt(f, j), i)
    OBVIOUS
<1>6. /\ r \in Seq(Market_Order) /\ Len(r) = Len(q) - 2
      /\ \A k \in 1..Len(r) : Before(k, i, j) \in 1..Len(q) /\ r[k] = q[Before(k, i, j)]
    BY <1>3, <1>4, <1>5, RemovedTwo
<1>7. /\ g \in Seq(Offers) /\ Len(g) = Len(q) - 2
      /\ \A k \in 1..Len(g) : g[k] = f[Before(k, i, j)]
    BY <1>3, <1>4, <1>5, RemovedTwo
<1>8. \A k \in 1..Len(r) : g[k] = OfferOf(r[k])
    BY <1>3, <1>6, <1>7
<1>9. OffersIn(D)[c] = g
  <2>1. D[c] = r
    BY <1>2, <1>5 DEF OrdersGone
  <2>2. OffersIn(D)[c] = [k \in 1..Len(r) |-> OfferOf(r[k])]
    BY <1>6, <2>1 DEF OffersIn
  <2>3. g = [k \in 1..Len(r) |-> g[k]]
    BY <1>6, <1>7
  <2>4. QED
    BY <1>8, <2>2, <2>3
<1>10. Max({x, y}) = j /\ Min({x, y}) = i
  <2>1. i \in Nat /\ j \in Nat /\ i < j
    BY <1>3, <1>4
  <2>2. \A v, w : v \in {i, j} /\ w \in {i, j} /\ v # w => Max({v, w}) = j /\ Min({v, w}) = i
    BY <2>1, EndsOfTwo
  <2>3. QED
    BY <2>2
<1>11. OffersIn(D) = [OffersIn(B) EXCEPT ![c] = g]
  <2>1. OffersIn(D) = [z \in Articles |-> OffersIn(D)[z]] /\ DOMAIN OffersIn(B) = Articles
    BY DEF OffersIn
  <2>2. PICK b, d : b = OffersIn(B) /\ d = OffersIn(D)
    OBVIOUS
  <2>3. d = [b EXCEPT ![c] = g]
    BY <1>1, <1>9, <2>1, <2>2
  <2>4. QED
    BY <2>2, <2>3
<1>12. QED
    BY <1>2, <1>5, <1>10, <1>11 DEF OffersGo

\* The item changes hands, ...
LEMMA ItemChangesHands ==
    ASSUME NEW S, NEW R, NEW bid, NEW ask, NEW n, TradeMade(S, R, bid, ask, n), n \in Slots,
           ask.item \in Items, ask.is_buy_order = FALSE, bid.user \in Users, ask.user \in Users, bid.user # ask.user
    PROVE  ItemHanded(OwnedIn(S), OwnedIn(R), bid, ask)
<1>1. PICK it, u, v, m : it = ask.item /\ u = ask.user /\ v = bid.user /\ m = bid.slot
    OBVIOUS
<1>2. NoItem \notin Items
    BY ItemAssumption DEF Item
<1>3. /\ n \in SlotsHolding(S[u], it)
      /\ \A k \in Slots : k \in SlotsHolding(S[u], it) => k = n
      /\ \A k \in Slots : R[u].inventory[k].item = IF k = n THEN NoItem ELSE S[u].inventory[k].item
    BY <1>1 DEF TradeMade, FreedOf, Holds
<1>4. m \in SlotsHolding(S[v], NoItem)
      /\ \A k \in Slots : R[v].inventory[k].item = IF k = m THEN it ELSE S[v].inventory[k].item
    BY <1>1 DEF TradeMade, FreedOf
<1>5. ASSUME NEW e \in Items
      PROVE  SlotsHolding(R[u], e) # {} <=> SlotsHolding(S[u], e) # {} /\ e # it
  <2>1. ASSUME NEW k \in Slots
        PROVE  k \in SlotsHolding(R[u], e) <=> k \in SlotsHolding(S[u], e) /\ k # n
    BY <1>2, <1>3 DEF SlotsHolding
  <2>2. SlotsHolding(R[u], e) \subseteq Slots /\ SlotsHolding(S[u], e) \subseteq Slots
    BY DEF SlotsHolding
  <2>3. e # it => n \notin SlotsHolding(S[u], e)
    BY <1>3 DEF SlotsHolding
  <2>4. QED
    BY <1>3, <2>1, <2>2, <2>3
<1>6. ASSUME NEW e \in Items
      PROVE  SlotsHolding(R[v], e) # {} <=> SlotsHolding(S[v], e) # {} \/ e = it
  <2>1. ASSUME NEW k \in Slots, k # m
        PROVE  k \in SlotsHolding(R[v], e) <=> k \in SlotsHolding(S[v], e)
    BY <1>4, <2>1 DEF SlotsHolding
  <2>2. m \in Slots /\ (m \in SlotsHolding(R[v], e) <=> e = it)
    BY <1>4 DEF SlotsHolding
  <2>3. m \notin SlotsHolding(S[v], e)
    BY <1>2, <1>4 DEF SlotsHolding
  <2>4. SlotsHolding(R[v], e) \subseteq Slots /\ SlotsHolding(S[v], e) \subseteq Slots
    BY DEF SlotsHolding
  <2>5. QED
    BY <2>1, <2>2, <2>3, <2>4
<1>7. ASSUME NEW w \in Users, w # u, w # v
      PROVE  OwnedIn(R)[w] = OwnedIn(S)[w]
  <2>1. R[w] = S[w]
    BY <1>1, <1>7 DEF TradeMade
  <2>2. QED
    BY <2>1 DEF OwnedIn
<1>8. OwnedIn(R)[u] = OwnedIn(S)[u] \ {it}
  <2>1. /\ OwnedIn(R)[u] = {e \in Items : SlotsHolding(R[u], e) # {}}
        /\ OwnedIn(S)[u] = {e \in Items : SlotsHolding(S[u], e) # {}}
    BY <1>1 DEF OwnedIn
  <2>2. QED
    BY <1>5, <2>1
<1>9. OwnedIn(R)[v] = OwnedIn(S)[v] \cup {it}
  <2>1. /\ OwnedIn(R)[v] = {e \in Items : SlotsHolding(R[v], e) # {}}
        /\ OwnedIn(S)[v] = {e \in Items : SlotsHolding(S[v], e) # {}}
    BY <1>1 DEF OwnedIn
  <2>2. it \in Items
    BY <1>1
  <2>3. QED
    BY <1>6, <2>1, <2>2
<1>10. PICK o, p : o = OwnedIn(S) /\ p = OwnedIn(R)
    OBVIOUS
<1>11. p = [w \in Users |-> p[w]] /\ o = [w \in Users |-> o[w]]
    BY <1>10 DEF OwnedIn
<1>12. p = [o EXCEPT ![u] = @ \ {it}, ![v] = @ \cup {it}]
    BY <1>1, <1>7, <1>8, <1>9, <1>10, <1>11
<1>13. QED
    BY <1>1, <1>10, <1>12 DEF ItemHanded

\* ... and so does the price.
LEMMA PriceChangesHands ==
    ASSUME NEW S, NEW R, NEW bid, NEW ask, NEW n \in Slots, TradeMade(S, R, bid, ask, n),
           bid.user \in Users, ask.user \in Users, bid.user # ask.user
    PROVE  PriceHanded(MoneyIn(S), MoneyIn(R), bid, ask)
<1>1. PICK c, u, v : c = ask.price /\ u = ask.user /\ v = bid.user
    OBVIOUS
<1>2. PICK o, p : o = MoneyIn(S) /\ p = MoneyIn(R)
    OBVIOUS
<1>3. p = [w \in Users |-> p[w]] /\ o = [w \in Users |-> o[w]]
    BY <1>2 DEF MoneyIn
<1>4. p[u] = o[u] + c /\ p[v] = o[v] - c
    BY <1>1, <1>2 DEF MoneyIn, TradeMade
<1>5. \A w \in Users : w # u /\ w # v => p[w] = o[w]
    BY <1>1, <1>2 DEF MoneyIn, TradeMade
<1>6. p = [o EXCEPT ![u] = @ + c, ![v] = @ - c]
    BY <1>1, <1>3, <1>4, <1>5
<1>7. QED
    BY <1>1, <1>2, <1>6 DEF PriceHanded

\* A trade is one step of Trading.
LEMMA TradeIsOne ==
    ASSUME NEW S, NEW R, NEW B, NEW D, ViewFits(S, B), TradeSettled(S, R, B, D)
    PROVE  TradingStep(OwnedIn(S), MoneyIn(S), OffersIn(B), OwnedIn(R), MoneyIn(R), OffersIn(D))
<1>1. PICK c \in Articles, i \in Nat, j \in Nat, x \in Nat, y \in Nat, bid \in Market_Order, ask \in Market_Order,
           n \in Slots :
        OrdersMatched(B[c], i, j, x, y, bid, ask) /\ TradeMade(S, R, bid, ask, n) /\ OrdersGone(B, D, c, i, j)
    BY DEF TradeSettled
<1>2. BookFits(B) /\ Backed(S, B)
    BY DEF ViewFits
<1>3. /\ i \in 1..Len(B[c]) /\ j \in (i + 1)..Len(B[c]) /\ x \in {i, j} /\ y \in {i, j} /\ x # y
      /\ bid = B[c][x] /\ ask = B[c][y]
      /\ bid.is_buy_order = TRUE /\ ask.is_buy_order = FALSE /\ bid.user # ask.user /\ ask.price <= bid.price
    BY <1>1 DEF OrdersMatched
<1>4. Len(B[c]) \in 0..MaxOrders /\ x \in 1..Len(B[c]) /\ y \in 1..Len(B[c])
  <2>1. Len(B[c]) \in 0..MaxOrders
    BY <1>2, OffersOnArticle
  <2>2. QED
    BY <1>3, <2>1
<1>5. bid.user \in Users /\ ask.user \in Users
    BY OrderTypes
<1>6. ask.item \in Items
  <2>1. PICK v, q : v = ask.user /\ q = <<c, y>>
    OBVIOUS
  <2>2. q \in OrdersOf(B, v)
    BY <1>3, <1>4, <2>1, MaxOrdersAssumption DEF OrdersOf
  <2>3. OrderAt(B, v)[q] = ask
    BY <1>3, <2>1, <2>2 DEF OrderAt
  <2>4. OrdersFit(OrdersOf(B, v), OrderAt(B, v))
    BY <1>2, <1>5, <2>1 DEF Backed, BackedBy
  <2>5. QED
    BY <1>3, <2>2, <2>3, <2>4 DEF OrdersFit
<1>7. PICK b, eb, ea : b = OffersIn(B) /\ eb = OfferOf(bid) /\ ea = OfferOf(ask)
    OBVIOUS
<1>8. b[c][x] = eb /\ b[c][y] = ea /\ x \in DOMAIN b[c] /\ y \in DOMAIN b[c]
    BY <1>2, <1>3, <1>4, <1>7, OffersOnArticle
<1>9. /\ eb.is_buy_order = TRUE /\ ea.is_buy_order = FALSE /\ eb.user = bid.user /\ ea.user = ask.user
      /\ eb.price = bid.price /\ ea.price = ask.price /\ ea.item = ask.item
    BY <1>3, <1>7, OfferIs
<1>10. Crosses(eb, ea)
    BY <1>3, <1>9 DEF Crosses
<1>11. ItemHanded(OwnedIn(S), OwnedIn(R), eb, ea)
  <2>1. ItemHanded(OwnedIn(S), OwnedIn(R), bid, ask)
    BY <1>1, <1>3, <1>5, <1>6, ItemChangesHands
  <2>2. QED
    BY <1>9, <2>1 DEF ItemHanded
<1>12. PriceHanded(MoneyIn(S), MoneyIn(R), eb, ea)
  <2>1. PriceHanded(MoneyIn(S), MoneyIn(R), bid, ask)
    BY <1>1, <1>3, <1>5, PriceChangesHands
  <2>2. QED
    BY <1>9, <2>1 DEF PriceHanded
<1>13. OffersGo(OffersIn(B), OffersIn(D), c, x, y)
    BY <1>1, <1>2, <1>3, OffersRemoved
<1>14. Crossed(OwnedIn(S), MoneyIn(S), OffersIn(B), OwnedIn(R), MoneyIn(R), OffersIn(D), c, x, y, eb, ea)
    BY <1>7, <1>8, <1>10, <1>11, <1>12, <1>13 DEF Crossed
<1>15. Traded(OwnedIn(S), MoneyIn(S), OffersIn(B), OwnedIn(R), MoneyIn(R), OffersIn(D))
    BY <1>7, <1>8, <1>14 DEF Traded
<1>16. QED
    BY <1>15 DEF TradingStep

\* Whatever settles is a step of Trading, or nothing to it.
LEMMA SettlingTrades ==
    ASSUME NEW S, NEW R, NEW B, NEW D, ViewFits(S, B), Settles(S, R, B, D)
    PROVE  \/ TradingStep(OwnedIn(S), MoneyIn(S), OffersIn(B), OwnedIn(R), MoneyIn(R), OffersIn(D))
           \/ OwnedIn(R) = OwnedIn(S) /\ MoneyIn(R) = MoneyIn(S) /\ OffersIn(D) = OffersIn(B)
BY OrderIsOffered, TradeIsOne DEF Settles
=============================================================================
