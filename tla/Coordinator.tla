---------------------------- MODULE Coordinator ----------------------------
(***************************************************************************)
(* The room server and the market server as coordinators of two-phase      *)
(* commit (room_server.cpp 497-634, market_server.cpp 287-562,             *)
(* user_client.cpp).  Each is one thread that blocks for a vote, so it     *)
(* works on one thing at a time: its session.  A session has one leg, the  *)
(* transaction of one user, or, for a trade, two: first the money receiver *)
(* (the seller), then the item receiver (the buyer).  The legs are         *)
(* prepared in that order, and decided in the opposite order.              *)
(*                                                                         *)
(* What a session is for and what the server does when it ends is in       *)
(* MarketOrders and RoomItems, which extend this module.                   *)
(***************************************************************************)
EXTENDS UserServer

CONSTANTS
    Prices,                 \* prices players may ask or bid
    MaxTimeouts,            \* bound: reads of a vote that time out
    MaxLostConnections,     \* bound: connections that are lost
    MaxFailedConnects       \* bound: attempts to connect that fail

ASSUME PricesAssumption == Prices \subseteq Nat
ASSUME FaultsAssumption ==
    MaxTimeouts \in Nat /\ MaxLostConnections \in Nat /\ MaxFailedConnects \in Nat

VARIABLES
    session,    \* [Servers -> Session]: what each coordinator is doing
    faults      \* how many faults of each kind may still happen

coordinatorVars == <<usVars, session, faults>>

Faults == [timeout : Nat, lost : Nat, connect : Nat]

\* Nothing has failed yet: every connection holds and every answer came in time.
AllWell == faults = [timeout |-> MaxTimeouts, lost |-> MaxLostConnections, connect |-> MaxFailedConnects]

(***************************************************************************)
(* What a session is for.                                                  *)
(***************************************************************************)
Buy(u, article, price)  == [kind |-> "BUY",  user |-> u, article |-> article, price |-> price]
Sell(u, item, price)    == [kind |-> "SELL", user |-> u, item |-> item, price |-> price]
Exchange(buyer, seller, item, slot, bid, price) ==
    [kind |-> "EXCHANGE", buyer |-> buyer, seller |-> seller,
     item |-> item, slot |-> slot, bid |-> bid, price |-> price]
ToInventory(u, item)    == [kind |-> "TO_INVENTORY",   user |-> u, item |-> item]
FromInventory(u, item)  == [kind |-> "FROM_INVENTORY", user |-> u, item |-> item]

Legs(p) == IF p.kind = "EXCHANGE" THEN 2 ELSE 1

LegUser(p, leg) ==
    IF p.kind # "EXCHANGE" THEN p.user ELSE IF leg = 1 THEN p.seller ELSE p.buyer

OptionalOp(condition, op) == IF condition THEN <<op>> ELSE <<>>

\* Mutants: the seller is not paid; the surplus of the bid stays reserved; the price is taken
\* from what is not reserved.
MoneyReceiverLeg_Unpaid(p) == <<ItemToServer(p.item)>>
ItemReceiverLeg_KeepsSurplus(p, item) ==
    <<SlotUnreserve(p.slot), ItemToInventory(item, p.slot), MoneyTransfer(-p.price, -p.price < 0)>>
ItemReceiverLeg_KeepsReservation(p, item) ==
    <<SlotUnreserve(p.slot)>>
    \o OptionalOp(p.bid - p.price > 0, MoneyUnreserve(p.bid - p.price))
    \o <<ItemToInventory(item, p.slot), MoneyTransfer(-p.price, FALSE)>>

\* The two legs of a trade.  "item" is the item in the vote of the first leg.
MoneyReceiverLeg(p) == <<ItemToServer(p.item), MoneyTransfer(p.price, FALSE)>>
ItemReceiverLeg(p, item) ==
    <<SlotUnreserve(p.slot)>>
    \o OptionalOp(p.bid - p.price > 0, MoneyUnreserve(p.bid - p.price))
    \o <<ItemToInventory(item, p.slot), MoneyTransfer(-p.price, -p.price < 0)>>

LegTransaction(p, leg, item) ==
    CASE p.kind = "BUY"  -> <<SlotReserve>> \o OptionalOp(p.price > 0, MoneyReserve(p.price))
      [] p.kind = "SELL" -> <<ItemReserve(p.item)>>
      [] p.kind = "EXCHANGE" -> IF leg = 1 THEN MoneyReceiverLeg(p) ELSE ItemReceiverLeg(p, item)
      [] p.kind = "TO_INVENTORY"  -> <<ItemToInventory(p.item, 0)>>
      [] p.kind = "FROM_INVENTORY"-> <<ItemToServer(p.item)>>

(***************************************************************************)
(* A session: its phase, the leg the phase is about, can_commit, and what  *)
(* the last vote's payload said (the item of the first leg is kept).       *)
(***************************************************************************)
NoSession == [phase |-> "idle"]
NewSession(p) ==
    [phase |-> "prepare", purpose |-> p, leg |-> 1, can_commit |-> TRUE, item |-> BlankItem, slot |-> 1]

Idle(s) == session[s].phase = "idle"
SessionUser(s) == LegUser(session[s].purpose, session[s].leg)
SessionTransaction(s) ==
    LegTransaction(session[s].purpose, session[s].leg, session[s].item)

CoordinatorInit ==
    /\ UserServerInit
    /\ session = [s \in Servers |-> NoSession]
    /\ AllWell

Begin(s, p) ==
    /\ ~aborted
    /\ Idle(s)
    /\ session' = [session EXCEPT ![s] = NewSession(p)]
    /\ UNCHANGED <<usVars, faults>>

-----------------------------------------------------------------------------
(***************************************************************************)
(* Sending on the connection to u: find_or_add_connection_to_user_server   *)
(* connects if there has never been a connection; a send on one that broke *)
(* fails.                                                                  *)
(***************************************************************************)
SendTo(s, u, m) ==
    /\ link[u][s] \in {"none", "open"}
    /\ link'  = [link EXCEPT ![u][s] = "open"]
    /\ to_us' = [to_us EXCEPT ![u][s] = Append(@, m)]
    /\ UNCHANGED <<account, did_change, current, from_us, aborted, faults>>

CannotSendTo(s, u) ==
    /\ \/ link[u][s] = "broken" /\ UNCHANGED faults
       \/ /\ link[u][s] = "none"
          /\ faults.connect > 0
          /\ faults' = [faults EXCEPT !.connect = @ - 1]
    /\ UNCHANGED usVars

\* A prepare that returns false: no further leg is prepared, and the decision is to abort.
PrepareFails(s) ==
    session' = [session EXCEPT ![s].phase = "decide", ![s].can_commit = FALSE]

\* user_server_transaction_prepare, up to the blocking read.
SendPrepare(s) ==
    /\ ~aborted
    /\ session[s].phase = "prepare"
    /\ \/ /\ SendTo(s, SessionUser(s), Prepare(SessionTransaction(s)))
          /\ session' = [session EXCEPT ![s].phase = "vote"]
       \/ CannotSendTo(s, SessionUser(s)) /\ PrepareFails(s)

\* The first packet on the connection is taken for the vote on the current transaction.
\* Its number of operations is all that is compared (market_server.cpp:337).
ReceiveVote(s) ==
    LET u    == SessionUser(s)
        vote == Head(from_us[u][s])
        last == session[s].leg = Legs(session[s].purpose)
        agreed == vote.vote = "COMMIT" /\ vote.num_operations = Len(SessionTransaction(s))
    IN  /\ ~aborted
        /\ session[s].phase = "vote"
        /\ from_us[u][s] # <<>>
        /\ from_us' = [from_us EXCEPT ![u][s] = Tail(@)]
        /\ \/ ~agreed /\ PrepareFails(s)
           \/ /\ agreed
              /\ session' = [session EXCEPT
                    ![s].phase = IF last THEN "decide" ELSE "prepare",
                    ![s].leg   = IF last THEN @ ELSE @ + 1,
                    ![s].item  = IF session[s].leg = 1 THEN vote.item ELSE @,
                    ![s].slot  = vote.slot]
        /\ UNCHANGED <<accountVars, link, current, to_us, aborted, faults>>

\* The blocking read gives up after a second (network_node.cpp:536).  The connection is
\* kept, and the vote may still arrive on it.
ReadTimeout(s) ==
    /\ ~aborted
    /\ session[s].phase = "vote"
    /\ link[SessionUser(s)][s] = "open"
    /\ from_us[SessionUser(s)][s] = <<>>
    /\ faults.timeout > 0
    /\ faults' = [faults EXCEPT !.timeout = @ - 1]
    /\ PrepareFails(s)
    /\ UNCHANGED usVars

\* Mutant: a read on a connection that broke does not return.
ReadFails_Never(s) == FALSE /\ PrepareFails(s) /\ UNCHANGED <<usVars, faults>>
ReadFails(s) ==
    /\ ~aborted
    /\ session[s].phase = "vote"
    /\ link[SessionUser(s)][s] = "broken"
    /\ PrepareFails(s)
    /\ UNCHANGED <<usVars, faults>>

\* Send a decision to the user of the current leg; "sent" says whether that succeeded.
SendDecision(s, commit, sent) ==
    /\ ~aborted
    /\ session[s].phase = "decide"
    /\ \/ sent /\ SendTo(s, SessionUser(s), Decision(commit))
       \/ ~sent /\ CannotSendTo(s, SessionUser(s))

\* The decision of the second leg of a trade; if it cannot be sent, the first leg is aborted.
DecideSecondLeg(s) ==
    \E sent \in BOOLEAN :
        /\ SendDecision(s, session[s].can_commit, sent)
        /\ session[s].leg = 2
        /\ session' = [session EXCEPT ![s].leg = 1, ![s].can_commit = @ /\ sent]

\* The last decision ends the session; what the server does then is up to the caller.
DecideFirstLeg(s, commit, sent) ==
    /\ SendDecision(s, commit, sent)
    /\ session[s].leg = 1
    /\ session' = [session EXCEPT ![s] = NoSession]

\* The environment: a connection is lost.
Disconnect ==
    /\ faults.lost > 0
    /\ faults' = [faults EXCEPT !.lost = @ - 1]
    /\ \E u \in Users, s \in Servers : LoseConnection(u, s)
    /\ UNCHANGED session

CoordinatorStep(s) ==
    SendPrepare(s) \/ ReceiveVote(s) \/ ReadTimeout(s) \/ ReadFails(s) \/ DecideSecondLeg(s)

UserServerTurn == UserServerStep /\ UNCHANGED <<session, faults>>

-----------------------------------------------------------------------------
(***************************************************************************)
(* A decision travels, so what a coordinator keeps is never compared with  *)
(* an account as it is, but with the account as it will be once the        *)
(* decisions already taken have arrived: the settled account.  For a trade *)
(* the decision is taken for both users when the second vote is read.      *)
(***************************************************************************)
TradeDecided ==
    /\ session[MarketServer].phase = "decide"
    /\ session[MarketServer].purpose.kind = "EXCHANGE"
    /\ session[MarketServer].can_commit

CommitOnItsWay(u, s) == \E i \in DOMAIN to_us[u][s] : to_us[u][s][i].message = "COMMIT"

WillCommit(u, s) ==
    /\ current[u][s].exists
    /\ \/ CommitOnItsWay(u, s)
       \/ /\ s = MarketServer
          /\ TradeDecided
          /\ \E leg \in 1..session[s].leg : LegUser(session[s].purpose, leg) = u

AfterCommit(u, s, a) ==
    IF WillCommit(u, s) THEN commit_transaction(current[u][s].transaction, a, s).account ELSE a

Settled(u) == AfterCommit(u, MarketServer, AfterCommit(u, RoomServer, account[u]))

-----------------------------------------------------------------------------
Purposes(articles) ==
         [kind : {"BUY"}, user : Users, article : articles, price : Prices]
    \cup [kind : {"SELL"}, user : Users, item : Items, price : Prices]
    \cup [kind : {"EXCHANGE"}, buyer : Users, seller : Users, item : Item, slot : Slots,
          bid : Prices, price : Prices]
    \cup [kind : {"TO_INVENTORY", "FROM_INVENTORY"}, user : Users, item : Items]

Sessions(articles) ==
         {NoSession}
    \cup [phase : {"prepare", "vote", "decide"}, purpose : Purposes(articles), leg : {1, 2},
          can_commit : BOOLEAN, item : Item, slot : Slots]

CoordinatorTypeOK(articles) ==
    /\ UserServerTypeOK
    /\ session \in [Servers -> Sessions(articles)]
    /\ faults \in Faults
=============================================================================
