---------------------------- MODULE OrderProofs ----------------------------
(***************************************************************************)
(* No Assert fails, every order is backed, no item is copied or lost, and  *)
(* the market implements Trading, while nothing fails and no other server  *)
(* works on the accounts.                                                  *)
(***************************************************************************)
EXTENDS MarketProofs

-----------------------------------------------------------------------------
(***************************************************************************)
(* What has been said of an account stays true until it is acted upon.     *)
(***************************************************************************)
\* There is no room server here.
RoomSilent == \A u \in Users : to_us[u][RoomServer] = <<>> /\ ~current[u][RoomServer].exists

Possible(u) == transaction_possible(current[u][MarketServer].transaction, account[u], MarketServer)

\* User u has voted for the transaction under way, and it is not given up.
Agreed(u) ==
    /\ ~Idle(MarketServer)
    /\ \/ FirstLegVoted(u, MarketServer)
       \/ /\ session[MarketServer].phase = "decide" /\ session[MarketServer].can_commit
          /\ u = SessionUser(MarketServer)

VoteTrue(u) ==
    \A vote : from_us[u][MarketServer] = <<vote>> /\ vote.vote = "COMMIT" =>
        /\ Possible(u)
        /\ vote.slot = VoteCommit(current[u][MarketServer].transaction, account[u]).slot

\* The slot a bid is placed with is the one its commit will reserve.
SlotRead(u) ==
    session[MarketServer].phase = "decide" /\ session[MarketServer].purpose.kind = "BUY"
        => session[MarketServer].slot = Min(EmptySlots(account[u]))

CommitSucceeds(u) ==
    WillCommit(u, MarketServer)
        => commit_transaction(current[u][MarketServer].transaction, account[u], MarketServer).ok

Word(u) ==
    /\ Solvent(account[u])
    /\ VoteTrue(u)
    /\ Agreed(u) => Possible(u) /\ SlotRead(u)
    /\ CommitSucceeds(u)

WordKept == \A u \in Users : Word(u)

LEMMA RoomStaysSilent ==
    ASSUME MarketInv, RoomSilent, [Next]_vars
    PROVE  RoomSilent'
<1>0. UserServerTypeOK
    BY DEF MarketInv, CoordinatorInv, CoordinatorTypeOK
<1>1. RoomServer # MarketServer /\ RoomServer \in Servers
    BY ServerAssumption DEF Servers
<1>2. ASSUME NEW u, NEW m, SendTo(MarketServer, u, m) \/ CannotSendTo(MarketServer, u)
      PROVE  RoomSilent'
  <2>1. current' = current
    BY <1>2 DEF SendTo, CannotSendTo, usVars
  <2>2. ASSUME NEW v \in Users
        PROVE  to_us'[v][RoomServer] = to_us[v][RoomServer]
    <3>1. CASE to_us' = to_us
        BY <3>1
    <3>2. CASE \E x : to_us' = [to_us EXCEPT ![u][MarketServer] = x]
        BY <3>2, <1>0, <1>1, <2>2 DEF UserServerTypeOK
    <3>3. QED
        BY <1>2, <3>1, <3>2 DEF SendTo, CannotSendTo, usVars
  <2>3. QED
    BY <2>1, <2>2 DEF RoomSilent
<1>3. CASE CoordinatorStep(MarketServer)
  <2>1. CASE SendPrepare(MarketServer)
    BY <1>2, <2>1 DEF SendPrepare
  <2>2. CASE ReceiveVote(MarketServer) \/ ReadTimeout(MarketServer) \/ ReadFails(MarketServer)
    BY <2>2 DEF ReceiveVote, ReadTimeout, ReadFails, RoomSilent, usVars, netVars
  <2>3. CASE DecideSecondLeg(MarketServer)
    BY <1>2, <2>3 DEF DecideSecondLeg, SendDecision
  <2>4. QED
    BY <1>3, <2>1, <2>2, <2>3 DEF CoordinatorStep
<1>4. CASE \E p : Begin(MarketServer, p)
    BY <1>4 DEF Begin, RoomSilent, usVars, netVars
<1>5. CASE \E c, sent : DecideFirstLeg(MarketServer, c, sent)
    BY <1>2, <1>5 DEF DecideFirstLeg, SendDecision
<1>6. CASE UserServerTurn
  <2>1. CASE \E u \in Users : SendUserUpdate(u)
    BY <2>1 DEF SendUserUpdate, RoomSilent, netVars
  <2>2. ASSUME NEW u \in Users, NEW s \in Servers, HandlePacket(u, s)
        PROVE  RoomSilent'
    <3>1. s = MarketServer
        BY <1>1, <2>2 DEF RoomSilent, HandlePacket, HandlePrepare, HandleCommit, HandleAbort, HandleUnexpected,
                          Arrived, Servers
    <3>0. ReadPacket(u, MarketServer)
        BY <2>2, <3>1 DEF HandlePacket, HandlePrepare, HandleCommit, HandleAbort, HandleUnexpected
    <3>2. \A v \in Users : to_us'[v][RoomServer] = to_us[v][RoomServer]
        BY <1>0, <1>1, <2>2, <3>0 DEF ReadPacket, UserServerTypeOK
    <3>3. \A v \in Users : current'[v][RoomServer] = current[v][RoomServer]
        BY <1>0, <1>1, <2>2, <3>1 DEF HandlePacket, HandlePrepare, HandleCommit, HandleAbort, HandleUnexpected,
                                      UserServerTypeOK
    <3>4. QED
        BY <3>2, <3>3 DEF RoomSilent
  <2>3. QED
    BY <1>6, <2>1, <2>2 DEF UserServerTurn, UserServerStep
<1>7. CASE Disconnect
  <2>1. PICK u \in Users, s \in Servers : LoseConnection(u, s)
    BY <1>7 DEF Disconnect
  <2>2. /\ to_us' = [to_us EXCEPT ![u][s] = <<>>]
        /\ current' = [current EXCEPT ![u][s] = NoCurrent]
    BY <2>1 DEF LoseConnection
  <2>3. \A v \in Users : to_us'[v][RoomServer] = <<>>
    BY <1>0, <1>1, <2>2 DEF RoomSilent, UserServerTypeOK
  <2>4. \A v \in Users : ~current'[v][RoomServer].exists
    BY <1>0, <1>1, <2>2 DEF RoomSilent, UserServerTypeOK, NoCurrent
  <2>5. QED
    BY <2>3, <2>4 DEF RoomSilent
<1>8. CASE UNCHANGED coordinatorVars
    BY <1>8 DEF coordinatorVars, usVars, netVars, RoomSilent
<1>9. QED
    BY <1>3, <1>4, <1>5, <1>6, <1>7, <1>8, MarketTurnIs DEF Next, vars

\* Who has agreed has voted, and nothing is on its way to the user server.
LEMMA AgreedVoted ==
    ASSUME LegsInv(Articles), TakingTurns, NEW u \in Users, Agreed(u)
    PROVE  /\ from_us[u][MarketServer] = <<>>
           /\ to_us[u][MarketServer] = <<>>
           /\ current[u][MarketServer] =
                [exists |-> TRUE,
                 transaction |-> LegTransaction(session[MarketServer].purpose,
                                                IF u = SessionUser(MarketServer) THEN session[MarketServer].leg ELSE 1,
                                                session[MarketServer].item)]
<1>1. Turn(u, MarketServer) /\ ~Idle(MarketServer)
    BY DEF TakingTurns, Servers, Agreed
<1>2. CASE FirstLegVoted(u, MarketServer)
  <2>1. u # SessionUser(MarketServer)
    BY <1>1, <1>2, LegsOfTrade DEF FirstLegVoted, SessionUser, Servers
  <2>2. Voted(u, MarketServer, LegTransaction(session[MarketServer].purpose, 1, session[MarketServer].item))
    BY <1>1, <1>2, <2>1 DEF Turn
  <2>3. QED
    BY <2>1, <2>2 DEF Voted
<1>3. CASE ~FirstLegVoted(u, MarketServer)
  <2>1. session[MarketServer].phase = "decide" /\ u = SessionUser(MarketServer)
    BY <1>3 DEF Agreed
  <2>2. Voted(u, MarketServer, SessionTransaction(MarketServer))
    BY <1>1, <2>1 DEF Turn
  <2>3. QED
    BY <2>1, <2>2 DEF Voted, SessionTransaction
<1>4. QED
    BY <1>2, <1>3

\* The packet that is read next is the only thing that happens on its connection.
LEMMA ReadingAlone ==
    ASSUME LegsInv(Articles), TakingTurns, NEW u \in Users, to_us[u][MarketServer] # <<>>
    PROVE  /\ from_us[u][MarketServer] = <<>> /\ ~Agreed(u)
           /\ Head(to_us[u][MarketServer]).message \in {"COMMIT", "ABORT"} => current[u][MarketServer].exists
           /\ Head(to_us[u][MarketServer]).message = "PREPARE" => ~current[u][MarketServer].exists
<1>1. ~Agreed(u)
    BY AgreedVoted
<1>2. Turn(u, MarketServer)
    BY DEF TakingTurns, Servers
<1>3. ~Idle(MarketServer) => session[MarketServer].phase \in {"prepare", "vote", "decide"}
    BY LegsOfTrade DEF LiveSessions, Servers
<1>4. AtRest(u, MarketServer) \/ \E t : Asked(u, MarketServer, t)
    BY <1>2, <1>3 DEF Turn, Voted
<1>5. CASE AtRest(u, MarketServer)
  <2>1. PICK c \in BOOLEAN : to_us[u][MarketServer] = <<Decision(c)>>
    BY <1>5 DEF AtRest
  <2>2. Head(to_us[u][MarketServer]).message # "PREPARE"
    BY <2>1 DEF Decision
  <2>3. QED
    BY <1>1, <1>5, <2>2 DEF AtRest
<1>6. ASSUME NEW t, Asked(u, MarketServer, t)
      PROVE  /\ from_us[u][MarketServer] = <<>>
             /\ Head(to_us[u][MarketServer]).message \in {"COMMIT", "ABORT"} => current[u][MarketServer].exists
             /\ Head(to_us[u][MarketServer]).message = "PREPARE" => ~current[u][MarketServer].exists
  <2>1. CASE /\ from_us[u][MarketServer] = <<>> /\ to_us[u][MarketServer] = <<Prepare(t)>>
             /\ ~current[u][MarketServer].exists
    <3>1. Head(to_us[u][MarketServer]).message = "PREPARE"
        BY <2>1 DEF Prepare
    <3>2. QED
        BY <2>1, <3>1
  <2>2. CASE /\ from_us[u][MarketServer] = <<>>
             /\ \E c \in BOOLEAN : to_us[u][MarketServer] = <<Decision(c), Prepare(t)>>
             /\ current[u][MarketServer].exists
    <3>1. PICK c \in BOOLEAN : to_us[u][MarketServer] = <<Decision(c), Prepare(t)>>
        BY <2>2
    <3>2. Head(to_us[u][MarketServer]).message # "PREPARE"
        BY <3>1 DEF Decision
    <3>3. QED
        BY <2>2, <3>2
  <2>3. QED
    BY <1>6, <2>1, <2>2 DEF Asked
<1>7. QED
    BY <1>1, <1>4, <1>5, <1>6

\* No packet ends the user server: what is voted on is a leg, decisions come when one is awaited,
\* and what is committed was possible (user_server.cpp:735-815).
LEMMA PacketsAreSafe ==
    ASSUME MarketInv, TurnInv(Articles), TakingTurns, RoomSilent, WordKept,
           NEW u \in Users, NEW s \in Servers, HandlePacket(u, s)
    PROVE  s = MarketServer /\ ~aborted'
<1>1. LegsInv(Articles) /\ UserServerTypeOK
    BY DEF TurnInv, MarketInv, CoordinatorInv, CoordinatorTypeOK
<1>2. to_us[u][s] # <<>> /\ ~aborted
    BY DEF HandlePacket, HandlePrepare, HandleCommit, HandleAbort, HandleUnexpected, Arrived
<1>3. s = MarketServer /\ MarketServer \in Servers
    BY <1>2 DEF RoomSilent, Servers
<1>4. account[u] \in Account /\ Word(u)
    BY <1>1 DEF UserServerTypeOK, WordKept
<1>5. CASE HandlePrepare(u, MarketServer)
  <2>1. Head(to_us[u][MarketServer]).message = "PREPARE"
    BY <1>5 DEF HandlePrepare, Arrived
  <2>2. PICK t : t = Head(to_us[u][MarketServer]).transaction
    OBVIOUS
  <2>3. Head(to_us[u][MarketServer]) \in ToUsMessages
    BY <1>1, <1>2, <1>3 DEF UserServerTypeOK
  <2>4. t \in Transactions
    BY <2>1, <2>2, <2>3 DEF ToUsMessages
  <2>5. ~VoteAssertFails(t, account[u], MarketServer)
    BY <1>3, <1>4, <2>4, VotesAreSafe DEF Word
  <2>6. QED
    BY <1>2, <1>3, <1>5, <2>2, <2>5 DEF HandlePrepare
<1>6. CASE HandleCommit(u, MarketServer)
  <2>1. current[u][MarketServer].exists /\ Head(to_us[u][MarketServer]).message = "COMMIT"
    BY <1>6 DEF HandleCommit, Arrived
  <2>2. CommitsIn(to_us[u][MarketServer])
    BY <1>1, <1>2, <1>3, <2>1, CommitRead
  <2>3. WillCommit(u, MarketServer)
    BY <2>1, <2>2, WillCommitIs
  <2>4. commit_transaction(current[u][MarketServer].transaction, account[u], MarketServer).ok
    BY <1>4, <2>3 DEF Word, CommitSucceeds
  <2>5. QED
    BY <1>2, <1>3, <1>6, <2>4 DEF HandleCommit
<1>7. CASE HandleAbort(u, MarketServer)
    BY <1>2, <1>3, <1>7 DEF HandleAbort
<1>8. CASE HandleUnexpected(u, MarketServer)
  <2>1. FALSE
    BY <1>1, <1>2, <1>3, <1>8, ReadingAlone DEF HandleUnexpected, Arrived
  <2>2. QED
    BY <2>1
<1>9. QED
    BY <1>3, <1>5, <1>6, <1>7, <1>8 DEF HandlePacket

\* What was said of a user stays true unless the account or the vote changes.
LEMMA WordStays ==
    ASSUME NEW u \in Users, Word(u), account'[u] = account[u],
           current'[u][MarketServer] = current[u][MarketServer],
           from_us'[u][MarketServer] = from_us[u][MarketServer] \/ from_us'[u][MarketServer] = <<>>,
           Agreed(u)' => Possible(u) /\ SlotRead(u)',
           \/ WillCommit(u, MarketServer)' => WillCommit(u, MarketServer)
           \/ commit_transaction(current[u][MarketServer].transaction, account[u], MarketServer).ok
    PROVE  Word(u)'
<1>1. Solvent(account[u])'
    BY DEF Word
<1>2. Possible(u)' <=> Possible(u)
    BY DEF Possible
<1>3. VoteTrue(u)'
  <2>1. SUFFICES ASSUME NEW vote, from_us'[u][MarketServer] = <<vote>>, vote.vote = "COMMIT"
                 PROVE  Possible(u)' /\ vote.slot = VoteCommit(current[u][MarketServer].transaction, account[u]).slot
    BY DEF VoteTrue
  <2>2. from_us[u][MarketServer] = <<vote>>
    BY <2>1
  <2>3. QED
    BY <1>2, <2>1, <2>2 DEF Word, VoteTrue
<1>4. Agreed(u)' => Possible(u)' /\ SlotRead(u)'
    BY <1>2 DEF Word
<1>5. CommitSucceeds(u)'
    BY DEF Word, CommitSucceeds
<1>6. QED
    BY <1>1, <1>3, <1>4, <1>5 DEF Word

\* A session that goes on without a new vote to commit has nobody's word it had not before.
LEMMA NoNewWord ==
    ASSUME LegsInv(Articles), ~Idle(MarketServer), session'[MarketServer].purpose = session[MarketServer].purpose,
           session'[MarketServer].leg = session[MarketServer].leg,
           session'[MarketServer].phase # "decide" \/ ~session'[MarketServer].can_commit,
           NEW u \in Users, Word(u)
    PROVE  Agreed(u)' => Possible(u) /\ SlotRead(u)'
<1>1. SUFFICES ASSUME Agreed(u)'
               PROVE  Possible(u) /\ SlotRead(u)'
    OBVIOUS
<1>2. session[MarketServer].leg = 2 /\ u = LegUser(session[MarketServer].purpose, 1)
    BY <1>1 DEF Agreed, FirstLegVoted
<1>3. Agreed(u)
    BY <1>2 DEF Agreed, FirstLegVoted
<1>4. session[MarketServer].purpose.kind = "EXCHANGE"
    BY <1>2, LegsOfTrade DEF Servers
<1>5. SlotRead(u)'
    BY <1>4 DEF SlotRead
<1>6. QED
    BY <1>3, <1>5 DEF Word

\* What reading a vote makes of the session.
LEMMA VoteTaken ==
    ASSUME LegsInv(Articles), ReceiveVote(MarketServer), NEW old, old = session[MarketServer],
           NEW vote, vote = Head(from_us[SessionUser(MarketServer)][MarketServer])
    PROVE  /\ old.phase = "vote" /\ ~Idle(MarketServer) /\ old.leg \in {1, 2}
           /\ session'[MarketServer].purpose = old.purpose
           /\ \/ /\ session'[MarketServer].phase = "decide" /\ ~session'[MarketServer].can_commit
                 /\ session'[MarketServer].leg = old.leg
              \/ /\ vote.vote = "COMMIT" /\ old.leg = Legs(old.purpose)
                 /\ session'[MarketServer].phase = "decide" /\ session'[MarketServer].leg = old.leg
                 /\ session'[MarketServer].slot = vote.slot
              \/ /\ vote.vote = "COMMIT" /\ old.leg = 1 /\ Legs(old.purpose) = 2
                 /\ session'[MarketServer].phase = "prepare" /\ session'[MarketServer].leg = 2
<1>1. old.phase = "vote" /\ ~Idle(MarketServer)
    BY DEF ReceiveVote, Idle
<1>2. old \in LiveSessions(Articles) /\ session \in [Servers -> Sessions(Articles)] /\ MarketServer \in Servers
    BY <1>1, SessionIsLive DEF LegsInv, CoordinatorInv, CoordinatorTypeOK, Servers
<1>3. old.leg \in {1, 2} /\ Legs(old.purpose) \in {1, 2} /\ old.leg <= Legs(old.purpose)
    BY <1>1, <1>2, LegsOfTrade DEF LiveSessions, Legs
<1>4. CASE PrepareFails(MarketServer)
    BY <1>1, <1>2, <1>3, <1>4 DEF PrepareFails, LiveSessions
<1>5. CASE ~PrepareFails(MarketServer)
  <2>1. PICK final \in BOOLEAN : final <=> old.leg = Legs(old.purpose)
    OBVIOUS
  <2>2. /\ vote.vote = "COMMIT"
        /\ session' = [session EXCEPT
                    ![MarketServer].phase = IF final THEN "decide" ELSE "prepare",
                    ![MarketServer].leg   = IF final THEN @ ELSE @ + 1,
                    ![MarketServer].item  = IF session[MarketServer].leg = 1 THEN vote.item ELSE @,
                    ![MarketServer].slot  = vote.slot]
    BY <1>5, <2>1 DEF ReceiveVote
  <2>3. /\ session'[MarketServer].phase = (IF final THEN "decide" ELSE "prepare")
        /\ session'[MarketServer].leg = (IF final THEN old.leg ELSE old.leg + 1)
        /\ session'[MarketServer].slot = vote.slot
        /\ session'[MarketServer].purpose = old.purpose
    BY <1>2, <2>2 DEF LiveSessions
  <2>4. CASE final
    BY <1>1, <1>3, <2>1, <2>2, <2>3, <2>4
  <2>5. CASE ~final
    <3>1. old.leg = 1 /\ Legs(old.purpose) = 2
        BY <1>3, <2>1, <2>5
    <3>2. QED
        BY <1>1, <1>3, <2>2, <2>3, <2>5, <3>1
  <2>6. final \/ ~final
    BY <2>1
  <2>7. QED
    BY <2>4, <2>5, <2>6
<1>6. QED
    BY <1>4, <1>5

\* The vote that is read is the only one, and it is true.
LEMMA TrueVoteRead ==
    ASSUME LegsInv(Articles), TakingTurns, WordKept, ReceiveVote(MarketServer),
           NEW u, u = SessionUser(MarketServer), NEW vote, vote = Head(from_us[u][MarketServer]),
           vote.vote = "COMMIT"
    PROVE  /\ u \in Users /\ from_us'[u][MarketServer] = <<>>
           /\ Possible(u)
           /\ vote.slot = VoteCommit(SessionTransaction(MarketServer), account[u]).slot
<1>1. /\ u \in Users /\ from_us'[u][MarketServer] = <<>>
      /\ current[u][MarketServer] = [exists |-> TRUE, transaction |-> SessionTransaction(MarketServer)]
    BY VoteRead DEF Servers
<1>2. Turn(u, MarketServer) /\ session[MarketServer].phase = "vote" /\ from_us[u][MarketServer] # <<>>
    BY <1>1 DEF TakingTurns, Servers, ReceiveVote
<1>3. Asked(u, MarketServer, SessionTransaction(MarketServer))
    BY <1>2 DEF Turn, Idle
<1>4. PICK v \in FromUsMessages : from_us[u][MarketServer] = <<v>>
    BY <1>2, <1>3 DEF Asked
<1>5. from_us[u][MarketServer] = <<vote>>
    BY <1>4
<1>6. VoteTrue(u)
    BY <1>1 DEF WordKept, Word
<1>7. QED
    BY <1>1, <1>5, <1>6 DEF VoteTrue

\* The slot a bid is placed with is the one its vote named, and its commit will reserve that one.
LEMMA SlotOfBidRead ==
    ASSUME session[MarketServer].purpose.kind = "BUY", NEW a
    PROVE  VoteCommit(SessionTransaction(MarketServer), a).slot = Min(EmptySlots(a))
<1>1. PICK p, t : p = session[MarketServer].purpose /\ t = SessionTransaction(MarketServer)
    OBVIOUS
<1>2. t = IF p.price > 0 THEN <<SlotReserve, MoneyReserve(p.price)>> ELSE <<SlotReserve>>
  <2>1. PICK leg, item : t = LegTransaction(p, leg, item)
    BY <1>1 DEF SessionTransaction
  <2>2. p.kind = "BUY"
    BY <1>1
  <2>3. QED
    BY <2>1, <2>2, LegForms, Zenon
<1>3. t[1] = SlotReserve
    BY <1>2
<1>4. t[1].type = "SLOT_RESERVE"
    BY <1>3 DEF SlotReserve
<1>5. QED
    BY <1>1, <1>4 DEF VoteCommit

\* Both users of a trade whose second vote is read have agreed to what their legs ask.
LEMMA TradersAgree ==
    ASSUME NEW p, MarketInv, LegsInv(Articles), TakingTurns, WordKept, ReceiveVote(MarketServer),
           TradeAgreed(MarketServer), p = session[MarketServer].purpose
    PROVE  /\ p.kind = "EXCHANGE" /\ p.seller \in Users /\ p.buyer \in Users /\ p.seller # p.buyer
           /\ p.item \in Item /\ p.price \in Nat /\ p.bid \in Nat /\ p.slot \in Slots
           /\ current[p.seller][MarketServer].transaction = LegTransaction(p, 1, p.item)
           /\ current[p.buyer][MarketServer].transaction = LegTransaction(p, 2, p.item)
           /\ account[p.seller] \in Account /\ account[p.buyer] \in Account
           /\ Solvent(account[p.seller]) /\ Solvent(account[p.buyer])
           /\ Possible(p.seller) /\ Possible(p.buyer)
<1>1. /\ p.kind = "EXCHANGE" /\ p.seller \in Users /\ p.buyer \in Users /\ p.seller # p.buyer
      /\ current[p.seller][MarketServer].transaction = LegTransaction(p, 1, p.item)
      /\ current[p.buyer][MarketServer].transaction = LegTransaction(p, 2, p.item)
      /\ session[MarketServer].phase = "vote"
    BY DEF TradeAgreed
<1>2. /\ account[p.seller] \in Account /\ account[p.buyer] \in Account
      /\ Solvent(account[p.seller]) /\ Solvent(account[p.buyer])
    BY <1>1 DEF MarketInv, CoordinatorInv, CoordinatorTypeOK, UserServerTypeOK, WordKept, Word
<1>3. p.item \in Item /\ p.price \in Nat /\ p.bid \in Nat /\ p.slot \in Slots
    BY <1>1, LegsOfTrade, PricesAssumption DEF Own, Purposes, Servers, Idle
<1>4. TradeDecided'
    BY DEF TradeAgreed
<1>5. session[MarketServer].leg = 2 /\ Head(from_us[SessionUser(MarketServer)][MarketServer]).vote = "COMMIT"
  <2>1. session'[MarketServer].phase = "decide" /\ session'[MarketServer].can_commit
    BY <1>4 DEF TradeDecided
  <2>2. Legs(p) = 2
    BY <1>1 DEF Legs
  <2>3. QED
    BY <2>1, <2>2, VoteTaken
<1>6. LegUser(p, 1) = p.seller /\ SessionUser(MarketServer) = p.buyer
    BY <1>1, <1>5 DEF LegUser, SessionUser
<1>7. Possible(p.seller)
  <2>1. Agreed(p.seller)
    BY <1>1, <1>5, <1>6 DEF Agreed, FirstLegVoted, Idle
  <2>2. QED
    BY <1>1, <2>1 DEF WordKept, Word
<1>8. Possible(p.buyer)
    BY <1>5, <1>6, TrueVoteRead
<1>9. QED
    BY <1>1, <1>2, <1>3, <1>7, <1>8

\* Once the second user of a trade has voted, both commits will succeed, and this is what they do.
SellersCommit(a, r, p) ==
    /\ r.ok
    /\ \E n \in Slots :
        /\ n \in SlotsHolding(a, p.item)
        /\ SlotBecomes(a, r.account, n, NoItem, NoServer)
    /\ MoneyBecomes(a, r.account, MarketServer, a.money + p.price, a.money_reservations[MarketServer])
BuyersCommit(a, r, p) ==
    /\ r.ok
    /\ a.inventory_reservations[p.slot] = MarketServer /\ a.inventory[p.slot].item = NoItem
    /\ SlotBecomes(a, r.account, p.slot, p.item, NoServer)
    /\ MoneyBecomes(a, r.account, MarketServer, a.money - p.price, a.money_reservations[MarketServer] - p.bid)
LEMMA TradeEffects ==
    ASSUME NEW p, MarketInv, LegsInv(Articles), TakingTurns, WordKept, ReceiveVote(MarketServer),
           TradeAgreed(MarketServer), p = session[MarketServer].purpose, p.price <= p.bid,
           account[p.buyer].money_reservations[MarketServer] >= p.bid
    PROVE  /\ SellersCommit(account[p.seller],
                commit_transaction(current[p.seller][MarketServer].transaction, account[p.seller], MarketServer), p)
           /\ BuyersCommit(account[p.buyer],
                commit_transaction(current[p.buyer][MarketServer].transaction, account[p.buyer], MarketServer), p)
<1>1. /\ p.kind = "EXCHANGE" /\ p.item \in Item /\ p.price \in Nat /\ p.bid \in Nat /\ p.slot \in Slots
      /\ current[p.seller][MarketServer].transaction = LegTransaction(p, 1, p.item)
      /\ current[p.buyer][MarketServer].transaction = LegTransaction(p, 2, p.item)
      /\ account[p.seller] \in Account /\ account[p.buyer] \in Account
      /\ Solvent(account[p.seller]) /\ Solvent(account[p.buyer])
      /\ Possible(p.seller) /\ Possible(p.buyer)
      /\ MarketServer \in Servers
    BY TradersAgree DEF Servers
<1>2. SellersCommit(account[p.seller],
          commit_transaction(current[p.seller][MarketServer].transaction, account[p.seller], MarketServer), p)
  <2>1. PICK a, t, n, b : /\ a = account[p.seller] /\ t = current[p.seller][MarketServer].transaction
                          /\ n = SlotOf(a, p.item) /\ b = commit_transaction(t, a, MarketServer).account
    OBVIOUS
  <2>2. PICK item \in Item, x \in Nat : item = p.item /\ x = p.price
    BY <1>1
  <2>3. t = <<ItemToServer(item), MoneyTransfer(x, FALSE)>>
    BY <1>1, <2>1, <2>2, LegForms
  <2>4. transaction_possible(t, a, MarketServer) /\ a \in Account /\ Solvent(a)
    BY <1>1, <2>1 DEF Possible
  <2>5. n = SlotOf(a, item) /\ b = commit_transaction(t, a, MarketServer).account
    BY <2>1, <2>2
  <2>6. /\ commit_transaction(t, a, MarketServer).ok
        /\ n \in SlotsHolding(a, item)
        /\ SlotBecomes(a, b, n, NoItem, NoServer)
        /\ MoneyBecomes(a, b, MarketServer, a.money + x, a.money_reservations[MarketServer])
    BY <1>1, <2>3, <2>4, <2>5, SellerCommits, Zenon
  <2>7. n \in Slots
    BY <2>6 DEF SlotsHolding
  <2>8. QED
    BY <2>1, <2>2, <2>6, <2>7 DEF SellersCommit
<1>3. BuyersCommit(account[p.buyer],
          commit_transaction(current[p.buyer][MarketServer].transaction, account[p.buyer], MarketServer), p)
  <2>1. PICK a, t, b : /\ a = account[p.buyer] /\ t = current[p.buyer][MarketServer].transaction
                       /\ b = commit_transaction(t, a, MarketServer).account
    OBVIOUS
  <2>2. t = IF p.bid - p.price > 0
            THEN <<SlotUnreserve(p.slot), MoneyUnreserve(p.bid - p.price), ItemToInventory(p.item, p.slot),
                   MoneyTransfer(-p.price, -p.price < 0)>>
            ELSE <<SlotUnreserve(p.slot), ItemToInventory(p.item, p.slot), MoneyTransfer(-p.price, -p.price < 0)>>
    BY <1>1, <2>1, LegForms
  <2>3. transaction_possible(t, a, MarketServer) /\ a \in Account /\ Solvent(a)
        /\ a.money_reservations[MarketServer] >= p.bid
    BY <1>1, <2>1 DEF Possible
  <2>4. /\ commit_transaction(t, a, MarketServer).ok
        /\ a.inventory_reservations[p.slot] = MarketServer /\ a.inventory[p.slot].item = NoItem
        /\ SlotBecomes(a, b, p.slot, p.item, NoServer)
        /\ MoneyBecomes(a, b, MarketServer, a.money - p.price, a.money_reservations[MarketServer] - p.bid)
    <3>1. PICK item \in Item, m \in Slots, x \in Nat, y \in Nat : item = p.item /\ m = p.slot /\ x = p.price /\ y = p.bid
        BY <1>1
    <3>2. t = IF y - x > 0
              THEN <<SlotUnreserve(m), MoneyUnreserve(y - x), ItemToInventory(item, m), MoneyTransfer(-x, -x < 0)>>
              ELSE <<SlotUnreserve(m), ItemToInventory(item, m), MoneyTransfer(-x, -x < 0)>>
        BY <2>2, <3>1
    <3>3. x <= y /\ a.money_reservations[MarketServer] >= y /\ b = commit_transaction(t, a, MarketServer).account
        BY <2>1, <2>3, <3>1
    <3>4. /\ commit_transaction(t, a, MarketServer).ok
          /\ a.inventory_reservations[m] = MarketServer /\ a.inventory[m].item = NoItem
          /\ SlotBecomes(a, b, m, item, NoServer)
          /\ MoneyBecomes(a, b, MarketServer, a.money - x, a.money_reservations[MarketServer] - y)
      <4>1. a \in Account /\ Solvent(a) /\ MarketServer \in Servers /\ transaction_possible(t, a, MarketServer)
        BY <1>1, <2>3
      <4>2. QED
        BY <3>2, <3>3, <4>1, BuyerCommits, SMTT(60)
    <3>5. QED
        BY <3>1, <3>4
  <2>5. QED
    BY <2>1, <2>4 DEF BuyersCommit
<1>4. QED
    BY <1>2, <1>3

LEMMA TradeCommits ==
    ASSUME MarketInv, LegsInv(Articles), TakingTurns, WordKept, ReceiveVote(MarketServer), TradeAgreed(MarketServer),
           NEW p, p = session[MarketServer].purpose, p.price <= p.bid,
           account[p.buyer].money_reservations[MarketServer] >= p.bid,
           NEW u, u \in {p.seller, p.buyer}
    PROVE  commit_transaction(current[u][MarketServer].transaction, account[u], MarketServer).ok
<1>1. /\ SellersCommit(account[p.seller],
           commit_transaction(current[p.seller][MarketServer].transaction, account[p.seller], MarketServer), p)
      /\ BuyersCommit(account[p.buyer],
           commit_transaction(current[p.buyer][MarketServer].transaction, account[p.buyer], MarketServer), p)
    BY TradeEffects
<1>2. CASE u = p.seller
    BY <1>1, <1>2 DEF SellersCommit
<1>3. CASE u = p.buyer
    BY <1>1, <1>3 DEF BuyersCommit
<1>4. QED
    BY <1>2, <1>3

\* A trade whose second user has voted: its price is not above the bid, and the bid is reserved.
TradeCovered ==
    TradeAgreed(MarketServer) =>
        LET p == session[MarketServer].purpose
        IN  /\ p.price <= p.bid
            /\ account[p.buyer].money_reservations[MarketServer] >= p.bid

LEMMA VoteKeepsWord ==
    ASSUME MarketInv, TurnInv(Articles), LegsInv(Articles)', TakingTurns, WordKept, TradeCovered,
           ReceiveVote(MarketServer)
    PROVE  WordKept'
<1>1. SUFFICES ASSUME NEW v \in Users
               PROVE  Word(v)'
    BY DEF WordKept
<1>2. LegsInv(Articles) /\ Word(v)
    BY DEF TurnInv, WordKept
<1>3. UNCHANGED <<account, current>>
    BY DEF ReceiveVote, accountVars
<1>4. PICK u, vote : u = SessionUser(MarketServer) /\ vote = Head(from_us[u][MarketServer])
    OBVIOUS
<1>5. from_us'[v][MarketServer] = from_us[v][MarketServer] \/ from_us'[v][MarketServer] = <<>>
  <2>1. from_us'[u][MarketServer] = <<>>
    BY <1>2, <1>4, VoteRead DEF Servers
  <2>2. v # u => from_us'[v][MarketServer] = from_us[v][MarketServer]
    BY <1>2, <1>4, VoteRead DEF Servers
  <2>3. QED
    BY <2>1, <2>2
<1>6. Agreed(v)' => Possible(v) /\ SlotRead(v)'
  <2>1. PICK old : old = session[MarketServer]
    OBVIOUS
  <2>2. /\ ~Idle(MarketServer) /\ session'[MarketServer].purpose = old.purpose /\ old.leg \in {1, 2}
        /\ old.phase = "vote"
    BY <1>2, <2>1, VoteTaken
  <2>3. CASE /\ session'[MarketServer].phase = "decide" /\ ~session'[MarketServer].can_commit
             /\ session'[MarketServer].leg = old.leg
    BY <1>2, <2>1, <2>2, <2>3, NoNewWord
  <2>4. CASE /\ vote.vote = "COMMIT" /\ session'[MarketServer].leg = old.leg
             /\ session'[MarketServer].slot = vote.slot
    <3>1. SUFFICES ASSUME Agreed(v)'
                   PROVE  Possible(v) /\ SlotRead(v)'
        OBVIOUS
    <3>2. CASE old.leg = 2 /\ v = LegUser(old.purpose, 1)
        <4>1. Agreed(v)
            BY <2>1, <2>2, <3>2 DEF Agreed, FirstLegVoted
        <4>2. old.purpose.kind = "EXCHANGE"
            BY <1>2, <2>1, <2>2, <3>2, LegsOfTrade DEF Servers
        <4>3. SlotRead(v)'
            BY <2>2, <4>2 DEF SlotRead
        <4>4. QED
            BY <1>2, <4>1, <4>3 DEF Word
    <3>3. CASE ~(old.leg = 2 /\ v = LegUser(old.purpose, 1))
        <4>1. v = u
            BY <1>4, <2>1, <2>2, <2>4, <3>1, <3>3 DEF Agreed, FirstLegVoted, SessionUser
        <4>2. Possible(v) /\ vote.slot = VoteCommit(SessionTransaction(MarketServer), account[v]).slot
            BY <1>2, <1>4, <2>4, <4>1, TrueVoteRead
        <4>3. SlotRead(v)'
            <5>1. SUFFICES ASSUME session'[MarketServer].purpose.kind = "BUY"
                           PROVE  session'[MarketServer].slot = Min(EmptySlots(account'[v]))
                BY DEF SlotRead
            <5>2. session[MarketServer].purpose.kind = "BUY"
                BY <2>1, <2>2, <5>1
            <5>3. vote.slot = Min(EmptySlots(account[v]))
                BY <4>2, <5>2, SlotOfBidRead
            <5>4. QED
                BY <1>3, <2>4, <5>3
        <4>4. QED
            BY <4>2, <4>3
    <3>4. QED
        BY <3>2, <3>3
  <2>5. CASE /\ vote.vote = "COMMIT" /\ old.leg = 1 /\ Legs(old.purpose) = 2
             /\ session'[MarketServer].phase = "prepare" /\ session'[MarketServer].leg = 2
    <3>1. SUFFICES ASSUME Agreed(v)'
                   PROVE  Possible(v) /\ SlotRead(v)'
        OBVIOUS
    <3>2. v = u
        BY <1>4, <2>1, <2>2, <2>5, <3>1 DEF Agreed, FirstLegVoted, SessionUser
    <3>3. Possible(v)
        BY <1>2, <1>4, <2>5, <3>2, TrueVoteRead
    <3>4. SlotRead(v)'
        BY <2>5 DEF SlotRead
    <3>5. QED
        BY <3>3, <3>4
  <2>6. QED
    BY <1>2, <1>4, <2>1, <2>3, <2>4, <2>5, VoteTaken
<1>7. \/ WillCommit(v, MarketServer)' => WillCommit(v, MarketServer)
      \/ commit_transaction(current[v][MarketServer].transaction, account[v], MarketServer).ok
  <2>1. CASE NoneDisturbed
    BY <2>1 DEF NoneDisturbed, Undisturbed, Servers
  <2>2. CASE TradeAgreed(MarketServer)
    <3>1. PICK p : p = session[MarketServer].purpose
        OBVIOUS
    <3>2. p.price <= p.bid /\ account[p.buyer].money_reservations[MarketServer] >= p.bid
        BY <2>2, <3>1 DEF TradeCovered
    <3>3. CASE v \in {p.seller, p.buyer}
        BY <1>2, <2>2, <3>1, <3>2, <3>3, TradeCommits
    <3>4. CASE v \notin {p.seller, p.buyer}
        <4>1. Undisturbed(v, MarketServer)
            BY <2>2, <3>1, <3>4 DEF TradeAgreed, Servers
        <4>2. QED
            BY <4>1 DEF Undisturbed
    <3>5. QED
        BY <3>3, <3>4
  <2>3. QED
    BY <1>2, <2>1, <2>2, VoteDisturbs DEF Servers
<1>8. QED
    BY <1>2, <1>3, <1>5, <1>6, <1>7, WordStays

\* A step that starts no commit, and of which nobody is asked more than before.
LEMMA QuietKeepsWord ==
    ASSUME WordKept, NoneDisturbed, UNCHANGED <<account, current, from_us>>,
           \A v \in Users : Agreed(v)' => Possible(v) /\ SlotRead(v)'
    PROVE  WordKept'
<1>1. ASSUME NEW v \in Users
      PROVE  Word(v)'
  <2>1. WillCommit(v, MarketServer)' => WillCommit(v, MarketServer)
    BY DEF NoneDisturbed, Undisturbed, Servers
  <2>2. QED
    BY <2>1, WordStays DEF WordKept
<1>2. QED
    BY <1>1 DEF WordKept

LEMMA CoordinatorKeepsWord ==
    ASSUME MarketInv, TurnInv(Articles), LegsInv(Articles)', TakingTurns, WordKept, TradeCovered, AllWell',
           CoordinatorStep(MarketServer)
    PROVE  WordKept'
<1>0. /\ LegsInv(Articles) /\ FaultsBounded /\ MarketServer \in Servers /\ faults \in Faults
      /\ session \in [Servers -> Sessions(Articles)]
    BY DEF TurnInv, MarketInv, CoordinatorInv, CoordinatorTypeOK, Servers
<1>1. CASE SendPrepare(MarketServer)
  <2>1. ~Idle(MarketServer)
    BY <1>1 DEF SendPrepare, Idle
  <2>2. session[MarketServer] \in LiveSessions(Articles)
    BY <1>0, <2>1, LegsOfTrade
  <2>3. /\ session'[MarketServer].purpose = session[MarketServer].purpose
        /\ session'[MarketServer].leg = session[MarketServer].leg
        /\ session'[MarketServer].phase # "decide" \/ ~session'[MarketServer].can_commit
    BY <1>0, <1>1, <2>2 DEF SendPrepare, PrepareFails, LiveSessions
  <2>4. \A v \in Users : Agreed(v)' => Possible(v) /\ SlotRead(v)'
    BY <1>0, <2>1, <2>3, NoNewWord DEF WordKept
  <2>5. UNCHANGED <<account, current, from_us>>
    BY <1>1 DEF SendPrepare, SendTo, CannotSendTo, usVars
  <2>6. NoneDisturbed
    BY <1>0, <1>1, PrepareDisturbsNone
  <2>7. QED
    BY <2>4, <2>5, <2>6, QuietKeepsWord
<1>2. CASE ReceiveVote(MarketServer)
    BY <1>2, VoteKeepsWord
<1>3. CASE ReadTimeout(MarketServer)
    BY <1>0, <1>3, FaultTaken DEF ReadTimeout
<1>4. CASE ReadFails(MarketServer)
  <2>1. ~Idle(MarketServer)
    BY <1>4 DEF ReadFails, Idle
  <2>2. SessionUser(MarketServer) \in Users
    BY <1>0, <2>1, SessionAsksForLeg
  <2>3. QED
    BY <1>0, <1>4, <2>2 DEF ReadFails, TakingTurns
<1>5. CASE DecideSecondLeg(MarketServer)
  <2>1. PICK old : old = session[MarketServer]
    OBVIOUS
  <2>2. PICK sent \in BOOLEAN : /\ SendDecision(MarketServer, old.can_commit, sent)
                                /\ session' = [session EXCEPT ![MarketServer].leg = 1, ![MarketServer].can_commit = @ /\ sent]
    BY <1>5, <2>1 DEF DecideSecondLeg
  <2>3. old.leg = 2 /\ old.phase = "decide" /\ ~Idle(MarketServer)
    BY <1>5, <2>1 DEF DecideSecondLeg, SendDecision, Idle
  <2>4. old \in LiveSessions(Articles)
    BY <1>0, <2>1, <2>3, LegsOfTrade
  <2>5. /\ session'[MarketServer].purpose = old.purpose /\ session'[MarketServer].leg = 1
        /\ session'[MarketServer].phase = "decide"
    BY <1>0, <2>1, <2>2, <2>3, <2>4 DEF LiveSessions
  <2>6. old.purpose.kind = "EXCHANGE"
    BY <1>0, <2>1, <2>3, LegsOfTrade
  <2>7. ASSUME NEW v \in Users, Agreed(v)'
        PROVE  Possible(v) /\ SlotRead(v)'
    <3>1. v = LegUser(old.purpose, 1)
        BY <2>5, <2>7 DEF Agreed, FirstLegVoted, SessionUser
    <3>2. Agreed(v)
        BY <2>1, <2>3, <3>1 DEF Agreed, FirstLegVoted
    <3>3. SlotRead(v)'
        BY <2>5, <2>6 DEF SlotRead
    <3>4. QED
        BY <3>2, <3>3 DEF WordKept, Word
  <2>8. UNCHANGED <<account, current, from_us>>
    BY <2>2 DEF SendDecision, SendTo, CannotSendTo, usVars
  <2>9. NoneDisturbed
    BY <1>0, <1>5, SecondDecisionDisturbsNone
  <2>10. QED
    BY <2>7, <2>8, <2>9, QuietKeepsWord
<1>6. QED
    BY <1>1, <1>2, <1>3, <1>4, <1>5 DEF CoordinatorStep

LEMMA BeginKeepsWord ==
    ASSUME LegsInv(Articles), WordKept, NEW p, Begin(MarketServer, p)
    PROVE  WordKept'
<1>1. /\ session \in [Servers -> Sessions(Articles)] /\ MarketServer \in Servers
      /\ session' = [session EXCEPT ![MarketServer] = NewSession(p)]
      /\ UNCHANGED <<account, current, from_us>>
    BY DEF LegsInv, CoordinatorInv, CoordinatorTypeOK, Servers, Begin, usVars
<1>2. session'[MarketServer].phase = "prepare" /\ session'[MarketServer].leg = 1
    BY <1>1 DEF NewSession
<1>3. \A v \in Users : ~Agreed(v)'
    BY <1>2 DEF Agreed, FirstLegVoted
<1>4. NoneDisturbed
    BY <1>1, BeginDisturbsNone
<1>5. QED
    BY <1>1, <1>3, <1>4, QuietKeepsWord

\* Placing a bid or an offer, once voted for, succeeds.
LEMMA PlacingCommits ==
    ASSUME LegsInv(Articles), ~Idle(MarketServer), session[MarketServer].purpose.kind \in {"BUY", "SELL"},
           NEW a \in Account, Solvent(a), transaction_possible(SessionTransaction(MarketServer), a, MarketServer)
    PROVE  commit_transaction(SessionTransaction(MarketServer), a, MarketServer).ok
<1>1. PICK p, t : p = session[MarketServer].purpose /\ t = SessionTransaction(MarketServer)
    OBVIOUS
<1>2. p \in Own(Articles, MarketServer) /\ MarketServer \in Servers
    BY <1>1, LegsOfTrade DEF Servers
<1>3. PICK b : b = commit_transaction(t, a, MarketServer).account
    OBVIOUS
<1>4. CASE p.kind = "BUY"
  <2>1. t = IF p.price > 0 THEN <<SlotReserve, MoneyReserve(p.price)>> ELSE <<SlotReserve>>
    <3>1. PICK leg, item : t = LegTransaction(p, leg, item)
        BY <1>1 DEF SessionTransaction
    <3>2. QED
        BY <1>4, <3>1, LegForms, Zenon
  <2>2. PICK x \in Nat : x = p.price
    BY <1>2, <1>4, PricesAssumption DEF Own, Purposes
  <2>3. PICK n : n = Min(EmptySlots(a))
    OBVIOUS
  <2>4. t = IF x > 0 THEN <<SlotReserve, MoneyReserve(x)>> ELSE <<SlotReserve>>
    BY <2>1, <2>2
  <2>5. commit_transaction(t, a, MarketServer).ok
    BY <1>1, <1>2, <1>3, <2>3, <2>4, BidCommits
  <2>6. QED
    BY <1>1, <2>5
<1>5. CASE p.kind = "SELL"
  <2>1. t = <<ItemReserve(p.item)>>
    <3>1. PICK leg, item : t = LegTransaction(p, leg, item)
        BY <1>1 DEF SessionTransaction
    <3>2. QED
        BY <1>5, <3>1, LegForms, Zenon
  <2>2. PICK item \in Item : item = p.item
    BY <1>2, <1>5 DEF Own, Purposes, Item
  <2>3. PICK n : n = SlotOf(a, item)
    OBVIOUS
  <2>4. t = <<ItemReserve(item)>>
    BY <2>1, <2>2
  <2>5. commit_transaction(t, a, MarketServer).ok
    BY <1>1, <1>2, <1>3, <2>3, <2>4, OfferCommits
  <2>6. QED
    BY <1>1, <2>5
<1>6. QED
    BY <1>1, <1>4, <1>5

LEMMA FirstDecisionKeepsWord ==
    ASSUME MarketInv, TurnInv(Articles), TakingTurns, WordKept, AllWell',
           NEW commit \in BOOLEAN, NEW sent \in BOOLEAN, commit <=> session[MarketServer].can_commit,
           commit = session[MarketServer].can_commit,
           DecideFirstLeg(MarketServer, commit, sent)
    PROVE  WordKept'
<1>0. /\ LegsInv(Articles) /\ FaultsBounded /\ MarketServer \in Servers
      /\ session \in [Servers -> Sessions(Articles)]
    BY DEF TurnInv, MarketInv, CoordinatorInv, CoordinatorTypeOK, Servers
<1>1. /\ session'[MarketServer] = NoSession /\ UNCHANGED <<account, current, from_us>>
      /\ session[MarketServer].phase = "decide" /\ ~Idle(MarketServer) /\ session[MarketServer].leg = 1
    BY <1>0 DEF DecideFirstLeg, SendDecision, SendTo, CannotSendTo, usVars, Idle
<1>2. \A v \in Users : ~Agreed(v)'
    BY <1>1 DEF Agreed, Idle, NoSession
<1>3. CASE session[MarketServer].purpose.kind = "EXCHANGE"
  <2>1. NoneDisturbed
    BY <1>0, <1>3, FirstDecisionDisturbs
  <2>2. QED
    BY <1>1, <1>2, <2>1, QuietKeepsWord
<1>4. CASE session[MarketServer].purpose.kind # "EXCHANGE"
  <2>0. PICK u, t : u = SessionUser(MarketServer) /\ t = SessionTransaction(MarketServer)
    OBVIOUS
  <2>1. /\ u \in Users /\ OthersUndisturbed(u, MarketServer)
        /\ current[u][MarketServer] = [exists |-> TRUE, transaction |-> t]
        /\ WillCommit(u, MarketServer)' <=> commit
    BY <1>0, <1>4, <2>0, FirstDecisionDisturbs
  <2>2. session[MarketServer].purpose.kind \in {"BUY", "SELL"}
    BY <1>0, <1>1, <1>4, LegsOfTrade DEF Own
  <2>3. CASE ~commit
    <3>1. ASSUME NEW v \in Users
          PROVE  Word(v)'
      <4>1. WillCommit(v, MarketServer)' => WillCommit(v, MarketServer)
        BY <1>0, <2>1, <2>3 DEF OthersUndisturbed, Undisturbed
      <4>2. QED
        BY <1>1, <1>2, <4>1, WordStays DEF WordKept
    <3>2. QED
        BY <3>1 DEF WordKept
  <2>4. CASE commit
    <3>1. Agreed(u) /\ Word(u)
        BY <1>1, <2>0, <2>1, <2>4 DEF Agreed, WordKept
    <3>2. Possible(u) /\ Solvent(account[u])
        BY <3>1 DEF Word
    <3>3. account[u] \in Account
        BY <2>1 DEF MarketInv, CoordinatorInv, CoordinatorTypeOK, UserServerTypeOK
    <3>4. transaction_possible(t, account[u], MarketServer)
        BY <2>1, <3>2 DEF Possible
    <3>5. commit_transaction(t, account[u], MarketServer).ok
        BY <1>0, <1>1, <2>0, <2>2, <3>2, <3>3, <3>4, PlacingCommits
    <3>6. ASSUME NEW v \in Users
          PROVE  Word(v)'
      <4>1. CASE v = u
        BY <1>1, <1>2, <2>1, <3>1, <3>5, <4>1, WordStays
      <4>2. CASE v # u
        <5>1. WillCommit(v, MarketServer)' => WillCommit(v, MarketServer)
            BY <1>0, <2>1, <4>2 DEF OthersUndisturbed, Undisturbed
        <5>2. QED
            BY <1>1, <1>2, <5>1, WordStays DEF WordKept
      <4>3. QED
        BY <4>1, <4>2
    <3>7. QED
        BY <3>6 DEF WordKept
  <2>5. QED
    BY <2>3, <2>4
<1>5. QED
    BY <1>3, <1>4

\* A packet changes what was said of its user only, and that user has not agreed to anything.
LEMMA PacketKeepsWord ==
    ASSUME MarketInv, TurnInv(Articles), TakingTurns, RoomSilent, WordKept, UNCHANGED session,
           NEW u \in Users, NEW s \in Servers, HandlePacket(u, s)
    PROVE  WordKept'
<1>0. LegsInv(Articles) /\ UserServerTypeOK
    BY DEF TurnInv, MarketInv, CoordinatorInv, CoordinatorTypeOK
<1>1. s = MarketServer /\ ~aborted' /\ MarketServer \in Servers
    BY PacketsAreSafe DEF Servers
<1>2. to_us[u][MarketServer] # <<>>
    BY <1>1 DEF HandlePacket, HandlePrepare, HandleCommit, HandleAbort, HandleUnexpected, Arrived
<1>3. from_us[u][MarketServer] = <<>> /\ ~Agreed(u)
    BY <1>0, <1>2, ReadingAlone
<1>4. \A v : Agreed(v)' <=> Agreed(v)
    BY DEF Agreed, FirstLegVoted, Idle, SessionUser
<1>5. /\ OthersUndisturbed(u, MarketServer)
      /\ HandleCommit(u, MarketServer) => ~WillCommit(u, MarketServer)'
      /\ ~HandleCommit(u, MarketServer) => Undisturbed(u, MarketServer)
    BY <1>0, <1>1, PacketDisturbs
<1>6. ASSUME NEW v \in Users, v # u
      PROVE  Word(v)'
  <2>1. /\ account'[v] = account[v] /\ current'[v][MarketServer] = current[v][MarketServer]
        /\ from_us'[v][MarketServer] = from_us[v][MarketServer]
    BY <1>0, <1>1, <1>6 DEF HandlePacket, HandlePrepare, HandleCommit, HandleAbort, HandleUnexpected,
                            UserServerTypeOK, accountVars
  <2>2. WillCommit(v, MarketServer)' => WillCommit(v, MarketServer)
    BY <1>1, <1>5, <1>6 DEF OthersUndisturbed, Undisturbed
  <2>3. Word(v) /\ (SlotRead(v)' <=> SlotRead(v))
    BY <2>1 DEF WordKept, SlotRead
  <2>4. Agreed(v)' => Possible(v) /\ SlotRead(v)'
    BY <1>4, <2>3 DEF Word
  <2>5. QED
    BY <2>1, <2>2, <2>3, <2>4, WordStays
<1>7. Word(u)'
  <2>1. Word(u) /\ account[u] \in Account
    BY <1>0 DEF WordKept, UserServerTypeOK
  <2>2. CASE HandlePrepare(u, MarketServer)
    <3>1. PICK t : t = Head(to_us[u][MarketServer]).transaction
        OBVIOUS
    <3>2. PICK vote : vote = IF transaction_possible(t, account[u], MarketServer)
                             THEN VoteCommit(t, account[u]) ELSE VoteAbort
        OBVIOUS
    <3>3. /\ current' = [current EXCEPT ![u][MarketServer] = [exists |-> TRUE, transaction |-> t]]
          /\ from_us' = [from_us EXCEPT ![u][MarketServer] = Append(@, vote)]
          /\ UNCHANGED account
        BY <1>1, <2>2, <3>1, <3>2 DEF HandlePrepare, accountVars
    <3>4. /\ current'[u][MarketServer].transaction = t
          /\ from_us'[u][MarketServer] = Append(<<>>, vote)
        BY <1>0, <1>1, <1>3, <3>3 DEF UserServerTypeOK
    <3>5. VoteTrue(u)'
        <4>1. SUFFICES ASSUME NEW v, from_us'[u][MarketServer] = <<v>>, v.vote = "COMMIT"
                       PROVE  Possible(u)' /\ v.slot = VoteCommit(t, account[u]).slot
            BY <3>3, <3>4 DEF VoteTrue
        <4>2. v = vote
            BY <3>4, <4>1, ShortQueues
        <4>3. transaction_possible(t, account[u], MarketServer)
            BY <3>2, <4>1, <4>2 DEF VoteAbort
        <4>4. QED
            BY <3>2, <3>3, <3>4, <4>2, <4>3 DEF Possible
    <3>6. CommitSucceeds(u)'
        <4>1. Undisturbed(u, MarketServer)
            BY <1>5, <2>2 DEF HandlePrepare, HandleCommit, Arrived
        <4>2. CASE WillCommit(u, MarketServer)
            BY <2>1, <3>3, <4>1, <4>2 DEF Undisturbed, Word, CommitSucceeds
        <4>3. CASE ~WillCommit(u, MarketServer)
            BY <4>1, <4>3 DEF Undisturbed, CommitSucceeds
        <4>4. QED
            BY <4>2, <4>3
    <3>7. QED
        BY <1>3, <1>4, <2>1, <3>3, <3>5, <3>6 DEF Word
  <2>3. CASE HandleCommit(u, MarketServer)
    <3>1. PICK t : t = current[u][MarketServer].transaction
        OBVIOUS
    <3>2. t \in Transactions /\ current[u][MarketServer].exists
        BY <1>0, <1>1, <2>3, <3>1 DEF UserServerTypeOK, HandleCommit
    <3>3. /\ account' = [account EXCEPT ![u] = commit_transaction(t, account[u], MarketServer).account]
          /\ UNCHANGED from_us
        BY <1>1, <2>3, <3>1 DEF HandleCommit
    <3>4. account'[u] = commit_transaction(t, account[u], MarketServer).account
        BY <1>0, <3>3 DEF UserServerTypeOK
    <3>5. Solvent(account'[u])
        BY <1>1, <2>1, <3>2, <3>4, CommitKeepsSolvent DEF Word
    <3>6. VoteTrue(u)'
        BY <1>3, <3>3, ShortQueues DEF VoteTrue
    <3>7. CommitSucceeds(u)'
        BY <1>5, <2>3 DEF CommitSucceeds
    <3>8. QED
        BY <1>3, <1>4, <3>5, <3>6, <3>7 DEF Word
  <2>4. CASE HandleAbort(u, MarketServer)
    <3>1. UNCHANGED <<account, from_us>>
        BY <2>4 DEF HandleAbort
    <3>2. VoteTrue(u)'
        BY <1>3, <3>1, ShortQueues DEF VoteTrue
    <3>3. ~current'[u][MarketServer].exists
        BY <1>0, <1>1, <2>4 DEF HandleAbort, NoCurrent, UserServerTypeOK
    <3>4. CommitSucceeds(u)'
        BY <3>3, WillCommitThen DEF CommitSucceeds
    <3>5. QED
        BY <1>3, <1>4, <2>1, <3>1, <3>2, <3>4 DEF Word
  <2>5. CASE HandleUnexpected(u, MarketServer)
    BY <1>1, <2>5 DEF HandleUnexpected
  <2>6. QED
    BY <1>1, <2>2, <2>3, <2>4, <2>5 DEF HandlePacket
<1>8. QED
    BY <1>6, <1>7 DEF WordKept

-----------------------------------------------------------------------------
(***************************************************************************)
(* The pass over the book.                                                 *)
(***************************************************************************)
\* The trade under way is the one of the order the pass is at.
OnTrade ==
    ~Idle(MarketServer) /\ session[MarketServer].purpose.kind = "EXCHANGE"
        => session[MarketServer].purpose =
                TradeOf(orders[matching.article], matching.i, BestMatch(orders[matching.article], matching.i))

RoomLeft ==
    /\ \A a \in Articles : Len(orders[a]) <= MaxOrders
    /\ ~Idle(MarketServer) /\ session[MarketServer].purpose.kind \in {"BUY", "SELL"}
        => \A a \in Articles : Len(orders[a]) < MaxOrders

BookInv == OnTrade /\ RoomLeft

LEMMA SessionLeavesBook ==
    ASSUME BookInv, UNCHANGED marketVars,
           session'[MarketServer].phase # "idle" => session[MarketServer].phase # "idle",
           session[MarketServer].phase # "idle" =>
                session'[MarketServer].purpose = session[MarketServer].purpose
    PROVE  BookInv'
<1>1. OnTrade'
  <2>1. CASE session'[MarketServer].phase = "idle" \/ session'[MarketServer].purpose.kind # "EXCHANGE"
    BY <2>1 DEF OnTrade, Idle
  <2>2. CASE session'[MarketServer].phase # "idle" /\ session'[MarketServer].purpose.kind = "EXCHANGE"
    <3>1. session'[MarketServer].purpose = session[MarketServer].purpose /\ ~Idle(MarketServer)
        BY <2>2 DEF Idle
    <3>2. matching' = matching /\ orders' = orders
        BY DEF marketVars
    <3>3. session[MarketServer].purpose =
              TradeOf(orders[matching.article], matching.i, BestMatch(orders[matching.article], matching.i))
        BY <2>2, <3>1 DEF BookInv, OnTrade
    <3>4. QED
        BY <3>1, <3>2, <3>3 DEF OnTrade
  <2>3. QED
    BY <2>1, <2>2
<1>2. RoomLeft'
  <2>1. orders' = orders
    BY DEF marketVars
  <2>2. QED
    BY <2>1 DEF BookInv, RoomLeft, Idle
<1>3. QED
  BY <1>1, <1>2 DEF BookInv

LEMMA CoordinatorLeavesBook ==
    ASSUME MarketInv, BookInv, CoordinatorStep(MarketServer), UNCHANGED marketVars
    PROVE  BookInv'
<1>1. MarketServer \in Servers
  BY DEF Servers
<1>2. QED
  BY <1>1, PurposeKept, SessionLeavesBook DEF MarketInv

LEMMA PlaceOrderKeepsBook ==
    ASSUME NEW u \in Users, MarketInv, BookInv, PlaceOrder(u)
    PROVE  BookInv'
<1>1. /\ \A a \in Articles : Len(orders[a]) < MaxOrders
      /\ UNCHANGED marketVars
      /\ MarketServer \in Servers
    BY DEF PlaceOrder, Servers
<1>2. session'[MarketServer].purpose.kind # "EXCHANGE"
  <2>1. PICK p : Begin(MarketServer, p) /\ p.kind # "EXCHANGE"
    <3>1. CASE \E a \in Articles, x \in Prices : Begin(MarketServer, Buy(u, a, x))
        BY <3>1 DEF Buy
    <3>2. CASE \E it \in Items, x \in Prices : Begin(MarketServer, Sell(u, it, x))
        BY <3>2 DEF Sell
    <3>3. QED
        BY <3>1, <3>2 DEF PlaceOrder
  <2>2. QED
    BY <1>1, <2>1, SessionBegun DEF MarketInv
<1>3. OnTrade'
  BY <1>2 DEF OnTrade
<1>4. RoomLeft'
  <2>1. orders' = orders
    BY <1>1 DEF marketVars
  <2>2. QED
    BY <1>1, <2>1 DEF BookInv, RoomLeft
<1>5. QED
  BY <1>3, <1>4 DEF BookInv

\* The order that comes to stand, if one does.
NewOrder ==
    LET it == session[MarketServer]
    IN  IF it.purpose.kind = "BUY" THEN BuyOrder(it.purpose.user, it.purpose.price, it.slot)
        ELSE SellOrder(it.purpose.user, it.purpose.price, it.item)
NewPlace ==
    LET it == session[MarketServer] IN IF it.purpose.kind = "BUY" THEN it.purpose.article ELSE ItemType[it.item]
OrderStands ==
    /\ NewPlace \in Articles /\ NewOrder \in Market_Order
    /\ orders'[NewPlace] = Append(orders[NewPlace], NewOrder)
    /\ \A a \in Articles \ {NewPlace} : orders'[a] = orders[a]

LEMMA OrderPlaced ==
    ASSUME NEW sent \in BOOLEAN, MarketInv, FinishPlaceOrder(sent)
    PROVE  /\ ~Idle(MarketServer) /\ session[MarketServer].purpose.kind \in {"BUY", "SELL"}
           /\ DecideFirstLeg(MarketServer, session[MarketServer].can_commit, sent)
           /\ UNCHANGED matching
           /\ ~session[MarketServer].can_commit => UNCHANGED orders
           /\ session[MarketServer].can_commit /\ sent => OrderStands
           /\ UNCHANGED orders \/ OrderStands
<1> DEFINE it == session[MarketServer]
           p  == it.purpose
<1>1. /\ ~Idle(MarketServer) /\ p.kind \in {"BUY", "SELL"}
      /\ DecideFirstLeg(MarketServer, it.can_commit, sent)
      /\ UNCHANGED matching
      /\ ~(it.can_commit /\ sent) => orders' = orders
      /\ it.can_commit /\ sent => orders' = [orders EXCEPT ![NewPlace] = Append(@, NewOrder)]
    BY DEF FinishPlaceOrder, NewPlace, NewOrder
<1>2. it \in LiveSessions(Articles)
    BY <1>1, SessionIsLive DEF Servers, MarketInv, CoordinatorInv
<1>3. p \in Purposes(Articles) /\ it.item \in Item /\ it.slot \in Slots
    BY <1>2 DEF LiveSessions
<1>4. NewPlace \in Articles
  <2>1. CASE p.kind = "BUY"
    BY <1>3, <2>1 DEF Purposes, NewPlace
  <2>2. CASE p.kind = "SELL"
    BY <1>3, <2>2, ItemTypeAssumption DEF NewPlace
  <2>3. QED
    BY <1>1, <2>1, <2>2
<1>5. NewOrder \in Market_Order
  <2>1. CASE p.kind = "BUY"
    <3>1. NewOrder = BuyOrder(p.user, p.price, it.slot) /\ p.user \in Users /\ p.price \in Prices
        BY <1>3, <2>1 DEF Purposes, NewOrder
    <3>2. QED
        BY <1>3, <3>1 DEF BuyOrder, Market_Order
  <2>2. CASE p.kind = "SELL"
    <3>1. NewOrder = SellOrder(p.user, p.price, it.item) /\ p.user \in Users /\ p.price \in Prices
        BY <1>3, <2>2 DEF Purposes, NewOrder
    <3>2. QED
        BY <1>3, <3>1 DEF SellOrder, Market_Order
  <2>3. QED
    BY <1>1, <2>1, <2>2
<1>6. it.can_commit /\ sent => OrderStands
  <2>1. SUFFICES ASSUME it.can_commit, sent PROVE OrderStands
    OBVIOUS
  <2>2. PICK c, o : c = NewPlace /\ o = NewOrder
    OBVIOUS
  <2>3. orders' = [orders EXCEPT ![c] = Append(@, o)] /\ orders \in [Articles -> Seq(Market_Order)] /\ c \in Articles
    BY <1>1, <1>4, <2>1, <2>2 DEF MarketInv
  <2>4. orders'[c] = Append(orders[c], o) /\ \A a \in Articles \ {c} : orders'[a] = orders[a]
    BY <2>3
  <2>5. QED
    BY <1>4, <1>5, <2>2, <2>4 DEF OrderStands
<1>7. QED
  BY <1>1, <1>6

LEMMA FinishPlaceOrderKeepsBook ==
    ASSUME NEW sent \in BOOLEAN, MarketInv, BookInv, FinishPlaceOrder(sent)
    PROVE  BookInv'
<1>1. /\ ~Idle(MarketServer) /\ session[MarketServer].purpose.kind \in {"BUY", "SELL"}
      /\ DecideFirstLeg(MarketServer, session[MarketServer].can_commit, sent)
      /\ UNCHANGED orders \/ OrderStands
    BY OrderPlaced
<1>2. session'[MarketServer].phase = "idle"
    BY <1>1, SessionEnded DEF MarketInv, Servers
<1>3. \A a \in Articles : Len(orders[a]) < MaxOrders /\ orders[a] \in Seq(Market_Order)
    BY <1>1 DEF BookInv, RoomLeft, MarketInv
<1>4. \A a \in Articles : Len(orders'[a]) <= MaxOrders
  <2>1. CASE UNCHANGED orders
    BY <1>3, <2>1, MaxOrdersAssumption
  <2>2. CASE OrderStands
    <3>1. TAKE a \in Articles
    <3>2. CASE a = NewPlace
        <4>1. Len(orders'[a]) = Len(orders[a]) + 1
            BY <1>3, <2>2, <3>2 DEF OrderStands
        <4>2. QED
            BY <1>3, <4>1, MaxOrdersAssumption
    <3>3. CASE a # NewPlace
        BY <1>3, <2>2, <3>3, MaxOrdersAssumption DEF OrderStands
    <3>4. QED
        BY <3>2, <3>3
  <2>3. QED
    BY <1>1, <2>1, <2>2
<1>5. QED
  BY <1>2, <1>4 DEF BookInv, OnTrade, RoomLeft, Idle
LEMMA PassKeepsBook ==
    ASSUME NEW a \in Articles, NEW from \in Nat \ {0}, MarketInv, BookInv, ExchangeNext(a, from)
    PROVE  BookInv'
<1>1. PICK i \in Nat \ {0}, p \in Own(Articles, MarketServer) :
        /\ p = TradeOf(orders[a], i, BestMatch(orders[a], i))
        /\ Begin(MarketServer, p)
        /\ matching' = [article |-> a, i |-> i]
        /\ orders' = orders
    BY NextTrade
<1>2. session'[MarketServer].purpose = p
    BY <1>1, SessionBegun DEF MarketInv, Servers
<1>3. p.kind = "EXCHANGE"
    BY <1>1 DEF TradeOf, Exchange
<1>4. matching'.article = a /\ matching'.i = i
    BY <1>1
<1>5. OnTrade'
  <2>1. session'[MarketServer].purpose =
            TradeOf(orders'[matching'.article], matching'.i, BestMatch(orders'[matching'.article], matching'.i))
    BY <1>1, <1>2, <1>4
  <2>2. QED
    BY <2>1 DEF OnTrade
<1>6. RoomLeft'
    BY <1>1, <1>2, <1>3 DEF BookInv, RoomLeft
<1>7. QED
  BY <1>5, <1>6 DEF BookInv

\* The two orders of the trade under way, and what of them the session was told.
LEMMA LowerOfTwo ==
    ASSUME NEW x \in Nat, NEW y \in Nat, y <= x
    PROVE  Min({x, y}) = y
<1>1. {x, y} \in SUBSET Nat /\ {x, y} # {}
    OBVIOUS
<1>2. Min({x, y}) \in {x, y} /\ \A z \in {x, y} : Min({x, y}) <= z
    BY <1>1, MinIsMember
<1>3. QED
    BY <1>2

BidPlace(os, i) == IF os[i].is_buy_order THEN i ELSE BestMatch(os, i)
AskPlace(os, i) == IF os[i].is_buy_order THEN BestMatch(os, i) ELSE i
TradeShape(os, i, j, x, y, p) ==
    /\ i \in 1..Len(os) /\ j \in (i + 1)..Len(os)
    /\ x \in {i, j} /\ y \in {i, j} /\ x # y
    /\ os[x] \in Market_Order /\ os[y] \in Market_Order
    /\ os[x].is_buy_order = TRUE /\ os[y].is_buy_order = FALSE
    /\ os[x].user # os[y].user
    /\ p.buyer = os[x].user /\ p.seller = os[y].user
    /\ p.item = os[y].item /\ p.slot = os[x].slot /\ p.bid = os[x].price
    /\ p.price = os[y].price /\ os[y].price <= os[x].price
LEMMA TradeUnderWay ==
    ASSUME NEW p, NEW c, NEW i, NEW j, NEW x, NEW y, MarketInv, OnTrade, ~Idle(MarketServer),
           session[MarketServer].purpose.kind = "EXCHANGE", p = session[MarketServer].purpose, c = matching.article,
           i = matching.i, j = BestMatch(orders[c], i), x = BidPlace(orders[c], i), y = AskPlace(orders[c], i)
    PROVE  c \in Articles /\ orders[c] \in Seq(Market_Order) /\ TradeShape(orders[c], i, j, x, y, p)
<1>1. c \in Articles /\ i \in Nat \ {0} /\ Matches(orders[c], i) # {} /\ orders[c] \in Seq(Market_Order)
  <2>1. matching # NoPass /\ Matches(orders[matching.article], matching.i) # {} /\ matching.i > 0
    BY DEF MarketInv, PassOnTrack
  <2>2. matching \in [article : Articles, i : Nat]
    BY <2>1 DEF MarketInv
  <2>3. QED
    BY <2>1, <2>2 DEF MarketInv
<1>2. PICK os : os = orders[c]
    OBVIOUS
<1>3. j \in Matches(os, i) /\ i \in 1..Len(os) /\ j \in (i + 1)..Len(os) /\ os \in Seq(Market_Order)
    BY <1>1, <1>2, BestMatchMatches
<1>4. os[i].is_buy_order # os[j].is_buy_order /\ os[i].user # os[j].user
    BY <1>3 DEF Matches
<1>5. os[i] \in Market_Order /\ os[j] \in Market_Order
    BY <1>3
<1>6. /\ os[i].is_buy_order = TRUE \/ os[i].is_buy_order = FALSE
      /\ os[j].is_buy_order = TRUE \/ os[j].is_buy_order = FALSE
    BY <1>5, OrderTypes
<1>7. p = TradeOf(os, i, j)
    BY <1>2 DEF OnTrade
<1>8. i # j
    BY <1>3
<1>9. CASE os[i].is_buy_order = TRUE
  <2>1. x = i /\ y = j /\ os[j].is_buy_order = FALSE
    BY <1>2, <1>4, <1>6, <1>9 DEF BidPlace, AskPlace
  <2>2. p.buyer = os[i].user /\ p.seller = os[j].user /\ p.item = os[j].item /\ p.slot = os[i].slot /\ p.bid = os[i].price
    BY <1>7, <1>9 DEF TradeOf, Exchange
  <2>3. os[j].price <= os[i].price
    <3>1. MoneyDelta(os[i]) + MoneyDelta(os[j]) <= 0
        BY <1>3 DEF Matches, Combined
    <3>2. MoneyDelta(os[j]) = os[j].price /\ MoneyDelta(os[i]) = -os[i].price
        BY <1>9, <2>1 DEF MoneyDelta
    <3>3. os[i].price \in Nat /\ os[j].price \in Nat
        BY <1>5, OrderTypes
    <3>4. QED
        BY <3>1, <3>2, <3>3
  <2>4. p.price = os[j].price
    <3>1. p.price = Min({os[i].price, os[j].price})
        BY <1>7, <1>9 DEF TradeOf, Exchange
    <3>2. QED
        BY <1>5, <2>3, <3>1, OrderTypes, LowerOfTwo
  <2>5. QED
    BY <1>1, <1>2, <1>3, <1>4, <1>5, <1>8, <1>9, <2>1, <2>2, <2>3, <2>4 DEF TradeShape
<1>10. CASE os[i].is_buy_order = FALSE
  <2>1. x = j /\ y = i /\ os[j].is_buy_order = TRUE
    BY <1>2, <1>4, <1>6, <1>10 DEF BidPlace, AskPlace
  <2>2. p.buyer = os[j].user /\ p.seller = os[i].user /\ p.item = os[i].item /\ p.slot = os[j].slot /\ p.bid = os[j].price
    BY <1>7, <1>10 DEF TradeOf, Exchange
  <2>3. os[i].price <= os[j].price
    <3>1. MoneyDelta(os[i]) + MoneyDelta(os[j]) <= 0
        BY <1>3 DEF Matches, Combined
    <3>2. MoneyDelta(os[i]) = os[i].price /\ MoneyDelta(os[j]) = -os[j].price
        BY <1>10, <2>1 DEF MoneyDelta
    <3>3. os[i].price \in Nat /\ os[j].price \in Nat
        BY <1>5, OrderTypes
    <3>4. QED
        BY <3>1, <3>2, <3>3
  <2>4. p.price = os[i].price
    <3>1. p.price = Min({os[j].price, os[i].price})
        BY <1>7, <1>10 DEF TradeOf, Exchange
    <3>2. QED
        BY <1>5, <2>3, <3>1, OrderTypes, LowerOfTwo
  <2>5. QED
    BY <1>1, <1>2, <1>3, <1>4, <1>5, <1>8, <1>10, <2>1, <2>2, <2>3, <2>4 DEF TradeShape
<1>11. QED
  BY <1>6, <1>9, <1>10

LEMMA FinishExchangeKeepsBook ==
    ASSUME NEW sent \in BOOLEAN, MarketInv, BookInv, FinishExchange(sent)
    PROVE  BookInv'
<1>1. PICK c, i, j : c = matching.article /\ i = matching.i /\ j = BestMatch(orders[c], i)
    OBVIOUS
<1>0. PICK p, x, y : p = session[MarketServer].purpose /\ x = BidPlace(orders[c], i) /\ y = AskPlace(orders[c], i)
    OBVIOUS
<1>2. /\ ~Idle(MarketServer) /\ session[MarketServer].purpose.kind = "EXCHANGE"
      /\ DecideFirstLeg(MarketServer, session[MarketServer].can_commit, sent)
      /\ orders' = orders \/ orders' = [orders EXCEPT ![c] = RemoveAt(RemoveAt(orders[c], j), i)]
    BY <1>1 DEF FinishExchange
<1>3. session'[MarketServer].phase = "idle"
    BY <1>2, SessionEnded DEF MarketInv, Servers
<1>4. c \in Articles /\ orders[c] \in Seq(Market_Order) /\ i \in 1..Len(orders[c]) /\ j \in (i + 1)..Len(orders[c])
  <2>1. OnTrade
    BY DEF BookInv
  <2>2. QED
    BY <1>0, <1>1, <1>2, <2>1, TradeUnderWay DEF TradeShape
<1>5. \A a \in Articles : Len(orders[a]) <= MaxOrders /\ orders[a] \in Seq(Market_Order)
    BY DEF BookInv, RoomLeft, MarketInv
<1>6. \A a \in Articles : Len(orders'[a]) <= MaxOrders
  <2>1. CASE orders' = orders
    BY <1>5, <2>1
  <2>2. CASE orders' = [orders EXCEPT ![c] = RemoveAt(RemoveAt(orders[c], j), i)]
    <3>1. PICK q, r : q = orders[c] /\ r = RemoveAt(RemoveAt(q, j), i)
        OBVIOUS
    <3>2. Len(r) = Len(q) - 2
        BY <1>4, <3>1, RemovedTwo
    <3>3. Len(r) <= MaxOrders
        BY <1>4, <1>5, <3>1, <3>2, MaxOrdersAssumption
    <3>4. orders \in [Articles -> Seq(Market_Order)] /\ orders' = [orders EXCEPT ![c] = r]
        BY <2>2, <3>1 DEF MarketInv
    <3>5. QED
        BY <1>5, <3>3, <3>4
  <2>3. QED
    BY <1>2, <2>1, <2>2
<1>7. QED
  BY <1>3, <1>6 DEF BookInv, OnTrade, RoomLeft, Idle

LEMMA MarketTurnKeepsBook ==
    ASSUME MarketInv, BookInv, MarketTurn
    PROVE  BookInv'
<1>1. CASE CoordinatorStep(MarketServer) /\ UNCHANGED marketVars
    BY <1>1, CoordinatorLeavesBook
<1>2. CASE \E u \in Users : PlaceOrder(u)
    BY <1>2, PlaceOrderKeepsBook
<1>3. CASE \E sent \in BOOLEAN : FinishPlaceOrder(sent)
    BY <1>3, FinishPlaceOrderKeepsBook
<1>4. CASE \E a \in Articles : BeginPass(a)
    BY <1>4, PassKeepsBook DEF BeginPass
<1>5. CASE ContinuePass
  <2>1. CASE matching # NoPass /\ ExchangeNext(matching.article, matching.i)
    <3>1. matching.article \in Articles /\ matching.i \in Nat \ {0}
        BY <2>1 DEF MarketInv, PassOnTrack
    <3>2. QED
        BY <2>1, <3>1, PassKeepsBook
  <2>2. CASE Idle(MarketServer) /\ matching' = NoPass /\ UNCHANGED <<coordinatorVars, orders>>
    BY <2>2 DEF BookInv, OnTrade, RoomLeft, Idle, coordinatorVars
  <2>3. QED
    BY <1>5, <2>1, <2>2 DEF ContinuePass
<1>6. CASE \E sent \in BOOLEAN : FinishExchange(sent)
    BY <1>6, FinishExchangeKeepsBook
<1>7. QED
  BY <1>1, <1>2, <1>3, <1>4, <1>5, <1>6 DEF MarketTurn

LEMMA OthersLeaveBook ==
    ASSUME BookInv, UNCHANGED marketVars, UserServerTurn \/ Disconnect \/ UNCHANGED coordinatorVars
    PROVE  BookInv'
<1>1. UNCHANGED session
    BY DEF UserServerTurn, Disconnect, coordinatorVars
<1>2. QED
    BY <1>1, SessionLeavesBook
(***************************************************************************)
(* The accounts as they will be, and the book as it will be.               *)
(***************************************************************************)
Later(u) ==
    IF WillCommit(u, MarketServer)
    THEN commit_transaction(current[u][MarketServer].transaction, account[u], MarketServer).account
    ELSE account[u]
Accounts == [u \in Users |-> Later(u)]
Book == [a \in Articles |-> SettledBook(a)]
View == ViewFits(Accounts, Book)

\* Without a room server a settled account is one commit away.
LEMMA SettledIs ==
    ASSUME NEW u \in Users, RoomSilent
    PROVE  Settled(u) = Later(u)
<1>1. ~current[u][RoomServer].exists
    BY DEF RoomSilent
<1>2. ~WillCommit(u, RoomServer)
    BY <1>1 DEF WillCommit
<1>3. AfterCommit(u, RoomServer, account[u]) = account[u]
    BY <1>2 DEF AfterCommit
<1>4. QED
    BY <1>3 DEF Settled, AfterCommit, Later

LEMMA LaterKept ==
    ASSUME NEW u \in Users, Undisturbed(u, MarketServer), account'[u] = account[u]
    PROVE  Later(u)' = Later(u)
<1>1. CASE WillCommit(u, MarketServer)
  <2>1. WillCommit(u, MarketServer)' /\ current'[u][MarketServer] = current[u][MarketServer]
    BY <1>1 DEF Undisturbed
  <2>2. QED
    BY <1>1, <2>1 DEF Later
<1>2. CASE ~WillCommit(u, MarketServer)
  <2>1. ~WillCommit(u, MarketServer)'
    BY <1>2 DEF Undisturbed
  <2>2. QED
    BY <1>2, <2>1 DEF Later
<1>3. QED
    BY <1>1, <1>2

LEMMA AccountsKept ==
    ASSUME NoneDisturbed, UNCHANGED account
    PROVE  Accounts' = Accounts
<1>1. \A u \in Users : Later(u)' = Later(u)
  <2>1. TAKE u \in Users
  <2>2. Undisturbed(u, MarketServer) /\ account'[u] = account[u]
    BY DEF NoneDisturbed, Servers
  <2>3. QED
    BY <2>2, LaterKept
<1>2. QED
    BY <1>1 DEF Accounts

\* While no trade is decided the book is what the orders say.
LEMMA BookIsOrders ==
    ASSUME MarketInv, ~TradeDecided
    PROVE  Book = orders
<1>1. \A a \in Articles : SettledBook(a) = orders[a]
    BY DEF SettledBook
<1>2. orders \in [Articles -> Seq(Market_Order)]
    BY DEF MarketInv
<1>3. QED
    BY <1>1, <1>2 DEF Book

LEMMA BookIsOrdersThen ==
    ASSUME MarketInv', ~TradeDecided'
    PROVE  Book' = orders'
<1>1. \A a \in Articles : SettledBook(a)' = orders'[a]
    BY DEF SettledBook
<1>2. orders' \in [Articles -> Seq(Market_Order)]
    BY DEF MarketInv
<1>3. QED
    BY <1>1, <1>2 DEF Book

LEMMA BookKept ==
    ASSUME UNCHANGED marketVars, TradeDecided' <=> TradeDecided
    PROVE  Book' = Book
<1>1. \A a \in Articles : SettledBook(a)' = SettledBook(a)
    BY DEF SettledBook, marketVars
<1>2. QED
    BY <1>1 DEF Book

\* What a step does to the view.
ViewMoves == Settles(Accounts, Accounts', Book, Book')

LEMMA NothingSettled ==
    ASSUME Accounts' = Accounts, Book' = Book
    PROVE  ViewMoves
    BY DEF ViewMoves, Settles

LEMMA ViewMoved ==
    ASSUME View, ViewMoves
    PROVE  View'
<1>1. PICK S, R, B, D : S = Accounts /\ R = Accounts' /\ B = Book /\ D = Book'
    OBVIOUS
<1>2. ViewFits(R, D)
    BY <1>1, SettlingFits DEF View, ViewMoves
<1>3. QED
    BY <1>1, <1>2 DEF View

(***************************************************************************)
(* The view after each step.                                               *)
(***************************************************************************)
\* A vote on a trade that decides it; any other step of a session decides nothing.
LEMMA CoordinatorQuiet ==
    ASSUME MarketInv, TurnInv(Articles), LegsInv(Articles)', TakingTurns, AllWell', CoordinatorStep(MarketServer)
    PROVE  \/ NoneDisturbed /\ (TradeDecided' <=> TradeDecided)
           \/ ReceiveVote(MarketServer) /\ TradeAgreed(MarketServer)
<1>0. /\ LegsInv(Articles) /\ FaultsBounded /\ MarketServer \in Servers /\ faults \in Faults
      /\ session \in [Servers -> Sessions(Articles)]
    BY DEF TurnInv, MarketInv, CoordinatorInv, CoordinatorTypeOK, Servers
<1>1. CASE SendPrepare(MarketServer)
  <2>1. ~Idle(MarketServer) /\ session[MarketServer].phase = "prepare"
    BY <1>1 DEF SendPrepare, Idle
  <2>2. session[MarketServer] \in LiveSessions(Articles)
    BY <1>0, <2>1, LegsOfTrade
  <2>3. session'[MarketServer].phase # "decide" \/ ~session'[MarketServer].can_commit
    BY <1>0, <1>1, <2>2 DEF SendPrepare, PrepareFails, LiveSessions
  <2>4. ~TradeDecided /\ ~TradeDecided'
    BY <2>1, <2>3 DEF TradeDecided
  <2>5. NoneDisturbed
    BY <1>0, <1>1, PrepareDisturbsNone
  <2>6. QED
    BY <2>4, <2>5
<1>2. CASE ReceiveVote(MarketServer)
  <2>1. session[MarketServer].phase = "vote"
    BY <1>2 DEF ReceiveVote
  <2>2. ~TradeDecided
    BY <2>1 DEF TradeDecided
  <2>3. QED
    BY <1>0, <1>2, <2>2, VoteDisturbs
<1>3. CASE ReadTimeout(MarketServer)
    BY <1>0, <1>3, FaultTaken DEF ReadTimeout
<1>4. CASE ReadFails(MarketServer)
  <2>1. ~Idle(MarketServer)
    BY <1>4 DEF ReadFails, Idle
  <2>2. SessionUser(MarketServer) \in Users
    BY <1>0, <2>1, SessionAsksForLeg
  <2>3. QED
    BY <1>0, <1>4, <2>2 DEF ReadFails, TakingTurns
<1>5. CASE DecideSecondLeg(MarketServer)
  <2>1. PICK old, u : old = session[MarketServer] /\ u = SessionUser(MarketServer)
    OBVIOUS
  <2>2. PICK sent \in BOOLEAN : /\ SendDecision(MarketServer, old.can_commit, sent)
                                /\ session' = [session EXCEPT ![MarketServer].leg = 1, ![MarketServer].can_commit = @ /\ sent]
    BY <1>5, <2>1 DEF DecideSecondLeg
  <2>3. old.phase = "decide" /\ ~Idle(MarketServer)
    BY <1>5, <2>1 DEF DecideSecondLeg, SendDecision, Idle
  <2>4. old \in LiveSessions(Articles)
    BY <1>0, <2>1, <2>3, LegsOfTrade
  <2>5. old.can_commit \in BOOLEAN
    BY <2>4 DEF LiveSessions
  <2>6. PICK commit \in BOOLEAN : commit = old.can_commit
    BY <2>5
  <2>7. sent = TRUE
    <3>1. SendDecision(MarketServer, commit, sent)
        BY <2>2, <2>6
    <3>2. QED
        BY <1>0, <2>1, <3>1, DecisionSent
  <2>8. /\ session'[MarketServer].purpose = old.purpose /\ session'[MarketServer].phase = "decide"
        /\ session'[MarketServer].can_commit = old.can_commit
    BY <1>0, <2>1, <2>2, <2>3, <2>4, <2>7 DEF LiveSessions
  <2>9. TradeDecided' <=> TradeDecided
    BY <2>1, <2>3, <2>8 DEF TradeDecided
  <2>10. NoneDisturbed
    BY <1>0, <1>5, SecondDecisionDisturbsNone
  <2>11. QED
    BY <2>9, <2>10
<1>6. QED
    BY <1>1, <1>2, <1>3, <1>4, <1>5 DEF CoordinatorStep

\* An order of the book, and what it is backed by.
LEMMA OrderIsBacked ==
    ASSUME NEW S, NEW B, NEW c \in Articles, NEW k \in 1..Len(B[c]), NEW u \in Users,
           ViewFits(S, B), B[c][k].user = u
    PROVE  /\ B[c][k].is_buy_order = FALSE => B[c][k].item \in Items
           /\ B[c][k].is_buy_order = TRUE => B[c][k].price <= S[u].money_reservations[MarketServer]
<1>1. PICK q : q = <<c, k>>
    OBVIOUS
<1>2. k \in 1..MaxOrders /\ k <= Len(B[c])
  <2>1. B[c] \in Seq(Market_Order) /\ Len(B[c]) <= MaxOrders
    BY DEF ViewFits, BookFits
  <2>2. QED
    BY <2>1, MaxOrdersAssumption
<1>3. q \in OrdersOf(B, u) /\ OrderAt(B, u)[q] = B[c][k]
    BY <1>1, <1>2, PlaceIs
<1>4. BackedBy(S[u], OrdersOf(B, u), OrderAt(B, u))
    BY DEF ViewFits, Backed
<1>5. B[c][k].is_buy_order = FALSE => B[c][k].item \in Items
    BY <1>3, <1>4 DEF BackedBy, OrdersFit
<1>6. B[c][k].is_buy_order = TRUE => B[c][k].price <= S[u].money_reservations[MarketServer]
    BY <1>3, <1>4, BidIsReserved
<1>7. QED
    BY <1>5, <1>6

\* What the two commits of a trade take from the orders.
LEMMA SellerFreed ==
    ASSUME NEW a, NEW r, NEW p, NEW o, SellersCommit(a, r, p), o.is_buy_order = FALSE, p.item = o.item,
           a.money_reservations[MarketServer] \in Nat,
           \A n \in Slots, k \in Slots : Holds(a, o, n) /\ Holds(a, o, k) => k = n
    PROVE  \E n \in Slots : FreedOf(a, r.account, o, n, NoItem)
<1>1. PICK n \in Slots : n \in SlotsHolding(a, p.item) /\ SlotBecomes(a, r.account, n, NoItem, NoServer)
    BY DEF SellersCommit
<1>2. Holds(a, o, n)
    BY <1>1 DEF Holds
<1>3. \A k \in Slots : Holds(a, o, k) => k = n
    BY <1>2
<1>4. r.account.money_reservations[MarketServer] = a.money_reservations[MarketServer] - 0
    BY DEF SellersCommit, MoneyBecomes
<1>5. QED
    BY <1>1, <1>2, <1>3, <1>4 DEF FreedOf, SlotBecomes

LEMMA BuyerFreed ==
    ASSUME NEW a, NEW r, NEW p, NEW o, NEW item, BuyersCommit(a, r, p), o.is_buy_order = TRUE, p.slot = o.slot,
           p.item = item, p.bid = o.price, p.slot \in Slots
    PROVE  FreedOf(a, r.account, o, o.slot, item) /\ o.slot \in SlotsHolding(a, NoItem)
<1>1. Holds(a, o, o.slot) /\ \A k \in Slots : Holds(a, o, k) => k = o.slot
    BY DEF Holds
<1>2. SlotBecomes(a, r.account, o.slot, item, NoServer)
    BY DEF BuyersCommit
<1>3. r.account.money_reservations[MarketServer] = a.money_reservations[MarketServer] - o.price
    BY DEF BuyersCommit, MoneyBecomes
<1>4. a.inventory[o.slot].item = NoItem
    BY DEF BuyersCommit
<1>5. QED
    BY <1>1, <1>2, <1>3, <1>4 DEF FreedOf, SlotBecomes, SlotsHolding
LEMMA TradeAgreedSettles ==
    ASSUME MarketInv, MarketInv', BookInv, LegsInv(Articles), TakingTurns, WordKept, View, TradeCovered,
           ReceiveVote(MarketServer), TradeAgreed(MarketServer), UNCHANGED marketVars
    PROVE  ViewMoves
<1>1. PICK p, c, i, j, x, y :
        /\ p = session[MarketServer].purpose /\ c = matching.article /\ i = matching.i
        /\ j = BestMatch(orders[c], i) /\ x = BidPlace(orders[c], i) /\ y = AskPlace(orders[c], i)
    OBVIOUS
<1>2. p.kind = "EXCHANGE" /\ ~Idle(MarketServer) /\ session[MarketServer].phase = "vote"
    BY <1>1 DEF TradeAgreed, Idle
<1>3. /\ c \in Articles /\ orders[c] \in Seq(Market_Order)
      /\ i \in 1..Len(orders[c]) /\ j \in (i + 1)..Len(orders[c])
      /\ x \in {i, j} /\ y \in {i, j} /\ x # y
      /\ orders[c][x] \in Market_Order /\ orders[c][y] \in Market_Order
      /\ orders[c][x].is_buy_order = TRUE /\ orders[c][y].is_buy_order = FALSE
      /\ orders[c][x].user # orders[c][y].user
      /\ p.buyer = orders[c][x].user /\ p.seller = orders[c][y].user
      /\ p.item = orders[c][y].item /\ p.slot = orders[c][x].slot /\ p.bid = orders[c][x].price
      /\ p.price = orders[c][y].price /\ orders[c][y].price <= orders[c][x].price
  <2>1. OnTrade
    BY DEF BookInv
  <2>2. c \in Articles /\ orders[c] \in Seq(Market_Order) /\ TradeShape(orders[c], i, j, x, y, p)
    BY <1>1, <1>2, <2>1, TradeUnderWay
  <2>3. QED
    BY <2>2 DEF TradeShape
<1>4. PICK S, B, R, D, bid, ask : /\ S = Accounts /\ B = Book /\ R = Accounts' /\ D = Book'
                                  /\ bid = orders[c][x] /\ ask = orders[c][y]
    OBVIOUS
<1>5. B = orders /\ ViewFits(S, B)
  <2>1. ~TradeDecided
    BY <1>2 DEF TradeDecided
  <2>2. QED
    BY <1>4, <2>1, BookIsOrders DEF View
<1>6. /\ p.seller \in Users /\ p.buyer \in Users /\ p.seller # p.buyer /\ p.slot \in Slots
      /\ account[p.seller] \in Account /\ account[p.buyer] \in Account
    BY <1>1, TradersAgree
<1>7. /\ TradeDecided' /\ ~WillCommit(p.seller, MarketServer) /\ ~WillCommit(p.buyer, MarketServer)
      /\ WillCommit(p.seller, MarketServer)' /\ WillCommit(p.buyer, MarketServer)'
      /\ UNCHANGED current
      /\ \A v \in Users : v # p.seller /\ v # p.buyer => Undisturbed(v, MarketServer)
  <2>1. MarketServer \in Servers
    BY DEF Servers
  <2>2. QED
    BY <1>1, <2>1 DEF TradeAgreed
<1>8. UNCHANGED account
    BY DEF ReceiveVote, accountVars
<1>9. PICK rs, rb :
        /\ rs = commit_transaction(current[p.seller][MarketServer].transaction, account[p.seller], MarketServer)
        /\ rb = commit_transaction(current[p.buyer][MarketServer].transaction, account[p.buyer], MarketServer)
    OBVIOUS
<1>10. S[p.seller] = account[p.seller] /\ S[p.buyer] = account[p.buyer]
    BY <1>4, <1>6, <1>7 DEF Accounts, Later
<1>11. R[p.seller] = rs.account /\ R[p.buyer] = rb.account
    BY <1>4, <1>6, <1>7, <1>8, <1>9 DEF Accounts, Later
<1>12. \A v \in Users : v # p.seller /\ v # p.buyer => R[v] = S[v]
  <2>1. TAKE v \in Users
  <2>2. HAVE v # p.seller /\ v # p.buyer
  <2>3. Later(v)' = Later(v)
    BY <1>7, <1>8, <2>2, LaterKept
  <2>4. QED
    BY <1>4, <2>3 DEF Accounts
<1>13. SellersCommit(S[p.seller], rs, p) /\ BuyersCommit(S[p.buyer], rb, p)
  <2>1. p.price <= p.bid /\ account[p.buyer].money_reservations[MarketServer] >= p.bid
    BY <1>1 DEF TradeCovered
  <2>2. QED
    BY <1>1, <1>9, <1>10, <2>1, TradeEffects
<1>14. PICK n \in Slots : FreedOf(S[p.seller], R[p.seller], ask, n, NoItem)
  <2>1. ask.item \in Items
    <3>1. y \in 1..Len(B[c]) /\ B[c][y].user = p.seller /\ B[c][y].is_buy_order = FALSE /\ B[c][y] = ask
        BY <1>3, <1>4, <1>5
    <3>2. B[c][y].item \in Items
        BY <1>3, <1>5, <1>6, <3>1, OrderIsBacked
    <3>3. QED
        BY <3>1, <3>2
  <2>2. EachOnce(S)
    BY <1>5 DEF ViewFits
  <2>3. \A m \in Slots, k \in Slots : Holds(S[p.seller], ask, m) /\ Holds(S[p.seller], ask, k) => k = m
    BY <1>6, <2>1, <2>2, HoldsOne
  <2>4. S[p.seller].money_reservations[MarketServer] \in Nat
    BY <1>6, <1>10 DEF Account, Servers
  <2>5. \E n \in Slots : FreedOf(S[p.seller], rs.account, ask, n, NoItem)
    BY <1>3, <1>4, <1>13, <2>3, <2>4, SellerFreed
  <2>6. QED
    BY <1>11, <2>5
<1>15. FreedOf(S[p.buyer], R[p.buyer], bid, bid.slot, ask.item) /\ bid.slot \in SlotsHolding(S[p.buyer], NoItem)
  <2>1. PICK item : item = ask.item
    OBVIOUS
  <2>2. FreedOf(S[p.buyer], rb.account, bid, bid.slot, item) /\ bid.slot \in SlotsHolding(S[p.buyer], NoItem)
    BY <1>3, <1>4, <1>6, <1>13, <2>1, BuyerFreed
  <2>3. QED
    BY <1>11, <2>1, <2>2
<1>16. /\ D \in [Articles -> Seq(Market_Order)]
       /\ D[c] = RemoveAt(RemoveAt(B[c], j), i)
       /\ \A a \in Articles \ {c} : D[a] = B[a]
  <2>1. matching' = matching /\ orders' = orders
    BY DEF marketVars
  <2>2. SettledBook(c)' = RemoveAt(RemoveAt(orders[c], j), i)
    BY <1>1, <1>7, <2>1 DEF SettledBook
  <2>3. \A a \in Articles \ {c} : SettledBook(a)' = orders[a]
    BY <1>1, <2>1 DEF SettledBook
  <2>4. RemoveAt(RemoveAt(orders[c], j), i) \in Seq(Market_Order)
    <3>1. PICK q : q = orders[c]
        OBVIOUS
    <3>2. RemoveAt(RemoveAt(q, j), i) \in Seq(Market_Order)
        BY <1>3, <3>1, RemovedTwo
    <3>3. QED
        BY <3>1, <3>2
  <2>5. orders \in [Articles -> Seq(Market_Order)]
    BY DEF MarketInv
  <2>6. \A a \in Articles : SettledBook(a)' \in Seq(Market_Order)
    BY <2>2, <2>3, <2>4, <2>5
  <2>7. \A a \in Articles : D[a] = SettledBook(a)'
    BY <1>4 DEF Book
  <2>8. D \in [Articles -> Seq(Market_Order)]
    BY <1>4, <2>6 DEF Book
  <2>9. QED
    BY <1>3, <1>5, <2>2, <2>3, <2>7, <2>8
<1>17. /\ R[p.seller].money = S[p.seller].money + ask.price
       /\ R[p.buyer].money = S[p.buyer].money - ask.price
  <2>1. p.price = ask.price
    BY <1>3, <1>4
  <2>2. QED
    BY <1>11, <1>13, <2>1 DEF SellersCommit, BuyersCommit, MoneyBecomes
<1>18. TradeSettled(S, R, B, D)
  <2>1. OrdersMatched(B[c], i, j, x, y, bid, ask)
    BY <1>3, <1>4, <1>5 DEF OrdersMatched
  <2>2. ask.user = p.seller /\ bid.user = p.buyer
    BY <1>3, <1>4
  <2>3. TradeMade(S, R, bid, ask, n)
    BY <1>12, <1>14, <1>15, <1>17, <2>2 DEF TradeMade
  <2>4. OrdersGone(B, D, c, i, j)
    BY <1>16 DEF OrdersGone
  <2>5. i \in Nat /\ j \in Nat /\ x \in Nat /\ y \in Nat /\ bid \in Market_Order /\ ask \in Market_Order
    BY <1>3, <1>4
  <2>6. QED
    BY <1>3, <2>1, <2>3, <2>4, <2>5 DEF TradeSettled
<1>19. QED
    BY <1>4, <1>16, <1>18 DEF ViewMoves, Settles
\* What the commit of a bid, or of an offer, reserves for the order.
Committed(t, a, b) == transaction_possible(t, a, MarketServer) /\ b = commit_transaction(t, a, MarketServer).account
BidTaken(a, b, t, o, x) ==
    /\ Committed(t, a, b)
    /\ t = IF x > 0 THEN <<SlotReserve, MoneyReserve(x)>> ELSE <<SlotReserve>>
    /\ o.is_buy_order = TRUE /\ o.slot = Min(EmptySlots(a)) /\ o.price = x
OfferTaken(a, b, t, o, item) ==
    /\ Committed(t, a, b)
    /\ t = <<ItemReserve(item)>>
    /\ o.is_buy_order = FALSE /\ o.item = item
    /\ \A n \in Slots, k \in Slots : Holds(a, o, n) /\ Holds(a, o, k) => k = n
SlotKept(a, b, o) == b.money = a.money /\ \E n \in Slots : ReservedFor(a, b, o, n)

LEMMA BidReserved ==
    ASSUME NEW a \in Account, NEW t, NEW o, NEW x \in Nat, NEW b, Solvent(a), BidTaken(a, b, t, o, x)
    PROVE  SlotKept(a, b, o) /\ o.price <= a.money - a.money_reservations[MarketServer]
<1>0. /\ t = IF x > 0 THEN <<SlotReserve, MoneyReserve(x)>> ELSE <<SlotReserve>>
      /\ transaction_possible(t, a, MarketServer) /\ b = commit_transaction(t, a, MarketServer).account
      /\ o.is_buy_order = TRUE /\ o.slot = Min(EmptySlots(a)) /\ o.price = x
    BY DEF BidTaken, Committed
<1>1. PICK n : n = Min(EmptySlots(a))
    OBVIOUS
<1>2. /\ n \in Slots /\ a.inventory_reservations[n] = NoServer
      /\ SlotBecomes(a, b, n, NoItem, MarketServer) /\ a.inventory[n].item = NoItem
      /\ MoneyBecomes(a, b, MarketServer, a.money, a.money_reservations[MarketServer] + x)
      /\ a.money - a.total_money_reserved >= x
  <2>1. MarketServer \in Servers
    BY DEF Servers
  <2>2. QED
    BY <1>0, <1>1, <2>1, BidCommits
<1>3. Holds(a, o, n) /\ \A k \in Slots : Holds(a, o, k) => k = n
    BY <1>0, <1>1 DEF Holds
<1>4. \A k \in Slots : b.inventory[k].item = a.inventory[k].item
    BY <1>2 DEF SlotBecomes
<1>5. x <= a.money - a.money_reservations[MarketServer]
  <2>1. a.total_money_reserved = a.money_reservations[RoomServer] + a.money_reservations[MarketServer]
    BY DEF Solvent, WellFormed, MoneyReservationsAgree
  <2>2. /\ a.money \in Int /\ a.total_money_reserved \in Int
        /\ a.money_reservations[RoomServer] \in Nat /\ a.money_reservations[MarketServer] \in Nat
    BY DEF Account, Servers
  <2>3. QED
    BY <1>2, <2>1, <2>2
<1>6. b.money = a.money
    BY <1>2 DEF MoneyBecomes
<1>7. ReservedFor(a, b, o, n)
    BY <1>0, <1>2, <1>3, <1>4 DEF ReservedFor, SlotBecomes, MoneyBecomes
<1>8. QED
    BY <1>0, <1>2, <1>5, <1>6, <1>7 DEF SlotKept

LEMMA OfferReserved ==
    ASSUME NEW a \in Account, NEW t, NEW o, NEW item \in Item, NEW b, Solvent(a), OfferTaken(a, b, t, o, item)
    PROVE  SlotKept(a, b, o)
<1>0. /\ t = <<ItemReserve(item)>>
      /\ transaction_possible(t, a, MarketServer) /\ b = commit_transaction(t, a, MarketServer).account
      /\ o.is_buy_order = FALSE /\ o.item = item
      /\ \A n \in Slots, k \in Slots : Holds(a, o, n) /\ Holds(a, o, k) => k = n
    BY DEF OfferTaken, Committed
<1>1. PICK n : n = SlotOf(a, item)
    OBVIOUS
<1>2. /\ n \in Slots /\ a.inventory_reservations[n] = NoServer
      /\ SlotBecomes(a, b, n, item, MarketServer) /\ n \in SlotsHolding(a, item)
      /\ MoneyBecomes(a, b, MarketServer, a.money, a.money_reservations[MarketServer])
  <2>1. MarketServer \in Servers
    BY DEF Servers
  <2>2. QED
    BY <1>0, <1>1, <2>1, OfferCommits
<1>3. Holds(a, o, n)
    BY <1>0, <1>2 DEF Holds
<1>4. \A k \in Slots : b.inventory[k].item = a.inventory[k].item
    BY <1>2 DEF SlotBecomes, SlotsHolding
<1>5. b.money_reservations[MarketServer] = a.money_reservations[MarketServer] + 0
    BY <1>2 DEF MoneyBecomes, Account, Servers
<1>6. b.money = a.money
    BY <1>2 DEF MoneyBecomes
<1>7. ReservedFor(a, b, o, n)
    BY <1>0, <1>2, <1>3, <1>4, <1>5 DEF ReservedFor, SlotBecomes
<1>8. QED
    BY <1>2, <1>6, <1>7 DEF SlotKept

\* An order that was voted for comes to stand with what was reserved for it.
LEMMA PlaceOrderSettles ==
    ASSUME MarketInv, MarketInv', BookInv, TurnInv(Articles), TakingTurns, WordKept, View, AllWell',
           NEW sent \in BOOLEAN, FinishPlaceOrder(sent)
    PROVE  ViewMoves
<1>0. /\ LegsInv(Articles) /\ FaultsBounded /\ MarketServer \in Servers
      /\ session \in [Servers -> Sessions(Articles)]
    BY DEF TurnInv, MarketInv, CoordinatorInv, CoordinatorTypeOK, Servers
<1>1. /\ ~Idle(MarketServer) /\ session[MarketServer].purpose.kind \in {"BUY", "SELL"}
      /\ DecideFirstLeg(MarketServer, session[MarketServer].can_commit, sent)
      /\ ~session[MarketServer].can_commit => UNCHANGED orders
      /\ session[MarketServer].can_commit /\ sent => OrderStands
    BY OrderPlaced
<1>2. session[MarketServer] \in LiveSessions(Articles)
    BY <1>0, <1>1, LegsOfTrade
<1>3. PICK it, p, u, t : /\ it = session[MarketServer] /\ p = session[MarketServer].purpose
                         /\ u = SessionUser(MarketServer) /\ t = SessionTransaction(MarketServer)
    OBVIOUS
<1>4. p \in Purposes(Articles) /\ it.item \in Item /\ it.slot \in Slots /\ it.can_commit \in BOOLEAN
    BY <1>2, <1>3 DEF LiveSessions
<1>5. PICK commit \in BOOLEAN : commit = it.can_commit
    BY <1>4
<1>6. /\ u \in Users /\ sent = TRUE
      /\ OthersUndisturbed(u, MarketServer)
      /\ ~WillCommit(u, MarketServer)
      /\ current[u][MarketServer] = [exists |-> TRUE, transaction |-> t]
      /\ current'[u][MarketServer] = current[u][MarketServer]
      /\ WillCommit(u, MarketServer)' <=> commit
  <2>1. DecideFirstLeg(MarketServer, commit, sent) /\ session[MarketServer].purpose.kind # "EXCHANGE"
    BY <1>1, <1>3, <1>5
  <2>2. QED
    BY <1>0, <1>3, <2>1, FirstDecisionDisturbs
<1>7. /\ session'[MarketServer] = NoSession /\ UNCHANGED account
      /\ session[MarketServer].phase = "decide" /\ session[MarketServer].leg = 1
    BY <1>0, <1>1 DEF DecideFirstLeg, SendDecision, SendTo, CannotSendTo, usVars
<1>8. Book = orders /\ Book' = orders'
  <2>1. ~TradeDecided
    BY <1>1 DEF TradeDecided
  <2>2. ~TradeDecided'
    BY <1>7 DEF TradeDecided, NoSession
  <2>3. QED
    BY <2>1, <2>2, BookIsOrders, BookIsOrdersThen
<1>9. \A v \in Users \ {u} : Later(v)' = Later(v)
    BY <1>0, <1>6, <1>7, LaterKept DEF OthersUndisturbed
<1>10. CASE ~commit
  <2>1. Later(u)' = Later(u)
    BY <1>6, <1>7, <1>10 DEF Later
  <2>2. Accounts' = Accounts
    BY <1>9, <2>1 DEF Accounts
  <2>3. orders' = orders
    BY <1>1, <1>3, <1>5, <1>10
  <2>4. QED
    BY <1>8, <2>2, <2>3, NothingSettled
<1>11. CASE commit
  <2>1. PICK a, b, o, c : /\ a = account[u] /\ b = commit_transaction(t, account[u], MarketServer).account
                          /\ o = NewOrder /\ c = NewPlace
    OBVIOUS
  <2>2. PICK S, B, R, D : S = Accounts /\ B = Book /\ R = Accounts' /\ D = Book'
    OBVIOUS
  <2>3. S[u] = a /\ R[u] = b /\ \A v \in Users \ {u} : R[v] = S[v]
    <3>1. Later(u) = a
        BY <1>6, <2>1 DEF Later
    <3>2. Later(u)' = b
        BY <1>6, <1>7, <1>11, <2>1 DEF Later
    <3>3. QED
        BY <1>6, <1>9, <2>2, <3>1, <3>2 DEF Accounts
  <2>4. ViewFits(S, B) /\ EachOnce(S)
    BY <2>2 DEF View, ViewFits
  <2>5. a \in Account /\ Solvent(a) /\ transaction_possible(t, a, MarketServer) /\ SlotRead(u)
    <3>1. Agreed(u)
        BY <1>1, <1>3, <1>5, <1>7, <1>11 DEF Agreed
    <3>2. Word(u)
        BY <1>6 DEF WordKept
    <3>3. account[u] \in Account
        BY <1>6 DEF MarketInv, CoordinatorInv, CoordinatorTypeOK, UserServerTypeOK
    <3>4. QED
        BY <1>6, <2>1, <3>1, <3>2, <3>3 DEF Word, Possible
  <2>6. /\ c \in Articles /\ o \in Market_Order
        /\ D[c] = Append(B[c], o) /\ \A x \in Articles \ {c} : D[x] = B[x]
        /\ D \in [Articles -> Seq(Market_Order)] /\ Len(B[c]) < MaxOrders
    <3>1. OrderStands
        BY <1>1, <1>3, <1>5, <1>6, <1>11
    <3>2. Len(orders[c]) < MaxOrders
        BY <1>1, <2>1, <3>1 DEF BookInv, RoomLeft, OrderStands
    <3>3. QED
        BY <1>8, <2>1, <2>2, <3>1, <3>2 DEF OrderStands, MarketInv
  <2>7. /\ o.user = u
        /\ o.is_buy_order = FALSE => o.item \in Items /\ c = ItemType[o.item]
        /\ o.is_buy_order = TRUE => o.price <= a.money - a.money_reservations[MarketServer]
        /\ SlotKept(a, b, o)
    <3>1. t = LegTransaction(p, 1, it.item) /\ u = p.user
        BY <1>1, <1>3, <1>7 DEF SessionTransaction, SessionUser, LegUser
    <3>2. CASE p.kind = "BUY"
        <4>1. p.price \in Nat
            BY <1>4, <3>2, PricesAssumption DEF Purposes
        <4>2. PICK x \in Nat : x = p.price
            BY <4>1
        <4>3. t = IF x > 0 THEN <<SlotReserve, MoneyReserve(x)>> ELSE <<SlotReserve>>
            BY <3>1, <3>2, <4>2, LegForms
        <4>4. o = BuyOrder(p.user, p.price, it.slot)
            BY <1>3, <2>1, <3>2 DEF NewOrder
        <4>5. o.is_buy_order = TRUE /\ o.slot = it.slot /\ o.price = x /\ o.user = u
            BY <3>1, <4>2, <4>4 DEF BuyOrder
        <4>6. it.slot = Min(EmptySlots(a))
            BY <1>3, <1>7, <2>1, <2>5, <3>2 DEF SlotRead
        <4>7. b = commit_transaction(t, a, MarketServer).account
            BY <2>1
        <4>8. BidTaken(a, b, t, o, x)
          <5>1. o.is_buy_order = TRUE /\ o.slot = Min(EmptySlots(a)) /\ o.price = x
            BY <4>5, <4>6
          <5>2. Committed(t, a, b)
            BY <2>5, <4>7 DEF Committed
          <5>3. QED
            BY <4>3, <5>1, <5>2 DEF BidTaken
        <4>9. SlotKept(a, b, o) /\ o.price <= a.money - a.money_reservations[MarketServer]
            BY <2>5, <4>8, BidReserved
        <4>10. QED
            BY <4>5, <4>9
    <3>3. CASE p.kind = "SELL"
        <4>1. p.item \in Items
            BY <1>4, <3>3 DEF Purposes
        <4>2. PICK item \in Items : item = p.item
            BY <4>1
        <4>3. t = <<ItemReserve(item)>>
            BY <3>1, <3>3, <4>2, LegForms
        <4>4. it.item = item
            BY <1>0, <1>1, <1>3, <1>5, <1>7, <1>11, <3>3, <4>2 DEF TakingTurns, ItemRead
        <4>5. o = SellOrder(p.user, p.price, it.item)
            BY <1>3, <2>1, <3>3 DEF NewOrder
        <4>6. o.is_buy_order = FALSE /\ o.item = item /\ o.user = u
            BY <3>1, <4>4, <4>5 DEF SellOrder
        <4>7. b = commit_transaction(t, a, MarketServer).account
            BY <2>1
        <4>8. \A n \in Slots, k \in Slots : Holds(a, o, n) /\ Holds(a, o, k) => k = n
            BY <1>6, <2>3, <2>4, <4>6, HoldsOne
        <4>9. item \in Item
            BY DEF Item
        <4>10. SlotKept(a, b, o)
          <5>1. Committed(t, a, b)
            BY <2>5, <4>7 DEF Committed
          <5>2. OfferTaken(a, b, t, o, item)
            BY <4>3, <4>6, <4>8, <5>1 DEF OfferTaken
          <5>3. QED
            BY <2>5, <4>9, <5>2, OfferReserved
        <4>11. c = ItemType[o.item]
            BY <1>3, <2>1, <3>3, <4>4, <4>6 DEF NewPlace
        <4>12. QED
            BY <4>6, <4>10, <4>11
    <3>4. QED
        BY <1>1, <1>3, <3>2, <3>3
  <2>8. PICK n \in Slots : ReservedFor(S[o.user], R[o.user], o, n)
    BY <2>3, <2>7 DEF SlotKept
  <2>9. OrderSettled(S, R, B, D)
    <3>1. OrderComes(B, D, c, o)
        BY <2>6 DEF OrderComes
    <3>2. OrderHeld(S, R, o, n)
        BY <2>3, <2>7, <2>8 DEF OrderHeld, SlotKept
    <3>3. QED
        BY <2>6, <2>7, <3>1, <3>2 DEF OrderSettled
  <2>10. QED
    BY <2>2, <2>6, <2>9 DEF ViewMoves, Settles
<1>12. QED
    BY <1>10, <1>11
\* The end of an exchange: the book was without its two orders already.
LEMMA ExchangeSettles ==
    ASSUME MarketInv, MarketInv', BookInv, TurnInv(Articles), TakingTurns, View, AllWell',
           NEW sent \in BOOLEAN, FinishExchange(sent)
    PROVE  ViewMoves
<1>0. /\ LegsInv(Articles) /\ FaultsBounded /\ MarketServer \in Servers
      /\ session \in [Servers -> Sessions(Articles)]
    BY DEF TurnInv, MarketInv, CoordinatorInv, CoordinatorTypeOK, Servers
<1>1. /\ ~Idle(MarketServer) /\ session[MarketServer].purpose.kind = "EXCHANGE"
      /\ DecideFirstLeg(MarketServer, session[MarketServer].can_commit, sent)
    BY DEF FinishExchange
<1>2. session[MarketServer] \in LiveSessions(Articles)
    BY <1>0, <1>1, LegsOfTrade
<1>3. PICK commit \in BOOLEAN : commit = session[MarketServer].can_commit
    BY <1>2 DEF LiveSessions
<1>4. NoneDisturbed /\ sent = TRUE
    BY <1>0, <1>1, <1>3, FirstDecisionDisturbs
<1>5. /\ session'[MarketServer] = NoSession /\ UNCHANGED account
      /\ session[MarketServer].phase = "decide"
    BY <1>0, <1>1 DEF DecideFirstLeg, SendDecision, SendTo, CannotSendTo, usVars
<1>6. Accounts' = Accounts
    BY <1>4, <1>5, AccountsKept
<1>7. Book' = orders'
  <2>1. ~TradeDecided'
    BY <1>5 DEF TradeDecided, NoSession
  <2>2. QED
    BY <2>1, BookIsOrdersThen
<1>8. CASE commit
  <2>1. PICK c, r : c = matching.article /\ r = RemoveAt(RemoveAt(orders[c], BestMatch(orders[c], matching.i)), matching.i)
    OBVIOUS
  <2>2. orders' = [orders EXCEPT ![c] = r]
    BY <1>3, <1>4, <1>8, <2>1 DEF FinishExchange
  <2>3. TradeDecided
    BY <1>1, <1>3, <1>5, <1>8 DEF TradeDecided
  <2>4. \A a \in Articles : SettledBook(a) = IF a = c THEN r ELSE orders[a]
    BY <2>1, <2>3 DEF SettledBook
  <2>5. orders \in [Articles -> Seq(Market_Order)]
    BY DEF MarketInv
  <2>6. orders' = [a \in Articles |-> SettledBook(a)]
    BY <2>2, <2>4, <2>5
  <2>7. QED
    BY <1>6, <1>7, <2>6, NothingSettled DEF Book
<1>9. CASE ~commit
  <2>1. orders' = orders
    BY <1>3, <1>9 DEF FinishExchange
  <2>2. ~TradeDecided
    BY <1>3, <1>9 DEF TradeDecided
  <2>3. QED
    BY <1>6, <1>7, <2>1, <2>2, BookIsOrders, NothingSettled
<1>10. QED
    BY <1>8, <1>9

LEMMA BeginSettles ==
    ASSUME NEW p, MarketInv, MarketInv', LegsInv(Articles), View, Begin(MarketServer, p), UNCHANGED orders
    PROVE  ViewMoves
<1>1. ~TradeDecided
    BY DEF Begin, Idle, TradeDecided
<1>2. ~TradeDecided'
  <2>1. session'[MarketServer].phase = "prepare"
    BY SessionBegun DEF MarketInv, Servers
  <2>2. QED
    BY <2>1 DEF TradeDecided
<1>3. NoneDisturbed /\ UNCHANGED account
    BY BeginDisturbsNone DEF Begin, usVars, Servers
<1>4. QED
    BY <1>1, <1>2, <1>3, AccountsKept, BookIsOrders, BookIsOrdersThen, NothingSettled

LEMMA IdleSettles ==
    ASSUME MarketInv, MarketInv', View, UNCHANGED <<account, session, to_us, current, orders>>,
           UNCHANGED matching \/ Idle(MarketServer)
    PROVE  ViewMoves
<1>1. Accounts' = Accounts
    BY IdleDisturbsNone, AccountsKept
<1>2. TradeDecided' <=> TradeDecided
    BY DEF TradeDecided
<1>3. CASE UNCHANGED matching
    BY <1>1, <1>2, <1>3, BookKept, NothingSettled DEF marketVars
<1>4. CASE Idle(MarketServer)
  <2>1. ~TradeDecided
    BY <1>4 DEF Idle, TradeDecided
  <2>2. QED
    BY <1>1, <1>2, <2>1, BookIsOrders, BookIsOrdersThen, NothingSettled
<1>5. QED
    BY <1>3, <1>4

\* A commit makes an account what it was going to be; no other packet changes one.
LEMMA PacketSettles ==
    ASSUME MarketInv, TurnInv(Articles), TakingTurns, RoomSilent, WordKept, View, UNCHANGED <<session, marketVars>>,
           NEW u \in Users, NEW s \in Servers, HandlePacket(u, s)
    PROVE  ViewMoves
<1>0. LegsInv(Articles) /\ UserServerTypeOK
    BY DEF TurnInv, MarketInv, CoordinatorInv, CoordinatorTypeOK
<1>1. s = MarketServer /\ ~aborted' /\ MarketServer \in Servers
    BY PacketsAreSafe DEF Servers
<1>2. /\ OthersUndisturbed(u, MarketServer)
      /\ HandleCommit(u, MarketServer) => WillCommit(u, MarketServer) /\ ~WillCommit(u, MarketServer)'
      /\ ~HandleCommit(u, MarketServer) => Undisturbed(u, MarketServer)
    BY <1>0, <1>1, PacketDisturbs
<1>3. ASSUME NEW v \in Users
      PROVE  Later(v)' = Later(v)
  <2>1. CASE v # u
    <3>1. account'[v] = account[v]
        BY <1>0, <2>1 DEF HandlePacket, HandlePrepare, HandleCommit, HandleAbort, HandleUnexpected,
                          UserServerTypeOK, accountVars
    <3>2. Undisturbed(v, MarketServer)
        BY <1>1, <1>2, <2>1 DEF OthersUndisturbed
    <3>3. QED
        BY <3>1, <3>2, LaterKept
  <2>2. CASE v = u /\ HandleCommit(u, MarketServer)
    <3>1. account'[u] = commit_transaction(current[u][MarketServer].transaction, account[u], MarketServer).account
        BY <1>0, <1>1, <2>2 DEF HandleCommit, UserServerTypeOK
    <3>2. QED
        BY <1>2, <2>2, <3>1 DEF Later
  <2>3. CASE v = u /\ ~HandleCommit(u, MarketServer)
    <3>1. account' = account
        BY <1>1, <2>3 DEF HandlePacket, HandlePrepare, HandleAbort, HandleUnexpected, accountVars
    <3>2. QED
        BY <1>2, <2>3, <3>1, LaterKept
  <2>4. QED
    BY <2>1, <2>2, <2>3
<1>4. Accounts' = Accounts
    BY <1>3 DEF Accounts
<1>5. TradeDecided' <=> TradeDecided
    BY DEF TradeDecided
<1>6. QED
    BY <1>4, <1>5, BookKept, NothingSettled
\* The bid of a trade is reserved, since its order stands.
LEMMA TradeIsCovered ==
    ASSUME MarketInv, LegsInv(Articles), BookInv, View
    PROVE  TradeCovered
<1>1. SUFFICES ASSUME NEW p, p = session[MarketServer].purpose, TradeAgreed(MarketServer)
               PROVE  p.price <= p.bid /\ account[p.buyer].money_reservations[MarketServer] >= p.bid
    BY DEF TradeCovered
<1>2. /\ p.kind = "EXCHANGE" /\ ~Idle(MarketServer) /\ session[MarketServer].phase = "vote"
      /\ p.buyer \in Users /\ ~WillCommit(p.buyer, MarketServer)
    BY <1>1 DEF TradeAgreed, Idle
<1>3. PICK c, i, j, x, y :
        /\ c = matching.article /\ i = matching.i
        /\ j = BestMatch(orders[c], i) /\ x = BidPlace(orders[c], i) /\ y = AskPlace(orders[c], i)
    OBVIOUS
<1>4. c \in Articles /\ orders[c] \in Seq(Market_Order) /\ TradeShape(orders[c], i, j, x, y, p)
  <2>1. OnTrade
    BY DEF BookInv
  <2>2. QED
    BY <1>1, <1>2, <1>3, <2>1, TradeUnderWay
<1>5. PICK S, B : S = Accounts /\ B = Book
    OBVIOUS
<1>6. B = orders /\ ViewFits(S, B)
  <2>1. ~TradeDecided
    BY <1>2 DEF TradeDecided
  <2>2. QED
    BY <1>5, <2>1, BookIsOrders DEF View
<1>7. /\ x \in 1..Len(B[c]) /\ B[c][x].user = p.buyer /\ B[c][x].is_buy_order = TRUE /\ B[c][x].price = p.bid
    BY <1>4, <1>6 DEF TradeShape
<1>8. p.bid <= S[p.buyer].money_reservations[MarketServer]
    BY <1>2, <1>4, <1>6, <1>7, OrderIsBacked
<1>9. S[p.buyer] = account[p.buyer]
    BY <1>2, <1>5 DEF Accounts, Later
<1>10. p.price <= p.bid
    BY <1>1, <1>2, LegsOfTrade DEF Own, Servers
<1>11. p.bid \in Int /\ account[p.buyer].money_reservations[MarketServer] \in Int
  <2>1. p.bid \in Nat
    <3>1. orders[c][x] \in Market_Order
        BY <1>4 DEF TradeShape
    <3>2. QED
        BY <1>6, <1>7, <3>1, OrderTypes
  <2>2. account[p.buyer] \in Account
    BY <1>2 DEF MarketInv, CoordinatorInv, CoordinatorTypeOK, UserServerTypeOK
  <2>3. QED
    BY <2>1, <2>2 DEF Account, Servers
<1>12. QED
    BY <1>8, <1>9, <1>10, <1>11

\* The Asserts are the user server's.
LEMMA CoordinatorsNeverAbort ==
    ASSUME NEW s, CoordinatorStep(s) \/ (\E p : Begin(s, p)) \/ (\E c, sent : DecideFirstLeg(s, c, sent))
    PROVE  UNCHANGED aborted
<1>1. ASSUME NEW u, NEW m, SendTo(s, u, m) PROVE UNCHANGED aborted
    BY <1>1 DEF SendTo
<1>2. ASSUME NEW u, CannotSendTo(s, u) PROVE UNCHANGED aborted
    BY <1>2 DEF CannotSendTo, usVars
<1>3. ASSUME NEW c, NEW sent, SendDecision(s, c, sent) PROVE UNCHANGED aborted
    BY <1>1, <1>2, <1>3 DEF SendDecision
<1>4. CASE CoordinatorStep(s)
  <2>1. CASE SendPrepare(s)
    BY <1>1, <1>2, <2>1 DEF SendPrepare
  <2>2. CASE ReceiveVote(s)
    BY <2>2 DEF ReceiveVote
  <2>3. CASE ReadTimeout(s) \/ ReadFails(s)
    BY <2>3 DEF ReadTimeout, ReadFails, usVars
  <2>4. CASE DecideSecondLeg(s)
    BY <1>3, <2>4 DEF DecideSecondLeg
  <2>5. QED
    BY <1>4, <2>1, <2>2, <2>3, <2>4 DEF CoordinatorStep
<1>5. CASE \E p : Begin(s, p)
    BY <1>5 DEF Begin, usVars
<1>6. CASE \E c, sent : DecideFirstLeg(s, c, sent)
    BY <1>3, <1>6 DEF DecideFirstLeg
<1>7. QED
    BY <1>4, <1>5, <1>6

LEMMA IdleKeepsWord ==
    ASSUME WordKept, UNCHANGED <<account, session, current, to_us, from_us>>
    PROVE  WordKept'
<1>1. \A v \in Users : Agreed(v)' => Possible(v) /\ SlotRead(v)'
  <2>1. TAKE v \in Users
  <2>2. HAVE Agreed(v)'
  <2>3. Agreed(v)
    BY <2>2 DEF Agreed, FirstLegVoted, Idle, SessionUser
  <2>4. Possible(v) /\ SlotRead(v)
    BY <2>3 DEF WordKept, Word
  <2>5. QED
    BY <2>4 DEF SlotRead
<1>2. QED
    BY <1>1, IdleDisturbsNone, QuietKeepsWord

\* Nothing has gone wrong: what holds of the orders and the accounts while nothing fails.
AllGood == ~aborted /\ WordKept /\ View
OrderInv == MarketInv /\ TurnInv(Articles) /\ RoomSilent /\ BookInv /\ (AllWell => AllGood)

LEMMA NothingFailedBefore ==
    ASSUME OrderInv, [Next]_vars, AllWell'
    PROVE  AllWell /\ AllGood /\ TakingTurns
<1>1. FaultStep
  <2>1. CASE MarketTurn
    BY <2>1, MarketTurnIs, StepsTakeFaults, OthersTakeFaults DEF OrderInv
  <2>2. CASE UserServerTurn \/ Disconnect \/ UNCHANGED coordinatorVars
    BY <2>2, OthersTakeFaults
  <2>3. QED
    BY <2>1, <2>2 DEF Next, vars
<1>2. faults \in Faults /\ FaultsBounded
    BY DEF OrderInv, MarketInv, CoordinatorInv, CoordinatorTypeOK, TurnInv
<1>3. AllWell
    BY <1>1, <1>2, FaultsStayBounded DEF FaultStep
<1>4. QED
    BY <1>3 DEF OrderInv, AllGood, TurnInv, Calm
MovesWell == ~aborted' /\ WordKept' /\ ViewMoves

\* Everything the market does keeps the view and everyone's word, ...
LEMMA MarketMovesWell ==
    ASSUME MarketInv, MarketInv', TurnInv(Articles), TurnInv(Articles)', TakingTurns, BookInv, AllGood, AllWell',
           MarketTurn
    PROVE  MovesWell
<1>0. /\ LegsInv(Articles) /\ LegsInv(Articles)' /\ WordKept /\ View /\ ~aborted
      /\ MarketServer \in Servers
    BY DEF TurnInv, AllGood, Servers
<1>1. CASE CoordinatorStep(MarketServer) /\ UNCHANGED marketVars
  <2>1. TradeCovered
    BY <1>0, TradeIsCovered
  <2>2. WordKept'
    BY <1>0, <1>1, <2>1, CoordinatorKeepsWord
  <2>3. ~aborted' /\ UNCHANGED account
    BY <1>0, <1>1, CoordinatorsNeverAbort, CoordinatorsLeaveAccounts
  <2>4. ViewMoves
    <3>1. CASE NoneDisturbed /\ (TradeDecided' <=> TradeDecided)
        BY <1>0, <1>1, <2>3, <3>1, AccountsKept, BookKept, NothingSettled
    <3>2. CASE ReceiveVote(MarketServer) /\ TradeAgreed(MarketServer)
        BY <1>0, <1>1, <2>1, <3>2, TradeAgreedSettles
    <3>3. QED
        BY <1>0, <1>1, <3>1, <3>2, CoordinatorQuiet
  <2>5. QED
    BY <2>2, <2>3, <2>4 DEF MovesWell
<1>2. ASSUME NEW p, Begin(MarketServer, p), UNCHANGED orders
      PROVE  MovesWell
  <2>1. ~aborted'
    BY <1>0, <1>2, CoordinatorsNeverAbort
  <2>2. WordKept'
    BY <1>0, <1>2, BeginKeepsWord
  <2>3. ViewMoves
    BY <1>0, <1>2, BeginSettles
  <2>4. QED
    BY <2>1, <2>2, <2>3 DEF MovesWell
<1>3. ASSUME NEW sent \in BOOLEAN, DecideFirstLeg(MarketServer, session[MarketServer].can_commit, sent)
      PROVE  ~aborted' /\ WordKept'
  <2>1. ~Idle(MarketServer)
    BY <1>3 DEF DecideFirstLeg, SendDecision, Idle
  <2>2. session[MarketServer] \in LiveSessions(Articles)
    BY <1>0, <2>1, LegsOfTrade
  <2>3. PICK commit \in BOOLEAN : commit = session[MarketServer].can_commit
    BY <2>2 DEF LiveSessions
  <2>4. DecideFirstLeg(MarketServer, commit, sent)
    BY <1>3, <2>3
  <2>5. ~aborted'
    BY <1>0, <2>4, CoordinatorsNeverAbort
  <2>6. WordKept'
    BY <1>0, <2>3, <2>4, FirstDecisionKeepsWord
  <2>7. QED
    BY <2>5, <2>6
<1>4. CASE \E u \in Users : PlaceOrder(u)
  <2>1. PICK u \in Users : PlaceOrder(u)
    BY <1>4
  <2>2. UNCHANGED orders
    BY <2>1 DEF PlaceOrder, marketVars
  <2>3. CASE \E a \in Articles, x \in Prices : Begin(MarketServer, Buy(u, a, x))
    BY <1>2, <2>2, <2>3
  <2>4. CASE \E it \in Items, x \in Prices : Begin(MarketServer, Sell(u, it, x))
    BY <1>2, <2>2, <2>4
  <2>5. QED
    BY <2>1, <2>3, <2>4 DEF PlaceOrder
<1>5. CASE \E sent \in BOOLEAN : FinishPlaceOrder(sent)
  <2>1. PICK sent \in BOOLEAN : FinishPlaceOrder(sent)
    BY <1>5
  <2>2. ViewMoves
    BY <1>0, <2>1, PlaceOrderSettles
  <2>3. QED
    BY <1>3, <2>1, <2>2 DEF FinishPlaceOrder, MovesWell
<1>6. CASE \E a \in Articles : BeginPass(a)
    BY <1>2, <1>6 DEF BeginPass, ExchangeNext
<1>7. CASE ContinuePass
  <2>1. CASE ExchangeNext(matching.article, matching.i)
    BY <1>2, <2>1 DEF ExchangeNext
  <2>2. CASE Idle(MarketServer) /\ UNCHANGED <<coordinatorVars, orders>>
    <3>1. UNCHANGED <<account, session, current, to_us, from_us, aborted, orders>>
        BY <2>2 DEF coordinatorVars, usVars
    <3>2. QED
        BY <1>0, <2>2, <3>1, IdleKeepsWord, IdleSettles DEF MovesWell
  <2>3. QED
    BY <1>7, <2>1, <2>2 DEF ContinuePass
<1>8. CASE \E sent \in BOOLEAN : FinishExchange(sent)
  <2>1. PICK sent \in BOOLEAN : FinishExchange(sent)
    BY <1>8
  <2>2. ViewMoves
    BY <1>0, <2>1, ExchangeSettles
  <2>3. QED
    BY <1>3, <2>1, <2>2 DEF FinishExchange, MovesWell
<1>9. QED
    BY <1>1, <1>4, <1>5, <1>6, <1>7, <1>8 DEF MarketTurn

\* ... and so does everything that happens to it.
LEMMA OthersMoveWell ==
    ASSUME MarketInv, MarketInv', TurnInv(Articles), TakingTurns, RoomSilent, AllGood, AllWell',
           UNCHANGED marketVars, UserServerTurn \/ Disconnect \/ UNCHANGED coordinatorVars
    PROVE  MovesWell
<1>0. WordKept /\ View /\ ~aborted
    BY DEF AllGood
<1>1. ASSUME UNCHANGED <<account, session, current, to_us, from_us, aborted>>
      PROVE  MovesWell
  <2>1. UNCHANGED orders /\ UNCHANGED matching
    BY DEF marketVars
  <2>2. QED
    BY <1>0, <1>1, <2>1, IdleKeepsWord, IdleSettles DEF MovesWell
<1>2. CASE UserServerTurn
  <2>1. UNCHANGED session
    BY <1>2 DEF UserServerTurn
  <2>2. CASE \E u \in Users, s \in Servers : HandlePacket(u, s)
    <3>1. PICK u \in Users, s \in Servers : HandlePacket(u, s)
        BY <2>2
    <3>2. ~aborted'
        BY <1>0, <3>1, PacketsAreSafe
    <3>3. WordKept'
        BY <1>0, <2>1, <3>1, PacketKeepsWord
    <3>4. ViewMoves
        BY <1>0, <2>1, <3>1, PacketSettles
    <3>5. QED
        BY <3>2, <3>3, <3>4 DEF MovesWell
  <2>3. CASE \E u \in Users : SendUserUpdate(u)
    BY <1>1, <2>1, <2>3 DEF SendUserUpdate, netVars
  <2>4. QED
    BY <1>2, <2>2, <2>3 DEF UserServerTurn, UserServerStep
<1>3. CASE Disconnect
  <2>1. faults \in Faults /\ FaultsBounded
    BY DEF MarketInv, CoordinatorInv, CoordinatorTypeOK, TurnInv
  <2>2. QED
    BY <1>3, <2>1, FaultTaken DEF Disconnect
<1>4. CASE UNCHANGED coordinatorVars
    BY <1>1, <1>4 DEF coordinatorVars, usVars
<1>5. QED
    BY <1>2, <1>3, <1>4

LEMMA BooksAndTurnsKept ==
    ASSUME OrderInv, [Next]_vars
    PROVE  MarketInv' /\ TurnInv(Articles)'
<1>1. MarketInv /\ TurnInv(Articles)
    BY DEF OrderInv
<1>2. QED
    BY <1>1, MarketTurnKeepsBooks, OthersKeepBooks, MarketTurnKeepsTurns, OthersKeepTurns DEF Next, vars

LEMMA StepsMoveWell ==
    ASSUME OrderInv, [Next]_vars, AllWell'
    PROVE  MovesWell
<1>1. MarketInv /\ TurnInv(Articles) /\ RoomSilent /\ BookInv
    BY DEF OrderInv
<1>2. MarketInv' /\ TurnInv(Articles)'
    BY BooksAndTurnsKept
<1>3. AllGood /\ TakingTurns
    BY NothingFailedBefore
<1>4. CASE MarketTurn
    BY <1>1, <1>2, <1>3, <1>4, MarketMovesWell
<1>5. CASE (UserServerTurn \/ Disconnect \/ UNCHANGED coordinatorVars) /\ UNCHANGED marketVars
    BY <1>1, <1>2, <1>3, <1>5, OthersMoveWell
<1>6. QED
    BY <1>4, <1>5 DEF Next, vars

LEMMA OrderInvKept ==
    ASSUME OrderInv, [Next]_vars
    PROVE  OrderInv'
<1>1. MarketInv /\ TurnInv(Articles) /\ RoomSilent /\ BookInv
    BY DEF OrderInv
<1>2. MarketInv' /\ TurnInv(Articles)'
    BY BooksAndTurnsKept
<1>3. RoomSilent'
    BY <1>1, RoomStaysSilent
<1>4. BookInv'
    BY <1>1, MarketTurnKeepsBook, OthersLeaveBook DEF Next, vars
<1>5. AllWell' => AllGood'
  <2>1. HAVE AllWell'
  <2>2. MovesWell /\ AllGood
    BY <2>1, StepsMoveWell, NothingFailedBefore
  <2>3. QED
    BY <2>2, ViewMoved DEF AllGood, MovesWell
<1>6. QED
    BY <1>2, <1>3, <1>4, <1>5 DEF OrderInv
-----------------------------------------------------------------------------
\* Nobody starts with a debt, and no item is in two places.
NobodyOwes == \A f \in InitialAccounts : \A u \in Users : f[u].money >= 0
EachItemInOneInventory == \A f \in InitialAccounts : EachOnce(f)

LEMMA NothingBackedYet ==
    ASSUME NEW a \in Account, NEW O, NEW ord, O = {}, Unreserved(a)
    PROVE  BackedBy(a, O, ord)
<1>1. OrdersFit(O, ord)
    BY FS_EmptySet DEF OrdersFit
<1>2. SlotsBacked(a, O, ord)
    BY ServerAssumption DEF SlotsBacked, Unreserved
<1>3. MoneyBacked(a, O, ord)
  <2>1. Bids(O, ord) = {}
    BY DEF Bids
  <2>2. Promised(O, ord) = 0
    BY <2>1, TotalOfNone DEF Promised
  <2>3. QED
    BY <2>2 DEF MoneyBacked, Unreserved, Servers
<1>4. QED
    BY <1>1, <1>2, <1>3 DEF BackedBy

LEMMA OrderInvAtFirst ==
    ASSUME Init, NobodyOwes, EachItemInOneInventory
    PROVE  OrderInv
<1>1. MarketInv /\ TurnInv(Articles)
    BY InitialMarket, InitialTurns DEF Init
<1>2. /\ account \in InitialAccounts /\ ~aborted
      /\ \A u \in Users, s \in Servers :
            ~current[u][s].exists /\ to_us[u][s] = <<>> /\ from_us[u][s] = <<>>
      /\ session[MarketServer] = NoSession
      /\ orders = [a \in Articles |-> <<>>]
    BY DEF Init, CoordinatorInit, UserServerInit, MarketInit, NoCurrent, Servers
<1>3. RoomSilent
    BY <1>2 DEF RoomSilent, Servers
<1>4. Idle(MarketServer)
    BY <1>2 DEF Idle, NoSession
<1>5. \A a \in Articles : orders[a] = <<>> /\ Len(orders[a]) = 0
    BY <1>2
<1>6. BookInv
    BY <1>4, <1>5, MaxOrdersAssumption DEF BookInv, OnTrade, RoomLeft
<1>7. account \in [Users -> Account] /\ \A u \in Users : Unreserved(account[u]) /\ account[u].money >= 0
    BY <1>2, InitialAccountsAssumption DEF NobodyOwes
<1>8. \A u \in Users : ~WillCommit(u, MarketServer)
    BY <1>2 DEF WillCommit, Servers
<1>9. WordKept
  <2>1. ASSUME NEW u \in Users
        PROVE  Word(u)
    <3>1. Solvent(account[u])
        BY <1>7 DEF Solvent, WellFormed, SlotReservationsAgree, MoneyReservationsAgree, ReservationsCovered,
                    Unreserved, Servers, Account
    <3>2. VoteTrue(u)
        BY <1>2 DEF VoteTrue, Servers
    <3>3. ~Agreed(u)
        BY <1>4 DEF Agreed
    <3>4. QED
        BY <1>8, <3>1, <3>2, <3>3 DEF Word, CommitSucceeds
  <2>2. QED
    BY <2>1 DEF WordKept
<1>10. View
  <2>1. PICK S, B : S = Accounts /\ B = Book
    OBVIOUS
  <2>2. S = account
    <3>1. \A u \in Users : Later(u) = account[u]
        BY <1>8 DEF Later
    <3>2. QED
        BY <1>7, <2>1, <3>1 DEF Accounts
  <2>3. B = orders
    <3>1. ~TradeDecided
        BY <1>4 DEF TradeDecided, Idle
    <3>2. QED
        BY <1>1, <2>1, <3>1, BookIsOrders
  <2>4. BookFits(B)
    BY <1>1, <1>5, <2>3, MaxOrdersAssumption DEF BookFits, MarketInv
  <2>5. EachOnce(S)
    BY <1>2, <2>2 DEF EachItemInOneInventory
  <2>6. ASSUME NEW u \in Users
        PROVE  BackedBy(S[u], OrdersOf(B, u), OrderAt(B, u))
    <3>1. OrdersOf(B, u) = {}
        BY <1>5, <2>3 DEF OrdersOf
    <3>2. QED
        BY <1>7, <2>2, <3>1, NothingBackedYet
  <2>7. QED
    BY <2>1, <2>4, <2>5, <2>6 DEF View, ViewFits, Backed
<1>11. QED
    BY <1>1, <1>2, <1>3, <1>6, <1>9, <1>10 DEF OrderInv, AllGood

LEMMA OrderInvariant == Spec /\ NobodyOwes /\ EachItemInOneInventory => []OrderInv
<1>1. Init /\ NobodyOwes /\ EachItemInOneInventory => OrderInv
    BY OrderInvAtFirst
<1>2. OrderInv /\ [Next]_vars => OrderInv'
    BY OrderInvKept
<1>3. QED
    BY <1>1, <1>2, PTL DEF Spec

\* If nobody starts with a debt and no item is in two places, then as long as no connection is
\* lost and no answer is late no Assert of the user server's transaction code fails, whatever the
\* players order: what was voted for is still possible when its decision comes, and decisions
\* come exactly when one is awaited (user_server.cpp:286-522, 735-815).
THEOREM AssertsNeverFail == Spec /\ NobodyOwes /\ EachItemInOneInventory => [](AllWell => NoAssertFails)
<1>1. OrderInv => (AllWell => NoAssertFails)
    BY DEF OrderInv, AllGood, NoAssertFails
<1>2. QED
    BY <1>1, OrderInvariant, PTL
-----------------------------------------------------------------------------
\* An item that is once in the accounts is counted once.
LEMMA CountedOnce ==
    ASSUME NEW S, EachOnce(S), NEW it \in Items
    PROVE  Cardinality({p \in Users \X Slots : S[p[1]].inventory[p[2]].item = it}) = 1
<1>1. PICK u \in Users, n \in Slots :
        /\ n \in SlotsHolding(S[u], it)
        /\ \A v \in Users, k \in Slots : k \in SlotsHolding(S[v], it) => v = u /\ k = n
    BY DEF EachOnce
<1>2. {p \in Users \X Slots : S[p[1]].inventory[p[2]].item = it} = {<<u, n>>}
  <2>1. <<u, n>> \in {p \in Users \X Slots : S[p[1]].inventory[p[2]].item = it}
    BY <1>1 DEF SlotsHolding
  <2>2. ASSUME NEW p \in Users \X Slots, S[p[1]].inventory[p[2]].item = it
        PROVE  p = <<u, n>>
    <3>1. p[1] \in Users /\ p[2] \in Slots /\ p = <<p[1], p[2]>>
        OBVIOUS
    <3>2. p[2] \in SlotsHolding(S[p[1]], it)
        BY <2>2, <3>1 DEF SlotsHolding
    <3>3. QED
        BY <1>1, <3>1, <3>2
  <2>3. QED
    BY <2>1, <2>2
<1>3. QED
    BY <1>2, FS_Singleton

\* If nobody starts with a debt and no item is in two places, then as long as no connection is
\* lost and no answer is late every item is in exactly one inventory, in one slot, once what is
\* decided has been committed: a trade neither copies nor loses it (market_server.cpp:461-562).
THEOREM ItemsAreHeldOnce == Spec /\ NobodyOwes /\ EachItemInOneInventory => [](AllWell => EachItemOnce)
<1>1. ASSUME OrderInv, AllWell
      PROVE  EachItemOnce
  <2>1. PICK S, B : S = Accounts /\ B = Book
    OBVIOUS
  <2>2. EachOnce(S)
    BY <1>1, <2>1 DEF OrderInv, AllGood, View, ViewFits
  <2>3. \A u \in Users : Settled(u) = Later(u)
    BY <1>1, SettledIs DEF OrderInv
  <2>4. [u \in Users |-> Settled(u)] = S
    BY <2>1, <2>3 DEF Accounts
  <2>5. \A it \in Items : Cardinality({p \in Users \X Slots : S[p[1]].inventory[p[2]].item = it}) = 1
    BY <2>2, CountedOnce
  <2>6. QED
    BY <2>4, <2>5 DEF EachItemOnce
<1>2. QED
    BY <1>1, OrderInvariant, PTL
-----------------------------------------------------------------------------
\* The slot an order holds, as the property reads it.
SlotHeld(a, o) == IF o.is_buy_order THEN o.slot ELSE SlotOf(a, o.item)

LEMMA HeldSlot ==
    ASSUME NEW a, NEW O, NEW ord, OrdersFit(O, ord), SlotsBacked(a, O, ord), NEW p \in O
    PROVE  /\ SlotHeld(a, ord[p]) \in Slots /\ Holds(a, ord[p], SlotHeld(a, ord[p]))
           /\ ord[p].is_buy_order = FALSE => SlotsHolding(a, ord[p].item) # {}
<1>1. ord[p].is_buy_order = TRUE \/ ord[p].is_buy_order = FALSE
    BY OrderTypes DEF OrdersFit
<1>2. PICK n \in Slots : Holds(a, ord[p], n)
    BY DEF SlotsBacked
<1>3. CASE ord[p].is_buy_order = TRUE
    BY <1>2, <1>3 DEF Holds, SlotHeld
<1>4. CASE ord[p].is_buy_order = FALSE
  <2>1. n \in SlotsHolding(a, ord[p].item)
    BY <1>2, <1>4 DEF Holds
  <2>2. SlotsHolding(a, ord[p].item) \in SUBSET (1..NumSlots)
    BY DEF SlotsHolding, Slots
  <2>3. Min(SlotsHolding(a, ord[p].item)) \in SlotsHolding(a, ord[p].item)
    BY <2>1, <2>2, MinIsMember
  <2>4. SlotHeld(a, ord[p]) \in SlotsHolding(a, ord[p].item)
    BY <1>4, <2>3 DEF SlotHeld, SlotOf
  <2>5. QED
    BY <1>4, <2>2, <2>4 DEF Holds, Slots
<1>5. QED
    BY <1>1, <1>3, <1>4

\* One slot to each order, and no other reserved by the market server.
LEMMA HeldSlots ==
    ASSUME NEW S, NEW u \in Users, NEW a, a = S[u], EachOnce(S),
           NEW O, NEW ord, OrdersFit(O, ord), SlotsBacked(a, O, ord),
           NEW held, held = {SlotHeld(a, ord[p]) : p \in O}
    PROVE  /\ Cardinality(held) = Cardinality(O)
           /\ held = {n \in Slots : a.inventory_reservations[n] = MarketServer}
<1> DEFINE h == [p \in O |-> SlotHeld(a, ord[p])]
<1>1. \A p \in O : SlotHeld(a, ord[p]) \in Slots /\ Holds(a, ord[p], SlotHeld(a, ord[p]))
    BY HeldSlot
<1>2. \A p, q \in O : SlotHeld(a, ord[p]) = SlotHeld(a, ord[q]) => p = q
    BY <1>1 DEF SlotsBacked
<1>3. Cardinality(held) = Cardinality(O)
  <2>1. h \in [O -> held] /\ \A x \in held : \E p \in O : h[p] = x
    OBVIOUS
  <2>2. \A p, q \in O : h[p] = h[q] => p = q
    BY <1>2
  <2>3. ExistsBijection(O, held)
    <3> HIDE DEF h
    <3>1. DOMAIN h = O
        BY <2>1
    <3>2. h \in Injection(O, held)
        BY <2>1, <2>2, <3>1 DEF Injection, IsInjective
    <3>3. h \in Surjection(O, held)
        BY <2>1 DEF Surjection
    <3>4. QED
        BY <3>2, <3>3 DEF ExistsBijection, Bijection
  <2>4. QED
    BY <2>3, FS_Bijection DEF OrdersFit
<1>4. ASSUME NEW n \in held
      PROVE  n \in Slots /\ a.inventory_reservations[n] = MarketServer
    BY <1>1 DEF SlotsBacked
<1>5. ASSUME NEW n \in Slots, a.inventory_reservations[n] = MarketServer
      PROVE  n \in held
  <2>1. PICK p \in O : Holds(a, ord[p], n)
    BY <1>5 DEF SlotsBacked
  <2>2. ord[p].is_buy_order = FALSE => ord[p].item \in Items
    BY DEF OrdersFit
  <2>3. SlotHeld(a, ord[p]) = n
    BY <1>1, <2>1, <2>2, HoldsOne
  <2>4. QED
    BY <2>3
<1>6. QED
    BY <1>3, <1>4, <1>5

LEMMA PromisesAreTotal ==
    ASSUME NEW O, NEW ord, NEW bids, IsFiniteSet(bids), bids \subseteq O
    PROVE  MapThenSumSet(LAMBDA p : ord[p].price, bids) = Total(Price(O, ord), bids)
<1> DEFINE m == Price(O, ord)
           P(g) == g = [s \in SUBSET bids |-> IF s = {} THEN 0 ELSE ord[Pick(s)].price + g[s \ {Pick(s)}]]
<1>1. MapThenSumSet(LAMBDA p : ord[p].price, bids) = (CHOOSE g : P(g))[bids]
    BY DEF MapThenSumSet, MapThenFoldSet, Pick
<1>2. ASSUME NEW g
      PROVE  P(g) <=> SumsOf(m, g, bids)
  <2>1. \A s \in SUBSET bids : s # {} => m[Pick(s)] = ord[Pick(s)].price
    BY PickIsMember DEF Price
  <2> HIDE DEF m
  <2>2. [s \in SUBSET bids |-> IF s = {} THEN 0 ELSE ord[Pick(s)].price + g[s \ {Pick(s)}]]
        = [s \in SUBSET bids |-> IF s = {} THEN 0 ELSE m[Pick(s)] + g[s \ {Pick(s)}]]
    BY <2>1
  <2>3. QED
    BY <2>2 DEF SumsOf
<1> HIDE DEF P, m
<1>3. (CHOOSE g : P(g)) = (CHOOSE g : SumsOf(m, g, bids))
    BY <1>2
<1>4. QED
    BY <1>1, <1>3 DEF Total, m

\* What an account is to hold for the orders of its user, as the property states it.
HeldFor(a, mine, order) ==
    LET bids == {p \in mine : order[p].is_buy_order}
        held == {order[p].slot : p \in bids} \cup {SlotOf(a, order[p].item) : p \in mine \ bids}
    IN  /\ \A p \in mine \ bids : SlotsHolding(a, order[p].item) # {}
        /\ Cardinality(held) = Cardinality(mine)
        /\ held = {n \in Slots : a.inventory_reservations[n] = MarketServer}
        /\ a.money_reservations[MarketServer] = MapThenSumSet(LAMBDA p : order[p].price, bids)

LEMMA BackedAsStated ==
    ASSUME NEW S, NEW u \in Users, NEW a, a = S[u], EachOnce(S), NEW O, NEW ord, BackedBy(a, O, ord)
    PROVE  HeldFor(a, O, ord)
<1> DEFINE bids == {p \in O : ord[p].is_buy_order}
           held == {ord[p].slot : p \in bids} \cup {SlotOf(a, ord[p].item) : p \in O \ bids}
<1>1. OrdersFit(O, ord) /\ SlotsBacked(a, O, ord) /\ MoneyBacked(a, O, ord)
    BY DEF BackedBy
<1>2. \A p \in O : ord[p].is_buy_order = TRUE \/ ord[p].is_buy_order = FALSE
    BY <1>1, OrderTypes DEF OrdersFit
<1>3. bids = Bids(O, ord)
    BY <1>2 DEF Bids
<1>4. held = {SlotHeld(a, ord[p]) : p \in O}
    BY DEF SlotHeld
<1>5. \A p \in O \ bids : SlotsHolding(a, ord[p].item) # {}
    BY <1>1, <1>2, HeldSlot
<1>6. Cardinality(held) = Cardinality(O) /\ held = {n \in Slots : a.inventory_reservations[n] = MarketServer}
  <2> HIDE DEF held
  <2>1. QED
    BY <1>1, <1>4, HeldSlots
<1>7. a.money_reservations[MarketServer] = MapThenSumSet(LAMBDA p : ord[p].price, bids)
  <2>1. IsFiniteSet(bids) /\ bids \subseteq O
    BY <1>1, <1>3, BidsAreFinite
  <2>2. MapThenSumSet(LAMBDA p : ord[p].price, bids) = Total(Price(O, ord), bids)
    BY <2>1, PromisesAreTotal
  <2>3. QED
    BY <1>1, <1>3, <2>2 DEF MoneyBacked, Promised
<1>8. QED
    BY <1>5, <1>6, <1>7 DEF HeldFor

\* If nobody starts with a debt and no item is in two places, then as long as no connection is
\* lost and no answer is late every standing order has what it was placed with: the orders of a
\* user hold one reserved slot each and no other slot is reserved by the market server, which
\* has reserved the sum of the bids (market_server.cpp:374-459, user_server.cpp:416-490).
THEOREM OrdersAreBacked == Spec /\ NobodyOwes /\ EachItemInOneInventory => [](AllWell => OrdersBacked)
<1>1. ASSUME OrderInv, AllWell
      PROVE  OrdersBacked
  <2>1. PICK S, B : S = Accounts /\ B = Book
    OBVIOUS
  <2>2. EachOnce(S) /\ Backed(S, B)
    BY <1>1, <2>1 DEF OrderInv, AllGood, View, ViewFits
  <2>3. ASSUME NEW u \in Users
        PROVE  HeldFor(Settled(u), Standing(u), [p \in Standing(u) |-> SettledBook(p[1])[p[2]]])
    <3>1. Settled(u) = S[u]
        BY <1>1, <2>1, SettledIs DEF OrderInv, Accounts
    <3>2. \A c \in Articles : SettledBook(c) = B[c]
        BY <2>1 DEF Book
    <3>3. Standing(u) = OrdersOf(B, u)
        BY <3>2 DEF Standing, OrdersOf
    <3>4. [p \in Standing(u) |-> SettledBook(p[1])[p[2]]] = OrderAt(B, u)
        BY <3>2, <3>3 DEF OrderAt, OrdersOf
    <3>5. BackedBy(S[u], OrdersOf(B, u), OrderAt(B, u))
        BY <2>2 DEF Backed
    <3>6. HeldFor(S[u], OrdersOf(B, u), OrderAt(B, u))
        BY <2>2, <3>5, BackedAsStated
    <3>7. QED
        BY <3>1, <3>3, <3>4, <3>6
  <2>4. QED
    BY <2>3 DEF OrdersBacked, HeldFor
<1>2. QED
    BY <1>1, OrderInvariant, PTL
-----------------------------------------------------------------------------
\* Without a room server, what players own and what is on offer is told by the view.
ViewShown ==
    OwnedNow = OwnedIn(Accounts) /\ MoneyNow = MoneyIn(Accounts) /\ OffersNow = OffersIn(Book)

LEMMA ViewIsShown == RoomSilent => ViewShown
<1>1. HAVE RoomSilent
<1>2. \A u \in Users : Settled(u) = Accounts[u]
    BY <1>1, SettledIs DEF Accounts
<1>3. \A a \in Articles : SettledBook(a) = Book[a]
    BY DEF Book
<1>4. OwnedNow = OwnedIn(Accounts)
    BY <1>2 DEF OwnedNow, OwnedIn
<1>5. MoneyNow = MoneyIn(Accounts)
    BY <1>2 DEF MoneyNow, MoneyIn
<1>6. OffersNow = OffersIn(Book)
    BY <1>3 DEF OffersNow, OffersIn
<1>7. QED
    BY <1>4, <1>5, <1>6 DEF ViewShown

LEMMA ViewIsShownThen == RoomSilent' => ViewShown'
BY ViewIsShown, PTL

\* The sum of a user's bids in Trading, in this module's words.
LEMMA PromisedNow ==
    ASSUME NEW u
    PROVE  T!Promised(u) = PromisedIn(OffersNow, u)
BY DEF T!Promised, T!BidsOf, T!MapThenSumSet, T!MapThenFoldSet,
       PromisedIn, PromisedOn, BidsIn, MapThenSumSet, MapThenFoldSet

\* A step of the view is a step of Trading.
LEMMA TradingSteps ==
    ASSUME TradingStep(OwnedNow, MoneyNow, OffersNow, OwnedNow', MoneyNow', OffersNow')
    PROVE  T!Next
<1>1. CASE BidPlaced(OwnedNow, MoneyNow, OffersNow, OwnedNow', MoneyNow', OffersNow')
  <2>1. PICK u \in Users, a \in Articles, p \in Prices :
            /\ p <= MoneyNow[u] - PromisedIn(OffersNow, u)
            /\ OffersNow' = [OffersNow EXCEPT ![a] = Append(@, [is_buy_order |-> TRUE, user |-> u, price |-> p])]
            /\ OwnedNow' = OwnedNow /\ MoneyNow' = MoneyNow
    BY <1>1 DEF BidPlaced
  <2>2. p <= T!Available(u)
    BY <2>1, PromisedNow DEF T!Available
  <2>3. T!PlaceBid(u, a, p)
    BY <2>1, <2>2 DEF T!PlaceBid, T!Bid
  <2>4. QED
    BY <2>3 DEF T!Next
<1>2. CASE AskPlaced(OwnedNow, MoneyNow, OffersNow, OwnedNow', MoneyNow', OffersNow')
  <2>1. PICK u \in Users, it \in Items, p \in Prices :
            /\ it \in OwnedNow[u] /\ ~OnSaleIn(OffersNow, it)
            /\ OffersNow' = [OffersNow EXCEPT ![ItemType[it]] =
                                Append(@, [is_buy_order |-> FALSE, user |-> u, price |-> p, item |-> it])]
            /\ OwnedNow' = OwnedNow /\ MoneyNow' = MoneyNow
    BY <1>2 DEF AskPlaced
  <2>2. ~T!OnSale(it)
    BY <2>1 DEF T!OnSale, OnSaleIn
  <2>3. T!PlaceAsk(u, it, p)
    BY <2>1, <2>2 DEF T!PlaceAsk, T!Ask
  <2>4. QED
    BY <2>3 DEF T!Next
<1>3. CASE Traded(OwnedNow, MoneyNow, OffersNow, OwnedNow', MoneyNow', OffersNow')
  <2>1. PICK a \in Articles : \E i, j \in DOMAIN OffersNow[a] : \E bid, ask :
            Crossed(OwnedNow, MoneyNow, OffersNow, OwnedNow', MoneyNow', OffersNow', a, i, j, bid, ask)
    BY <1>3 DEF Traded
  <2>2. PICK i \in DOMAIN OffersNow[a], j \in DOMAIN OffersNow[a] : \E bid, ask :
            Crossed(OwnedNow, MoneyNow, OffersNow, OwnedNow', MoneyNow', OffersNow', a, i, j, bid, ask)
    BY <2>1
  <2>3. PICK bid, ask :
            Crossed(OwnedNow, MoneyNow, OffersNow, OwnedNow', MoneyNow', OffersNow', a, i, j, bid, ask)
    BY <2>2
  <2>4. T!RemoveAt(T!RemoveAt(OffersNow[a], T!Max({i, j})), T!Min({i, j}))
            = RemoveAt(RemoveAt(OffersNow[a], Max({i, j})), Min({i, j}))
    BY DEF T!RemoveAt, T!Max, T!Min, RemoveAt, Max, Min
  <2>5. T!Trade(a, i, j)
    BY <2>3, <2>4 DEF T!Trade, Crossed, Crosses, ItemHanded, PriceHanded, OffersGo
  <2>6. QED
    BY <2>5 DEF T!Next
<1>4. QED
    BY <1>1, <1>2, <1>3 DEF TradingStep

\* Every step of the market is a step of Trading, or nothing to it.
LEMMA MarketTrades ==
    ASSUME OrderInv, [Next]_vars, AllWell'
    PROVE  [T!Next]_(T!tradingVars)
<1>1. MovesWell /\ View
    BY StepsMoveWell, NothingFailedBefore DEF AllGood
<1>2. RoomSilent /\ RoomSilent'
    BY OrderInvKept DEF OrderInv
<1>3. ViewShown /\ ViewShown'
    BY <1>2, ViewIsShown, ViewIsShownThen
<1>4. PICK S, R, B, D : S = Accounts /\ R = Accounts' /\ B = Book /\ D = Book'
    OBVIOUS
<1>5. ViewFits(S, B) /\ Settles(S, R, B, D)
    BY <1>1, <1>4 DEF View, MovesWell, ViewMoves
<1>6. /\ OwnedNow = OwnedIn(S) /\ MoneyNow = MoneyIn(S) /\ OffersNow = OffersIn(B)
      /\ OwnedNow' = OwnedIn(R) /\ MoneyNow' = MoneyIn(R) /\ OffersNow' = OffersIn(D)
    BY <1>3, <1>4 DEF ViewShown
<1>7. \/ TradingStep(OwnedIn(S), MoneyIn(S), OffersIn(B), OwnedIn(R), MoneyIn(R), OffersIn(D))
      \/ OwnedIn(R) = OwnedIn(S) /\ MoneyIn(R) = MoneyIn(S) /\ OffersIn(D) = OffersIn(B)
    BY <1>5, SettlingTrades
<1>8. CASE TradingStep(OwnedNow, MoneyNow, OffersNow, OwnedNow', MoneyNow', OffersNow')
    BY <1>8, TradingSteps
<1>9. CASE UNCHANGED <<OwnedNow, MoneyNow, OffersNow>>
    BY <1>9 DEF T!tradingVars
<1>10. QED
    BY <1>6, <1>7, <1>8, <1>9

\* What the market starts with is something Trading may start with.
LEMMA TradingAtFirst ==
    ASSUME Init, NobodyOwes, EachItemInOneInventory
    PROVE  T!Init
<1>1. OrderInv
    BY OrderInvAtFirst
<1>2. ViewShown
    BY <1>1, ViewIsShown DEF OrderInv
<1>3. /\ account \in InitialAccounts
      /\ \A u \in Users : ~current[u][MarketServer].exists
      /\ session[MarketServer] = NoSession
      /\ orders = [a \in Articles |-> <<>>]
    BY DEF Init, CoordinatorInit, UserServerInit, MarketInit, NoCurrent, Servers
<1>4. Accounts = account
  <2>1. \A u \in Users : Later(u) = account[u]
    BY <1>3 DEF Later, WillCommit
  <2>2. account \in [Users -> Account]
    BY <1>3, InitialAccountsAssumption
  <2>3. QED
    BY <2>1, <2>2 DEF Accounts
<1>5. Book = orders
  <2>1. ~TradeDecided
    BY <1>3 DEF TradeDecided, Idle, NoSession
  <2>2. QED
    BY <1>1, <2>1, BookIsOrders DEF OrderInv
<1>6. PICK S : S = account
    OBVIOUS
<1>7. EachOnce(S) /\ S \in [Users -> Account] /\ \A u \in Users : S[u].money >= 0
    BY <1>3, <1>6, InitialAccountsAssumption DEF NobodyOwes, EachItemInOneInventory
<1>8. OwnedNow = OwnedIn(S) /\ MoneyNow = MoneyIn(S)
    BY <1>2, <1>4, <1>6 DEF ViewShown
<1>9. OwnedNow \in [Users -> SUBSET Items]
    BY <1>8 DEF OwnedIn
<1>10. ASSUME NEW u \in Users, NEW v \in Users, u # v, NEW it \in Items, it \in OwnedNow[u], it \in OwnedNow[v]
       PROVE  FALSE
  <2>1. SlotsHolding(S[u], it) # {} /\ SlotsHolding(S[v], it) # {}
    BY <1>8, <1>10 DEF OwnedIn
  <2>2. PICK n, k : n \in SlotsHolding(S[u], it) /\ k \in SlotsHolding(S[v], it) /\ n \in Slots /\ k \in Slots
    BY <2>1 DEF SlotsHolding
  <2>3. QED
    BY <1>7, <1>10, <2>2 DEF EachOnce
<1>11. \A u, v \in Users : u # v => OwnedNow[u] \cap OwnedNow[v] = {}
  <2>1. \A u \in Users : OwnedNow[u] \subseteq Items
    BY <1>9
  <2>2. QED
    BY <1>10, <2>1
<1>12. MoneyNow \in [Users -> Nat]
  <2>1. \A u \in Users : S[u].money \in Nat
    BY <1>7 DEF Account
  <2>2. QED
    BY <1>8, <2>1 DEF MoneyIn
<1>13. OffersNow = [a \in Articles |-> <<>>]
  <2>1. PICK B : B = orders
    OBVIOUS
  <2>2. \A a \in Articles : OffersIn(B)[a] = <<>>
    BY <1>3, <2>1 DEF OffersIn
  <2>3. OffersIn(B) = [a \in Articles |-> OffersIn(B)[a]]
    BY DEF OffersIn
  <2>4. OffersNow = OffersIn(B)
    BY <1>2, <1>5, <2>1 DEF ViewShown
  <2>5. QED
    BY <2>2, <2>3, <2>4
<1>14. QED
    BY <1>9, <1>11, <1>12, <1>13 DEF T!Init

\* If nobody starts with a debt and no item is in two places, then as long as no connection is
\* lost and no answer is late the market is the Trading specification: an offer comes to stand
\* only while its owner can honour it, an item is on sale once, and a trade moves one item and
\* its price between two users whose orders cross, in one step, whatever the user server, the
\* coordinator and the messages between them do meanwhile (market_server.cpp:374-562, 740-813).
THEOREM MarketImplementsTrading ==
    Spec /\ NobodyOwes /\ EachItemInOneInventory /\ []AllWell => TradesAreAtomic
<1>1. Init /\ NobodyOwes /\ EachItemInOneInventory => T!Init
    BY TradingAtFirst
<1>2. OrderInv /\ [Next]_vars /\ AllWell' => [T!Next]_(T!tradingVars)
    BY MarketTrades
<1>3. QED
    BY <1>1, <1>2, OrderInvariant, PTL DEF Spec, TradesAreAtomic, T!Spec
=============================================================================
