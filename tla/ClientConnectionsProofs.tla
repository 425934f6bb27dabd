---------------------- MODULE ClientConnectionsProofs ----------------------
(***************************************************************************)
(* What holds of the game client's connections however often the player    *)
(* asks for a user, a room, an action or a view, however many connections  *)
(* break, and however the two threads' steps fall together.                *)
(***************************************************************************)
EXTENDS ClientConnections, FiniteSetTheorems, TLAPS

USE ClientAssumption

-----------------------------------------------------------------------------
(* Types: what a step leaves alone keeps its type *)

LEMMA AskedKept ==
    ASSUME AskedTypes, UNCHANGED <<requestVars, actionVars, boundVars>>
    PROVE  AskedTypes'
BY DEF AskedTypes, requestVars, actionVars, boundVars

LEMMA ShownKept ==
    ASSUME ShownTypes, UNCHANGED <<con, shownVars, should_exit>>
    PROVE  ShownTypes'
BY DEF ShownTypes, shownVars

LEMMA TakenKept ==
    ASSUME TakenTypes, UNCHANGED taken
    PROVE  TakenTypes'
BY DEF TakenTypes

LEMMA ServerKept ==
    ASSUME ServerTypes, UNCHANGED serverVars
    PROVE  ServerTypes'
BY DEF ServerTypes, serverVars

LEMMA LoopKept ==
    ASSUME LoopTypes, UNCHANGED <<did_connect, local, failed>>, pc' \in Steps
    PROVE  LoopTypes'
BY DEF LoopTypes

\* What the network loop has to itself, a step of the main loop leaves alone.
LEMMA ThreadKept ==
    ASSUME TakenTypes, LoopTypes, ServerTypes, UNCHANGED threadVars
    PROVE  TakenTypes' /\ LoopTypes' /\ ServerTypes'
<1>1. UNCHANGED taken /\ UNCHANGED serverVars /\ UNCHANGED <<pc, did_connect, local, failed>>
    BY DEF threadVars
<1>2. LoopTypes'
    BY <1>1 DEF LoopTypes
<1>3. QED
    BY <1>1, <1>2, TakenKept, ServerKept

LEMMA InitialTypes == Init => TypeOK
<1> SUFFICES ASSUME Init PROVE TypeOK
    OBVIOUS
<1> DEFINE none == <<>>
<1>0. none \in Seq(Action)
    OBVIOUS
<1>1. AskedTypes
  <2>1. room_actions = none /\ market_actions = 0 /\ asked = 0 /\ connects = 0
    BY DEF Init
  <2>2. room_actions \in Seq(Action) /\ market_actions \in Nat /\ asked \in 0..MaxActions
        /\ connects \in 0..MaxWishes
    BY <1>0, <2>1
  <2>3. user_requested \in Users \cup {NoUser} /\ room_requested \in Rooms \cup {NoRoom}
        /\ market_requested \in BOOLEAN
    BY DEF Init
  <2>4. QED
    BY <2>2, <2>3 DEF AskedTypes
<1>2. con \in Connections
    BY DEF Init, Connections, NoRoomConnection
<1>3. Cardinality(pending \cup answered) = 0
    BY FS_EmptySet DEF Init
<1>4. ShownTypes
  <2>1. user \in Users \cup {NoUser} /\ player \in Users \cup {NoUser}
        /\ waiting \in BOOLEAN /\ article_shown \in BOOLEAN /\ should_exit \in BOOLEAN
    BY DEF Init
  <2>2. pending = {} /\ answered = {} /\ Cardinality(pending \cup answered) <= PendingLength
    BY <1>3 DEF Init
  <2>3. QED
    BY <1>2, <2>1, <2>2 DEF ShownTypes
<1>5. TakenTypes
  <2>1. taken = [room |-> NoRoom, user |-> NoUser, market |-> FALSE, actions |-> none, views |-> 0]
    BY DEF Init, NothingTaken
  <2>2. QED
    BY <1>0, <2>1 DEF TakenTypes
<1>6. LoopTypes
  <2>1. pc = "take" /\ local = con /\ did_connect = {} /\ failed = "none"
    BY DEF Init
  <2>2. QED
    BY <1>2, <2>1 DEF LoopTypes, Steps
<1>7. ServerTypes
  <2>1. views = 0 /\ last_sent = 0 /\ lost = 0 /\ unanswered = {}
    BY DEF Init
  <2>2. views \in Nat /\ last_sent \in 0..MaxActions /\ lost \in 0..MaxLost
    BY <2>1
  <2>3. inited \in BOOLEAN /\ user_lost \in BOOLEAN
    BY DEF Init
  <2>4. QED
    BY <2>1, <2>2, <2>3 DEF ServerTypes
<1>8. QED
    BY <1>1, <1>4, <1>5, <1>6, <1>7 DEF TypeOK

-----------------------------------------------------------------------------
(* Types: the main loop *)

LEMMA PendingIsFinite ==
    ASSUME ShownTypes
    PROVE  IsFiniteSet(pending \cup answered) /\ Cardinality(pending \cup answered) \in Nat
<1>1. IsFiniteSet(1..MaxActions)
    BY FS_Interval
<1>2. IsFiniteSet(pending \cup answered)
    BY <1>1, FS_Subset DEF ShownTypes
<1>3. QED
    BY <1>2, FS_CardinalityType

LEMMA AskForActionKeepsType ==
    ASSUME TypeOK, AskForAction
    PROVE  TypeOK'
<1>1. PICK type \in {"PLAYER_ACTION", "CHAT"} :
          room_actions' = Append(room_actions, [id |-> asked', type |-> type,
                                                room |-> con.room.room, late |-> OnItsWay])
    BY DEF AskForAction
<1>2. asked' \in 1..MaxActions
    BY DEF AskForAction, TypeOK, AskedTypes
<1>3. OnItsWay \in BOOLEAN
    BY DEF OnItsWay
<1>4. con.room.room \in Rooms \cup {NoRoom}
    BY DEF TypeOK, ShownTypes, Connections, NoRoomConnection
<1>5. [id |-> asked', type |-> type, room |-> con.room.room, late |-> OnItsWay] \in Action
    BY <1>2, <1>3, <1>4 DEF Action
<1>6. room_actions' \in Seq(Action)
    BY <1>1, <1>5 DEF TypeOK, AskedTypes
<1>7. AskedTypes'
    BY <1>2, <1>6 DEF AskForAction, TypeOK, AskedTypes, requestVars
<1>8. ShownTypes'
    BY ShownKept DEF AskForAction, TypeOK, threadVars
<1>9. QED
    BY <1>7, <1>8, ThreadKept DEF AskForAction, TypeOK

LEMMA HandleResultsKeepsType ==
    ASSUME TypeOK, HandleResults
    PROVE  TypeOK'
<1>1. ShownTypes
    BY DEF TypeOK
<1>2. Cardinality(pending) <= Cardinality(pending \cup answered) /\ Cardinality(pending) \in Nat
    BY <1>1, PendingIsFinite, FS_Subset, FS_CardinalityType
<1>3. Cardinality(pending) <= PendingLength
    BY <1>1, <1>2, PendingIsFinite DEF ShownTypes
<1>4. pending' \cup answered' = pending
    BY DEF HandleResults
<1>5. ShownTypes'
    BY <1>1, <1>3, <1>4 DEF HandleResults, ShownTypes, threadVars
<1>6. AskedTypes'
    BY AskedKept DEF HandleResults, TypeOK
<1>7. QED
    BY <1>5, <1>6, ThreadKept DEF HandleResults, TypeOK

LEMMA MainLoopKeepsType ==
    ASSUME TypeOK, MainLoop
    PROVE  TypeOK'
<1> USE DEF TypeOK
<1>1. CASE RequestUser
  <2>1. AskedTypes'
    BY <1>1 DEF RequestUser, AskedTypes, actionVars, Wishes
  <2>2. QED
    BY <1>1, <2>1, ShownKept, ThreadKept DEF RequestUser, threadVars
<1>2. CASE RequestRoom
  <2>1. AskedTypes'
    BY <1>2 DEF RequestRoom, AskedTypes, actionVars, Wishes
  <2>2. QED
    BY <1>2, <2>1, ShownKept, ThreadKept DEF RequestRoom, threadVars
<1>3. CASE RequestMarket
  <2>1. AskedTypes'
    BY <1>3 DEF RequestMarket, AskedTypes, actionVars, boundVars
  <2>2. QED
    BY <1>3, <2>1, ShownKept, ThreadKept DEF RequestMarket, threadVars
<1>4. CASE AskForAction
    BY <1>4, AskForActionKeepsType
<1>5. CASE SetView
  <2>1. AskedTypes'
    BY <1>5 DEF SetView, AskedTypes, requestVars
  <2>2. ShownTypes'
    BY <1>5 DEF SetView, ShownTypes, threadVars
  <2>3. QED
    BY <1>5, <2>1, <2>2, ThreadKept DEF SetView
<1>6. CASE HandleResults
    BY <1>6, HandleResultsKeepsType
<1>7. CASE Quit
  <2>1. ShownTypes'
    BY <1>7 DEF Quit, ShownTypes, shownVars, threadVars
  <2>2. QED
    BY <1>7, <2>1, AskedKept, ThreadKept DEF Quit
<1>8. QED
    BY <1>1, <1>2, <1>3, <1>4, <1>5, <1>6, <1>7 DEF MainLoop

-----------------------------------------------------------------------------
(* Types: the network loop *)

LEMMA ConnectsKeepType ==
    ASSUME TakenTypes, NEW c \in Connections, NEW ok
    PROVE  /\ AfterRoom(c, ok) \in Connections
           /\ AfterUser(c, ok) \in Connections
           /\ AfterMarket(c, ok) \in Connections
<1>1. taken.room \in Rooms \cup {NoRoom} /\ taken.user \in Users \cup {NoUser}
    BY DEF TakenTypes
<1>2. c.user \in Users \cup {NoUser}
    BY DEF Connections
<1>3. NoRoomConnection \in {NoRoomConnection}
    OBVIOUS
<1>4. AfterRoom(c, ok) \in Connections
    BY <1>1, <1>2, <1>3 DEF Connections, AfterRoom
<1>5. WithoutUser(c) \in Connections
    BY <1>3 DEF Connections, WithoutUser
<1>6. AfterUser(c, ok) \in Connections
    BY <1>1, <1>5 DEF Connections, AfterUser
<1>7. AfterMarket(c, ok) \in Connections
    BY <1>2 DEF Connections, AfterMarket
<1>8. QED
    BY <1>4, <1>6, <1>7

\* The room server answers no action twice, and no more results are waited for than actions sent.
LEMMA IdsOfActions ==
    ASSUME TakenTypes
    PROVE  /\ PlayerActionIds \subseteq 1..MaxActions
           /\ IsFiniteSet(PlayerActionIds) /\ IsFiniteSet(PlayerActions)
           /\ Cardinality(PlayerActionIds) <= Cardinality(PlayerActions)
<1>1. taken.actions \in Seq(Action)
    BY DEF TakenTypes
<1>2. PlayerActions \subseteq 1..Len(taken.actions) /\ Len(taken.actions) \in Nat
    BY <1>1 DEF PlayerActions
<1>3. IsFiniteSet(PlayerActions)
  <2>1. IsFiniteSet(1..Len(taken.actions))
    BY <1>2, FS_Interval
  <2>2. QED
    BY <1>2, <2>1, FS_Subset
<1>4. \A i \in PlayerActions : taken.actions[i] \in Action
    BY <1>1 DEF PlayerActions
<1>5. PlayerActionIds \subseteq 1..MaxActions
    BY <1>4 DEF PlayerActionIds, Action
<1>6. DEFINE f == [i \in PlayerActions |-> taken.actions[i].id]
<1>7. f \in Surjection(PlayerActions, PlayerActionIds)
    BY DEF Surjection, PlayerActionIds
<1>8. IsFiniteSet(PlayerActionIds) /\ Cardinality(PlayerActionIds) <= Cardinality(PlayerActions)
    BY <1>3, <1>7, FS_Surjection
<1>9. QED
    BY <1>3, <1>5, <1>8

LEMMA ConnectKeepsType ==
    ASSUME TypeOK, NEW ok \in SUBSET {"room", "user", "market"}, Connect(ok)
    PROVE  TypeOK'
<1>1. local' = AfterMarket(AfterUser(AfterRoom(local, ok), ok), ok)
    BY DEF Connect
<1>2. local \in Connections /\ TakenTypes
    BY DEF TypeOK, LoopTypes
<1>3. local' \in Connections
    BY <1>1, <1>2, ConnectsKeepType
<1>4. AskedTypes' /\ ShownTypes' /\ TakenTypes'
    BY AskedKept, ShownKept, TakenKept DEF TypeOK, Connect, mainVars
<1>5. LoopTypes'
    BY <1>3 DEF TypeOK, LoopTypes, Connect, Go, Steps
<1>6. inited' \in BOOLEAN
    BY DEF Connect
<1>7. unanswered' \in SUBSET (1..MaxActions) /\ views' \in Nat
    BY DEF TypeOK, ServerTypes, Connect
<1>8. ServerTypes'
    BY <1>6, <1>7 DEF TypeOK, ServerTypes, Connect
<1>9. QED
    BY <1>4, <1>5, <1>8 DEF TypeOK

LEMMA WriteRoomKeepsType ==
    ASSUME TypeOK, WriteRoom
    PROVE  TypeOK'
<1>1. AskedTypes' /\ TakenTypes'
    BY AskedKept, TakenKept DEF TypeOK, WriteRoom, mainVars
<1>2. pc' \in Steps
    BY DEF TypeOK, LoopTypes, WriteRoom, Steps
<1>3. failed' \in {"none", "no player", "no user", "too many pending", "result unknown", "room not empty"}
    BY DEF TypeOK, LoopTypes, WriteRoom
<1>4. LoopTypes'
    BY <1>2, <1>3 DEF TypeOK, LoopTypes, WriteRoom
<1>5. CASE UNCHANGED <<pending, unanswered, last_sent>>
  <2>1. ShownTypes'
    BY <1>5, ShownKept DEF TypeOK, WriteRoom, mainVars, shownVars
  <2>2. ServerTypes'
    BY <1>5, ServerKept DEF TypeOK, WriteRoom, serverVars
  <2>3. QED
    BY <1>1, <1>4, <2>1, <2>2 DEF TypeOK
<1>6. CASE ~(UNCHANGED <<pending, unanswered, last_sent>>)
  <2>1. /\ taken.actions # <<>>
        /\ ~TooManyPending(Cardinality(PlayerActions))
        /\ pending' = pending \cup PlayerActionIds
        /\ unanswered' = unanswered \cup PlayerActionIds
        /\ last_sent' = taken.actions[Len(taken.actions)].id
    BY <1>6 DEF WriteRoom
  <2>2. TakenTypes /\ ShownTypes
    BY DEF TypeOK
  <2>3. pending' \in SUBSET (1..MaxActions) /\ unanswered' \in SUBSET (1..MaxActions)
    BY <2>1, <2>2, IdsOfActions DEF TypeOK, ShownTypes, ServerTypes
  <2>4. taken.actions \in Seq(Action) /\ taken.actions # <<>>
    BY <2>1, <2>2 DEF TakenTypes
  <2>5. taken.actions[Len(taken.actions)] \in Action
    BY <2>4
  <2>6. last_sent' \in 0..MaxActions
    BY <2>1, <2>5 DEF Action
  <2>7. Cardinality((pending \cup answered) \cup PlayerActionIds)
          <= Cardinality(pending \cup answered) + Cardinality(PlayerActionIds)
    <3>1. /\ IsFiniteSet(pending \cup answered) /\ IsFiniteSet(PlayerActionIds)
          /\ IsFiniteSet((pending \cup answered) \cap PlayerActionIds)
      BY <2>2, PendingIsFinite, IdsOfActions, FS_Intersection
    <3>2. Cardinality((pending \cup answered) \cap PlayerActionIds) \in Nat
      BY <3>1, FS_CardinalityType
    <3>3. Cardinality((pending \cup answered) \cup PlayerActionIds)
            = Cardinality(pending \cup answered) + Cardinality(PlayerActionIds)
              - Cardinality((pending \cup answered) \cap PlayerActionIds)
      BY <3>1, FS_Union
    <3>4. Cardinality(pending \cup answered) \in Nat /\ Cardinality(PlayerActionIds) \in Nat
      BY <3>1, FS_CardinalityType
    <3>5. QED
      BY <3>2, <3>3, <3>4
  <2>8. /\ Cardinality(pending \cup answered) \in Nat /\ Cardinality(PlayerActionIds) \in Nat
        /\ Cardinality(PlayerActions) \in Nat
        /\ Cardinality((pending \cup answered) \cup PlayerActionIds) \in Nat
    BY <2>2, PendingIsFinite, IdsOfActions, FS_Union, FS_CardinalityType
  <2>9. pending' \cup answered' = (pending \cup answered) \cup PlayerActionIds
    BY <2>1 DEF WriteRoom
  <2>10. Cardinality(pending' \cup answered') <= PendingLength
    <3>1. Cardinality(pending \cup answered) + Cardinality(PlayerActions) <= PendingLength
      BY <2>1, <2>8 DEF TooManyPending
    <3>2. Cardinality(PlayerActionIds) <= Cardinality(PlayerActions)
      BY <2>2, IdsOfActions
    <3>3. Cardinality((pending \cup answered) \cup PlayerActionIds) <= PendingLength
      BY <2>7, <2>8, <3>1, <3>2
    <3>4. QED
      BY <2>9, <3>3, Zenon
  <2>11. ShownTypes'
    BY <2>2, <2>3, <2>10 DEF ShownTypes, WriteRoom, mainVars
  <2>12. ServerTypes'
    BY <2>3, <2>6 DEF TypeOK, ServerTypes, WriteRoom
  <2>13. QED
    BY <1>1, <1>4, <2>11, <2>12 DEF TypeOK
<1>7. QED
    BY <1>5, <1>6


LEMMA ReadResultKeepsType ==
    ASSUME TypeOK, ReadResult
    PROVE  TypeOK'
<1>1. AskedTypes' /\ TakenTypes'
    BY AskedKept, TakenKept DEF TypeOK, ReadResult, Fails, talkVars, mainVars
<1>2. PICK id \in unanswered :
          IF id \notin pending
          THEN Fails("result unknown")
          ELSE /\ pending' = pending \ {id}
               /\ answered' = answered \cup {id}
               /\ unanswered' = unanswered \ {id}
               /\ UNCHANGED <<talkVars, user, player, waiting, article_shown, pc, local, inited, views,
                              last_sent, user_lost, lost, failed>>
    BY DEF ReadResult
<1>3. CASE id \notin pending
  <2>1. ShownTypes' /\ ServerTypes'
    BY <1>2, <1>3, ShownKept, ServerKept DEF TypeOK, Fails
  <2>2. LoopTypes'
    BY <1>2, <1>3 DEF TypeOK, Fails, LoopTypes
  <2>3. QED
    BY <1>1, <2>1, <2>2 DEF TypeOK
<1>4. CASE id \in pending
  <2>1. pending' \cup answered' = pending \cup answered
    BY <1>2, <1>4
  <2>2. Cardinality(pending' \cup answered') = Cardinality(pending \cup answered)
    BY <2>1, Zenon
  <2>3. ShownTypes'
    <3>0. pending' = pending \ {id} /\ answered' = answered \cup {id}
      BY <1>2, <1>4
    <3>1. pending' \in SUBSET (1..MaxActions) /\ answered' \in SUBSET (1..MaxActions)
      <4>1. pending \in SUBSET (1..MaxActions) /\ answered \in SUBSET (1..MaxActions)
        BY DEF TypeOK, ShownTypes
      <4>2. QED
        BY <3>0, <4>1, <1>4
    <3>2. UNCHANGED <<con, user, player, waiting, article_shown, should_exit>>
      BY <1>2, <1>4 DEF talkVars, mainVars
    <3>3. Cardinality(pending' \cup answered') <= PendingLength
      BY <2>2 DEF TypeOK, ShownTypes
    <3>4. QED
      BY <3>1, <3>2, <3>3 DEF TypeOK, ShownTypes
  <2>4. ServerTypes'
    BY <1>2, <1>4 DEF TypeOK, ServerTypes
  <2>5. LoopTypes'
    BY <1>2, <1>4 DEF TypeOK, LoopTypes, talkVars
  <2>6. QED
    BY <1>1, <2>3, <2>4, <2>5 DEF TypeOK
<1>5. QED
    BY <1>3, <1>4

\* The steps that only end a connection or go on to the next server.
LEMMA LeavingKeepsType ==
    ASSUME TypeOK, LoseRoom \/ NoMoreFromRoom \/ LoseUser \/ NoMoreFromUser \/ LoseMarket \/ NoMoreFromMarket
    PROVE  TypeOK'
<1> USE DEF LoseRoom, NoMoreFromRoom, LoseUser, NoMoreFromUser, LoseMarket, NoMoreFromMarket,
            Loses, Go, talkVars
<1>1. AskedTypes' /\ TakenTypes' /\ ShownTypes'
    BY AskedKept, TakenKept, ShownKept DEF TypeOK, mainVars
<1>2. pc' \in Steps
    BY DEF Steps
<1>3. local' \in Connections
    BY DEF TypeOK, LoopTypes, Connections
<1>4. LoopTypes'
    BY <1>2, <1>3 DEF TypeOK, LoopTypes
<1>5. inited' \in BOOLEAN /\ user_lost' \in BOOLEAN
    BY DEF TypeOK, ServerTypes, serverVars
<1>6. unanswered' \in SUBSET (1..MaxActions) /\ last_sent' \in 0..MaxActions
    BY DEF TypeOK, ServerTypes, serverVars
<1>7. taken.views \in Nat
    BY DEF TypeOK, TakenTypes
<1>8. views' \in Nat
    BY <1>7 DEF TypeOK, ServerTypes, serverVars, WriteMarket
<1>9. lost' \in 0..MaxLost
    BY DEF TypeOK, ServerTypes, serverVars
<1>10. ServerTypes'
    BY <1>5, <1>6, <1>8, <1>9 DEF ServerTypes
<1>11. QED
    BY <1>1, <1>4, <1>10 DEF TypeOK

LEMMA ReadingKeepsType ==
    ASSUME TypeOK, ReadRoomInit \/ ReadUserInit \/ MarketAnswers \/ MarketChanges
    PROVE  TypeOK'
<1> USE DEF ReadRoomInit, ReadUserInit, MarketAnswers, MarketChanges, talkVars
<1>1. AskedTypes' /\ TakenTypes'
    BY AskedKept, TakenKept DEF TypeOK, Fails, mainVars
<1>2. local.room.as_user \in Users \cup {NoUser} /\ local.user \in Users \cup {NoUser}
  <2>1. local.room \in [room : Rooms, as_user : Users] \cup {NoRoomConnection}
        /\ local.user \in Users \cup {NoUser}
    BY DEF TypeOK, LoopTypes, Connections
  <2>2. NoRoomConnection.as_user = NoUser
    BY DEF NoRoomConnection
  <2>3. \A r \in [room : Rooms, as_user : Users] : r.as_user \in Users
    OBVIOUS
  <2>4. QED
    BY <2>1, <2>2, <2>3
<1>3. con' = con /\ pending' = pending /\ answered' = answered /\ should_exit' = should_exit
    BY DEF Fails, shownVars, mainVars
<1>4. user' \in Users \cup {NoUser} /\ player' \in Users \cup {NoUser} /\ waiting' \in BOOLEAN
        /\ article_shown' \in BOOLEAN
    BY <1>2 DEF TypeOK, ShownTypes, Fails, shownVars
<1>5. ShownTypes'
    BY <1>3, <1>4 DEF TypeOK, ShownTypes
<1>6. LoopTypes'
    BY DEF TypeOK, LoopTypes, Fails
<1>7. inited' \in BOOLEAN /\ user_lost' \in BOOLEAN
    BY DEF TypeOK, ServerTypes, serverVars, Fails
<1>8. views' \in Nat
  <2>1. views' = views \/ (views > 0 /\ views' = views - 1)
    BY DEF serverVars, Fails
  <2>2. views \in Nat
    BY DEF TypeOK, ServerTypes
  <2>3. QED
    BY ONLY <2>1, <2>2
<1>9. unanswered' = unanswered /\ last_sent' = last_sent /\ lost' = lost
    BY DEF serverVars, Fails
<1>10. ServerTypes'
    BY <1>7, <1>8, <1>9 DEF TypeOK, ServerTypes
<1>11. QED
    BY <1>1, <1>5, <1>6, <1>10 DEF TypeOK

LEMMA NetworkLoopKeepsType ==
    ASSUME TypeOK, NetworkLoop
    PROVE  TypeOK'
<1>1. CASE Take
  <2>1. room_actions \in Seq(Action) /\ market_actions \in Nat
    BY DEF TypeOK, AskedTypes
  <2>2. TakenTypes'
    BY <1>1, <2>1 DEF Take, TakenTypes, TypeOK, AskedTypes
  <2>3. <<>> \in Seq(Action)
    OBVIOUS
  <2>4. AskedTypes'
    BY <1>1, <2>3 DEF Take, TypeOK, AskedTypes, ActionsLeft, requestVars, mainVars, boundVars
  <2>5. ShownTypes' /\ ServerTypes'
    BY <1>1, ShownKept, ServerKept DEF Take, TypeOK, mainVars
  <2>6. LoopTypes'
    BY <1>1 DEF Take, TypeOK, LoopTypes, Go, Steps
  <2>7. QED
    BY <2>2, <2>4, <2>5, <2>6 DEF TypeOK
<1>2. CASE End
  <2>1. local' \in Connections
    BY <1>2 DEF End, TypeOK, LoopTypes, Connections
  <2>2. LoopTypes'
    BY <1>2, <2>1 DEF End, TypeOK, LoopTypes, Go, Steps
  <2>3. QED
    BY <1>2, <2>2, AskedKept, ShownKept, TakenKept, ServerKept DEF End, TypeOK, mainVars
<1>3. CASE \E ok \in SUBSET {"room", "user", "market"} : Connect(ok)
    BY <1>3, ConnectKeepsType
<1>4. CASE WriteRoom
    BY <1>4, WriteRoomKeepsType
<1>5. CASE ReadResult
    BY <1>5, ReadResultKeepsType
<1>6. CASE ReadRoomInit \/ ReadUserInit \/ MarketAnswers \/ MarketChanges
    BY <1>6, ReadingKeepsType
<1>7. CASE LoseRoom \/ NoMoreFromRoom \/ LoseUser \/ NoMoreFromUser \/ LoseMarket \/ NoMoreFromMarket
    BY <1>7, LeavingKeepsType
<1>8. CASE Publish
  <2>1. room_actions' = room_actions /\ market_actions' = market_actions /\ asked' = asked
        /\ connects' = connects
    BY <1>8 DEF Publish, actionVars, mainVars, boundVars
  <2>2. user_requested' \in Users \cup {NoUser} /\ room_requested' \in Rooms \cup {NoRoom}
        /\ market_requested' \in BOOLEAN
    BY <1>8 DEF Publish, StillRequested, TypeOK, AskedTypes
  <2>3. AskedTypes'
    BY <2>1, <2>2 DEF TypeOK, AskedTypes
  <2>4. <<>> \in Seq(Action)
    OBVIOUS
  <2>5. TakenTypes'
    BY <1>8, <2>4 DEF Publish, NothingTaken, TakenTypes
  <2>6. LoopTypes'
    BY <1>8 DEF Publish, TypeOK, LoopTypes, Go, Steps
  <2>7. ServerTypes'
    BY <1>8, ServerKept DEF Publish, TypeOK
  <2>8. user' \in Users \cup {NoUser} /\ player' \in Users \cup {NoUser}
    BY <1>8 DEF Publish, UserShown, TypeOK, ShownTypes
  <2>9. waiting' \in BOOLEAN /\ article_shown' \in BOOLEAN /\ should_exit' \in BOOLEAN /\ con' \in Connections
    BY <1>8 DEF Publish, StillWaiting, TypeOK, ShownTypes, LoopTypes, mainVars
  <2>10. pending' \in SUBSET (1..MaxActions) /\ answered' \in SUBSET (1..MaxActions)
    BY <1>8 DEF Publish, TypeOK, ShownTypes
  <2>11. Cardinality(pending' \cup answered') <= PendingLength
    <3>1. CASE pending' = {} /\ answered' = {}
      BY <3>1, FS_EmptySet
    <3>2. CASE pending' = pending /\ answered' = answered
      BY <3>2 DEF TypeOK, ShownTypes
    <3>3. QED
      BY <1>8, <3>1, <3>2 DEF Publish
  <2>12. ShownTypes'
    BY <2>8, <2>9, <2>10, <2>11 DEF ShownTypes
  <2>13. QED
    BY <2>3, <2>5, <2>6, <2>7, <2>12 DEF TypeOK
<1>9. QED
    BY <1>1, <1>2, <1>3, <1>4, <1>5, <1>6, <1>7, <1>8 DEF NetworkLoop

\* However often the player asks and connections break, every part of the client's state keeps its
\* type, and no more actions are waited for than room->pending_actions holds (net_client.cpp:100).
THEOREM ClientTypes == Spec => []TypeOK
<1>1. TypeOK /\ [Next]_vars => TypeOK'
  <2> SUFFICES ASSUME TypeOK, [Next]_vars PROVE TypeOK'
    OBVIOUS
  <2>1. CASE Next
    BY <2>1, MainLoopKeepsType, NetworkLoopKeepsType DEF Next
  <2>2. CASE UNCHANGED vars
    BY <2>2, AskedKept, ShownKept, ThreadKept DEF TypeOK, vars, threadVars
  <2>3. QED
    BY <2>1, <2>2
<1>2. QED
    BY <1>1, InitialTypes, PTL DEF Spec

-----------------------------------------------------------------------------
(* What the steps leave alone *)

LEMMA MainLoopLeaves ==
    ASSUME MainLoop
    PROVE  /\ UNCHANGED <<con, pc, taken, did_connect, local, inited, unanswered, last_sent, user_lost, failed>>
           /\ UNCHANGED <<user, player, pending>>
BY DEF MainLoop, RequestUser, RequestRoom, RequestMarket, AskForAction, SetView, HandleResults, Quit,
       threadVars, serverVars, shownVars

\* The steps in which the network loop talks to the servers.
Talk ==
    \/ WriteRoom \/ ReadRoomInit \/ ReadResult \/ LoseRoom \/ NoMoreFromRoom
    \/ ReadUserInit \/ LoseUser \/ NoMoreFromUser
    \/ MarketAnswers \/ MarketChanges \/ LoseMarket \/ NoMoreFromMarket

LEMMA TalkLeaves ==
    ASSUME Talk
    PROVE  /\ UNCHANGED <<requestVars, room_actions, con, taken, did_connect, asked>>
           /\ pc \in {"write_room", "read_room", "read_user", "read_market"}
           /\ pc' \in {"write_room", "read_room", "read_user", "read_market", "publish"}
           /\ pc' = "write_room" => pc = "write_room"
<1> USE DEF talkVars, actionVars, mainVars, boundVars
<1>1. CASE WriteRoom
    BY <1>1 DEF WriteRoom
<1>2. CASE ReadRoomInit \/ ReadResult \/ LoseRoom \/ NoMoreFromRoom
    BY <1>2 DEF ReadRoomInit, ReadResult, LoseRoom, NoMoreFromRoom, Fails, Loses, Go
<1>3. CASE ReadUserInit \/ LoseUser \/ NoMoreFromUser
    BY <1>3 DEF ReadUserInit, LoseUser, NoMoreFromUser, Loses, Go
<1>4. CASE MarketAnswers \/ MarketChanges \/ LoseMarket \/ NoMoreFromMarket
    BY <1>4 DEF MarketAnswers, MarketChanges, LoseMarket, NoMoreFromMarket, Loses, Go
<1>5. QED
    BY <1>1, <1>2, <1>3, <1>4 DEF Talk

\* Talking, the network loop makes no connection; it only loses them.
LEMMA TalkOnlyLoses ==
    ASSUME TypeOK, Talk
    PROVE  /\ local'.room = local.room \/ local'.room = NoRoomConnection
           /\ local'.user = local.user \/ (local'.user = NoUser /\ user_lost')
           /\ local'.market = local.market \/ local'.market = NoUser
           /\ user_lost => user_lost'
<1>0. local \in Connections
    BY DEF TypeOK, LoopTypes
<1>1. CASE LoseRoom \/ LoseUser \/ LoseMarket
    BY <1>0, <1>1 DEF LoseRoom, LoseUser, LoseMarket, Connections
<1>2. CASE UNCHANGED <<local, user_lost>>
    BY <1>2
<1>3. CASE ~(LoseRoom \/ LoseUser \/ LoseMarket)
  <2>1. UNCHANGED <<local, user_lost>>
    BY <1>3 DEF Talk, WriteRoom, ReadRoomInit, ReadResult, NoMoreFromRoom, ReadUserInit, NoMoreFromUser,
                MarketAnswers, MarketChanges, NoMoreFromMarket, Fails, serverVars
  <2>2. QED
    BY <1>2, <2>1
<1>4. QED
    BY <1>1, <1>3

\* The user server's turn is the only one that changes who is shown.
LEMMA TalkAndUser ==
    ASSUME Talk
    PROVE  user' = user \/ (TalksToUser /\ user' = local.user)
BY DEF Talk, WriteRoom, ReadRoomInit, ReadResult, LoseRoom, NoMoreFromRoom, ReadUserInit, LoseUser,
       NoMoreFromUser, MarketAnswers, MarketChanges, LoseMarket, NoMoreFromMarket, Fails, shownVars

LEMMA NextSteps ==
    ASSUME [Next]_vars
    PROVE  \/ UNCHANGED vars \/ MainLoop \/ Take \/ End \/ Publish \/ Talk
           \/ \E ok \in SUBSET {"room", "user", "market"} : Connect(ok)
BY DEF Next, NetworkLoop, Talk

-----------------------------------------------------------------------------
(* Before it connects, the network loop has connected to nothing. *)
NotYetConnected == pc \in {"take", "connect", "ended"} => did_connect = {}

LEMMA NotYetConnectedKept ==
    ASSUME NotYetConnected, [Next]_vars
    PROVE  NotYetConnected'
<1>1. CASE UNCHANGED vars
    BY <1>1 DEF NotYetConnected, vars
<1>2. CASE MainLoop
    BY <1>2, MainLoopLeaves DEF NotYetConnected
<1>3. CASE Talk
    BY <1>3, TalkLeaves DEF NotYetConnected
<1>4. CASE Take \/ End \/ Publish
    BY <1>4 DEF NotYetConnected, Take, End, Publish, Go
<1>5. CASE \E ok \in SUBSET {"room", "user", "market"} : Connect(ok)
    BY <1>5 DEF NotYetConnected, Connect, Go
<1>6. QED
    BY <1>1, <1>2, <1>3, <1>4, <1>5, NextSteps

LEMMA BeforeConnecting == Spec => []NotYetConnected
<1>1. Init => NotYetConnected
    BY DEF Init, NotYetConnected
<1>2. QED
    BY <1>1, NotYetConnectedKept, PTL DEF Spec

-----------------------------------------------------------------------------
(* Who the client is connected as *)

LEMMA UserAfterConnects ==
    ASSUME TypeOK, NEW ok, Connect(ok)
    PROVE  local'.user # NoUser /\ "user" \notin did_connect' => local'.user = local.user
<1>1. local \in Connections /\ TakenTypes
    BY DEF TypeOK, LoopTypes
<1>2. AfterRoom(local, ok) \in Connections /\ AfterRoom(local, ok).user = local.user
    BY <1>1, ConnectsKeepType DEF AfterRoom, Connections
<1> DEFINE c == AfterRoom(local, ok)
<1> HIDE DEF c
<1>3. c \in Connections /\ c.user = local.user
    BY <1>2 DEF c
<1>4. AfterUser(c, ok) \in Connections
    BY <1>1, <1>3, ConnectsKeepType
<1>5. WithoutUser(c) \in Connections
    BY <1>3 DEF WithoutUser, Connections
<1>6. \/ AfterUser(c, ok).user = local.user
      \/ AfterUser(c, ok).user = IF "user" \in ok THEN taken.user ELSE NoUser
    BY <1>3, <1>5 DEF AfterUser, Connections
<1>7. AfterMarket(AfterUser(c, ok), ok).user = AfterUser(c, ok).user
    BY <1>4 DEF AfterMarket, Connections
<1>8. local' = AfterMarket(AfterUser(c, ok), ok) /\ did_connect' = ok
    BY DEF Connect, c
<1>9. QED
    BY <1>6, <1>7, <1>8

\* What is published agrees with what the network loop has, but for what this iteration connected.
UsersAgree ==
    /\ ShownUserIsConnected
    /\ local.user # NoUser /\ "user" \notin did_connect => con.user = local.user

LEMMA UsersStayAgreed ==
    ASSUME TypeOK, NotYetConnected, UsersAgree, [Next]_vars
    PROVE  UsersAgree'
<1> USE DEF UsersAgree, ShownUserIsConnected
<1>1. CASE UNCHANGED vars
    BY <1>1 DEF vars, shownVars
<1>2. CASE MainLoop
    BY <1>2, MainLoopLeaves
<1>3. CASE \E ok \in SUBSET {"room", "user", "market"} : Connect(ok)
  <2>1. UNCHANGED <<con, user>> /\ did_connect = {}
    BY <1>3 DEF Connect, Go, shownVars, NotYetConnected
  <2>2. local'.user # NoUser /\ "user" \notin did_connect' => local'.user = local.user
    BY <1>3, UserAfterConnects
  <2>3. QED
    BY <2>1, <2>2
<1>4. CASE Talk
  <2>1. con' = con /\ did_connect' = did_connect
    BY <1>4, TalkLeaves
  <2>2. local'.user # NoUser => local'.user = local.user
    BY <1>4, TalkOnlyLoses
  <2>3. user' = user \/ (TalksToUser /\ user' = local.user)
    BY <1>4, TalkAndUser
  <2>4. QED
    BY <2>1, <2>2, <2>3 DEF TalksToUser
<1>5. CASE Take
    BY <1>5 DEF Take, shownVars
<1>6. CASE End
    BY <1>6 DEF End, shownVars, TypeOK, LoopTypes, Connections
<1>7. CASE Publish
    BY <1>7 DEF Publish, UserShown
<1>8. QED
    BY <1>1, <1>2, <1>3, <1>4, <1>5, <1>6, <1>7, NextSteps

\* However connects, breaks and the servers' packets fall together, the user that the interface
\* shows is the one the client is connected as, or none: the Assert of current_user_id
\* (client.cpp:55) cannot fail.
THEOREM ShownUserIsTheConnectedOne == Spec => []ShownUserIsConnected
<1>1. Init => UsersAgree
    BY DEF Init, UsersAgree, ShownUserIsConnected
<1>2. TypeOK /\ NotYetConnected /\ UsersAgree /\ [Next]_vars => UsersAgree'
    BY UsersStayAgreed
<1>3. UsersAgree => ShownUserIsConnected
    BY DEF UsersAgree
<1>4. QED
    BY <1>1, <1>2, <1>3, ClientTypes, BeforeConnecting, PTL DEF Spec

-----------------------------------------------------------------------------
(* One user on all three connections *)

LEMMA ConnectsAsOneUser ==
    ASSUME TypeOK, NEW ok, Connect(ok),
           local.room # NoRoomConnection => local.room.as_user = local.user,
           local.market # NoUser => local.market = local.user
    PROVE  /\ local'.room # NoRoomConnection => local'.room.as_user = local'.user
           /\ local'.market # NoUser => local'.market = local'.user
<1> DEFINE As(c) == /\ c.room # NoRoomConnection => c.room.as_user = c.user
                    /\ c.market # NoUser => c.market = c.user
<1>1. local \in Connections /\ TakenTypes /\ As(local)
    BY DEF TypeOK, LoopTypes
<1>2. \A c \in Connections : As(c) => As(AfterRoom(c, ok))
    BY DEF AfterRoom, Connections
<1>3. \A c \in Connections : As(c) => As(AfterUser(c, ok))
  <2>1. SUFFICES ASSUME NEW c \in Connections, As(c) PROVE As(AfterUser(c, ok))
    OBVIOUS
  <2>2. CASE taken.user = NoUser
    BY <2>1, <2>2 DEF AfterUser
  <2>3. CASE taken.user # NoUser /\ c.user # NoUser
    BY <2>3 DEF AfterUser, WithoutUser
  <2>4. CASE taken.user # NoUser /\ c.user = NoUser
    \* Without a user there is no other connection that could have been left.
    <3>1. \A r \in [room : Rooms, as_user : Users] : r.as_user \in Users
      OBVIOUS
    <3>2. c.room = NoRoomConnection
      BY <2>1, <2>4, <3>1 DEF Connections
    <3>3. c.market = NoUser
      BY <2>1, <2>4
    <3>4. AfterUser(c, ok) = [c EXCEPT !.user = IF "user" \in ok THEN taken.user ELSE NoUser]
      BY <2>4 DEF AfterUser, WithoutUser
    <3>5. AfterUser(c, ok).room = c.room /\ AfterUser(c, ok).market = c.market
      BY <3>4 DEF Connections
    <3>6. QED
      BY <3>2, <3>3, <3>5
  <2>5. QED
    BY <2>2, <2>3, <2>4
<1>4. \A c \in Connections : As(c) => As(AfterMarket(c, ok))
    BY DEF AfterMarket, Connections
<1>5. \A c \in Connections : AfterRoom(c, ok) \in Connections /\ AfterUser(c, ok) \in Connections
    BY <1>1, ConnectsKeepType
<1>6. local' = AfterMarket(AfterUser(AfterRoom(local, ok), ok), ok)
    BY DEF Connect
<1> HIDE DEF As
<1>7. As(local')
    BY <1>1, <1>2, <1>3, <1>4, <1>5, <1>6
<1>8. QED
    BY <1>7 DEF As

LEMMA StaysOneUser ==
    ASSUME TypeOK, OneUser, [Next]_vars
    PROVE  OneUser'
<1> USE DEF OneUser
<1>1. CASE UNCHANGED vars
    BY <1>1 DEF vars, serverVars
<1>2. CASE MainLoop
    BY <1>2, MainLoopLeaves
<1>3. CASE \E ok \in SUBSET {"room", "user", "market"} : Connect(ok)
  <2>1. UNCHANGED user_lost /\ pc = "connect"
    BY <1>3 DEF Connect, Go
  <2>2. CASE ~user_lost
    BY <1>3, <2>1, <2>2, ConnectsAsOneUser
  <2>3. QED
    BY <2>1, <2>2
<1>4. CASE Talk
  <2>1. pc # "ended"
    BY <1>4, TalkLeaves
  <2>2. QED
    BY <1>4, <2>1, TalkOnlyLoses
<1>5. CASE Take
    BY <1>5 DEF Take, Go, serverVars
<1>6. CASE End
    BY <1>6 DEF End, Go
<1>7. CASE Publish
    BY <1>7 DEF Publish, Go, serverVars
<1>8. QED
    BY <1>1, <1>2, <1>3, <1>4, <1>5, <1>6, <1>7, NextSteps

\* Until the connection to the user server breaks, the client is in its room and at the market as
\* the user it is connected to, whichever connects of an iteration fail (net_client.cpp:738-840).
THEOREM ClientIsOneUser == Spec => []OneUser
<1>1. Init => OneUser
    BY DEF Init, OneUser, NoRoomConnection
<1>2. TypeOK /\ OneUser /\ [Next]_vars => OneUser'
    BY StaysOneUser
<1>3. QED
    BY <1>1, <1>2, ClientTypes, PTL DEF Spec

-----------------------------------------------------------------------------
(* Requests *)

\* What the network loop has taken is what is requested still.
TakenIsRequested ==
    /\ taken.user # NoUser => user_requested = taken.user
    /\ taken.room # NoRoom => room_requested = taken.room
    /\ taken.market => market_requested

LEMMA TakenStaysRequested ==
    ASSUME TakenIsRequested, [Next]_vars
    PROVE  TakenIsRequested'
<1> USE DEF TakenIsRequested
<1>1. CASE UNCHANGED vars
    BY <1>1 DEF vars, requestVars
<1>2. CASE MainLoop
  <2>1. taken' = taken
    BY <1>2, MainLoopLeaves
  <2>2. /\ user_requested # NoUser => user_requested' = user_requested
        /\ room_requested # NoRoom => room_requested' = room_requested
        /\ market_requested => market_requested'
    BY <1>2 DEF MainLoop, RequestUser, RequestRoom, RequestMarket, AskForAction, SetView, HandleResults,
                Quit, requestVars
  <2>3. QED
    BY <2>1, <2>2
<1>3. CASE Talk
    BY <1>3, TalkLeaves DEF requestVars
<1>4. CASE \E ok \in SUBSET {"room", "user", "market"} : Connect(ok)
    BY <1>4 DEF Connect, requestVars
<1>5. CASE Take
    BY <1>5 DEF Take, requestVars
<1>6. CASE End
    BY <1>6 DEF End, requestVars
<1>7. CASE Publish
    BY <1>7 DEF Publish, NothingTaken
<1>8. QED
    BY <1>1, <1>2, <1>3, <1>4, <1>5, <1>6, <1>7, NextSteps

LEMMA OnlyTakenIsWithdrawn ==
    ASSUME TakenIsRequested, [Next]_vars
    PROVE  /\ user_requested # NoUser /\ user_requested' # user_requested => taken.user = user_requested
           /\ room_requested # NoRoom /\ room_requested' # room_requested => taken.room = room_requested
           /\ market_requested /\ ~market_requested' => taken.market
<1>1. CASE UNCHANGED requestVars
    BY <1>1 DEF requestVars
<1>2. CASE UNCHANGED vars
    BY <1>1, <1>2 DEF vars
<1>3. CASE MainLoop
    BY <1>3 DEF MainLoop, RequestUser, RequestRoom, RequestMarket, AskForAction, SetView, HandleResults,
                Quit, requestVars
<1>4. CASE Talk
    BY <1>1, <1>4, TalkLeaves
<1>5. CASE (\E ok \in SUBSET {"room", "user", "market"} : Connect(ok)) \/ Take \/ End
    BY <1>1, <1>5 DEF Connect, Take, End
<1>6. CASE Publish
    BY <1>6 DEF Publish, StillRequested, TakenIsRequested
<1>7. QED
    BY <1>2, <1>3, <1>4, <1>5, <1>6, NextSteps

\* Whenever the player asks for a connection, the request is withdrawn only by an iteration of the
\* network loop that took it: the comment at net_client.cpp:894 ("otherwise [...] we would ignore
\* the request").
THEOREM NoRequestIsIgnored == Spec => RequestsAreServed
<1>1. Init => TakenIsRequested
    BY DEF Init, NothingTaken, TakenIsRequested
<1>2. TakenIsRequested /\ [Next]_vars => TakenIsRequested'
    BY TakenStaysRequested
<1>3. TakenIsRequested /\ [Next]_vars =>
        [ /\ user_requested # NoUser /\ user_requested' # user_requested => taken.user = user_requested
          /\ room_requested # NoRoom /\ room_requested' # room_requested => taken.room = room_requested
          /\ market_requested /\ ~market_requested' => taken.market ]_vars
    BY OnlyTakenIsWithdrawn
<1>4. QED
    BY <1>1, <1>2, <1>3, PTL DEF Spec, RequestsAreServed

-----------------------------------------------------------------------------
(* Actions and the room they were asked for in *)

LEMMA RoomAfterConnects ==
    ASSUME TypeOK, NEW ok, Connect(ok)
    PROVE  /\ \/ local'.room = local.room \/ local'.room = NoRoomConnection \/ "room" \in ok
           /\ local'.room # NoRoomConnection /\ taken.room # NoRoom /\ local.user # NoUser => "room" \in ok
           /\ "room" \in ok => taken.room # NoRoom /\ local.user # NoUser
<1>1. local \in Connections /\ TakenTypes
    BY DEF TypeOK, LoopTypes
<1> DEFINE c == AfterRoom(local, ok)
<1>2. c \in Connections
    BY <1>1, ConnectsKeepType
<1>3. /\ c.room = local.room \/ c.room = NoRoomConnection \/ "room" \in ok
      /\ c.room # NoRoomConnection /\ taken.room # NoRoom /\ local.user # NoUser => "room" \in ok
    BY <1>1 DEF AfterRoom, Connections
<1> HIDE DEF c
<1>4. AfterUser(c, ok) \in Connections
    BY <1>1, <1>2, ConnectsKeepType
<1>5. AfterUser(c, ok).room = c.room \/ AfterUser(c, ok).room = NoRoomConnection
    BY <1>2 DEF AfterUser, WithoutUser, Connections
<1>6. AfterMarket(AfterUser(c, ok), ok).room = AfterUser(c, ok).room
    BY <1>4 DEF AfterMarket, Connections
<1>7. local' = AfterMarket(AfterUser(c, ok), ok)
    BY DEF Connect, c
<1>8. "room" \in ok => taken.room # NoRoom /\ local.user # NoUser
    BY DEF Connect
<1>9. QED
    BY <1>3, <1>5, <1>6, <1>7, <1>8

\* Asked for in the room the client is connected to, or too late.
FitsRoom(action) == action.late \/ action.room = con.room.room \/ con.room = NoRoomConnection

ActionsFit ==
    /\ local.room # NoRoomConnection /\ "room" \notin did_connect => local.room = con.room
    /\ "room" \in did_connect => taken.room # NoRoom
    /\ OnItsWay => \A i \in DOMAIN room_actions : room_actions[i].late
    /\ \A i \in DOMAIN room_actions : FitsRoom(room_actions[i])
    /\ pc \in {"connect", "write_room"} => \A i \in DOMAIN taken.actions : FitsRoom(taken.actions[i])

LEMMA ActionAskedFits ==
    ASSUME TypeOK, ActionsFit, AskForAction
    PROVE  ActionsFit'
<1>1. UNCHANGED <<con, pc, taken, did_connect, local>>
    BY DEF AskForAction, threadVars
<1>2. PICK type : room_actions' = Append(room_actions, [id |-> asked', type |-> type,
                                                        room |-> con.room.room, late |-> OnItsWay])
    BY DEF AskForAction
<1>3. room_actions \in Seq(Action)
    BY DEF TypeOK, AskedTypes
<1>4. \A i \in DOMAIN room_actions' :
          \/ i \in DOMAIN room_actions /\ room_actions'[i] = room_actions[i]
          \/ room_actions'[i].room = con.room.room /\ room_actions'[i].late = OnItsWay
    BY <1>2, <1>3
<1>5. \A i \in DOMAIN room_actions' : FitsRoom(room_actions'[i])
    BY <1>4 DEF ActionsFit, FitsRoom
<1>6. OnItsWay => \A i \in DOMAIN room_actions' : room_actions'[i].late
    BY <1>4 DEF ActionsFit
<1>7. OnItsWay' = OnItsWay
    BY <1>1 DEF OnItsWay
<1>8. QED
    BY <1>1, <1>5, <1>6, <1>7 DEF ActionsFit, FitsRoom

LEMMA ActionsStayFit ==
    ASSUME TypeOK, NotYetConnected, ActionsFit, [Next]_vars
    PROVE  ActionsFit'
<1> USE DEF ActionsFit, FitsRoom, OnItsWay
<1>1. CASE UNCHANGED vars
    BY <1>1 DEF vars, actionVars
<1>2. CASE AskForAction
    BY <1>2, ActionAskedFits
<1>3. CASE MainLoop /\ ~AskForAction
  <2>1. UNCHANGED <<con, pc, taken, did_connect, local>>
    BY <1>3, MainLoopLeaves
  <2>2. room_actions' = room_actions
    BY <1>3 DEF MainLoop, RequestUser, RequestRoom, RequestMarket, SetView, HandleResults, Quit, actionVars
  <2>3. QED
    BY <2>1, <2>2
<1>4. CASE \E ok \in SUBSET {"room", "user", "market"} : Connect(ok)
  <2>1. PICK ok : Connect(ok)
    BY <1>4
  <2>2. UNCHANGED <<con, taken, room_actions>> /\ did_connect = {} /\ did_connect' = ok /\ pc = "connect"
    BY <2>1 DEF Connect, Go, actionVars, NotYetConnected
  <2>3. local'.room # NoRoomConnection /\ "room" \notin did_connect' => local'.room = con'.room
    BY <2>1, <2>2, RoomAfterConnects
  <2>4. "room" \in did_connect' => taken'.room # NoRoom
    BY <2>1, <2>2, RoomAfterConnects
  <2>5. QED
    BY <2>2, <2>3, <2>4
<1>5. CASE Talk
  <2>1. UNCHANGED <<con, taken, did_connect, room_actions>>
    BY <1>5, TalkLeaves
  <2>2. local'.room = local.room \/ local'.room = NoRoomConnection
    BY <1>5, TalkOnlyLoses
  <2>3. pc \notin {"take", "ended"} /\ (pc' \in {"connect", "write_room"} => pc = "write_room")
    BY <1>5, TalkLeaves
  <2>4. QED
    BY <2>1, <2>2, <2>3
<1>6. CASE Take
  <2>1. room_actions' = <<>> /\ taken'.actions = room_actions /\ con' = con /\ local' = local
        /\ did_connect = {} /\ did_connect' = {}
    BY <1>6 DEF Take, Go, ActionsLeft, NotYetConnected
  <2>2. QED
    BY <2>1
<1>7. CASE End
  <2>1. UNCHANGED <<room_actions, con, taken, did_connect>> /\ pc' = "ended"
    BY <1>7 DEF End, Go, actionVars
  <2>2. local'.room = NoRoomConnection
    BY <1>7 DEF End, TypeOK, LoopTypes, Connections
  <2>3. QED
    BY <2>1, <2>2
<1>8. CASE Publish
  <2>1. UNCHANGED room_actions /\ con' = local /\ local' = local /\ did_connect' = {} /\ pc' = "take"
        /\ pc = "publish"
    BY <1>8 DEF Publish, Go, actionVars
  <2>2. CASE "room" \in did_connect
    BY <2>1, <2>2
  <2>3. CASE "room" \notin did_connect
    BY <2>1, <2>3
  <2>4. QED
    BY <2>2, <2>3
<1>9. QED
    BY <1>1, <1>2, <1>3, <1>4, <1>5, <1>6, <1>7, <1>8, NextSteps

\* An action reaches a room it was not asked for in only if it was asked for while the network loop
\* was connecting to that room: it does not talk on a connection it made in the same iteration.
THEOREM StraysAreLate == Spec => []OnlyLateActionsStray
<1>1. Init => ActionsFit
    BY DEF Init, NothingTaken, ActionsFit, OnItsWay
<1>2. TypeOK /\ NotYetConnected /\ ActionsFit /\ [Next]_vars => ActionsFit'
    BY ActionsStayFit
<1>3. ActionsFit => OnlyLateActionsStray
    BY DEF ActionsFit, FitsRoom, OnlyLateActionsStray, TalksToRoom
<1>4. QED
    BY <1>1, <1>2, <1>3, ClientTypes, BeforeConnecting, PTL DEF Spec

-----------------------------------------------------------------------------
(* Actions are sent once *)

Ascending(actions) == \A i, j \in DOMAIN actions : i < j => actions[i].id < actions[j].id

Between(actions, low, high) == \A i \in DOMAIN actions : low < actions[i].id /\ actions[i].id <= high

\* Sent, then taken, then queued: in the order in which they were asked for.
InOrder ==
    /\ last_sent <= asked
    /\ Ascending(room_actions) /\ Between(room_actions, last_sent, asked)
    /\ pc \in {"connect", "write_room"} =>
          /\ Ascending(taken.actions) /\ Between(taken.actions, last_sent, asked)
          /\ \A i \in DOMAIN taken.actions, j \in DOMAIN room_actions : taken.actions[i].id < room_actions[j].id

LEMMA IdsAreNumbers ==
    ASSUME NEW actions \in Seq(Action)
    PROVE  \A i \in DOMAIN actions : actions[i].id \in Nat
<1>1. \A i \in DOMAIN actions : actions[i] \in Action
    OBVIOUS
<1>2. \A a \in Action : a.id \in 1..MaxActions
    BY DEF Action
<1>3. QED
    BY <1>1, <1>2

LEMMA AskedInOrder ==
    ASSUME TypeOK, InOrder, AskForAction
    PROVE  InOrder'
<1>1. UNCHANGED <<pc, taken, last_sent>> /\ asked' = asked + 1
    BY DEF AskForAction, threadVars, serverVars
<1>2. asked \in Nat /\ last_sent \in Nat
    BY DEF TypeOK, AskedTypes, ServerTypes
<1>3. PICK type : room_actions' = Append(room_actions, [id |-> asked', type |-> type,
                                                        room |-> con.room.room, late |-> OnItsWay])
    BY DEF AskForAction
<1>4. room_actions \in Seq(Action) /\ taken.actions \in Seq(Action)
    BY DEF TypeOK, AskedTypes, TakenTypes
<1>5. \A i \in DOMAIN room_actions' :
          \/ i \in DOMAIN room_actions /\ room_actions'[i] = room_actions[i]
          \/ i = Len(room_actions) + 1 /\ room_actions'[i].id = asked + 1
    BY <1>1, <1>3, <1>4
<1>6. \A i \in DOMAIN room_actions : room_actions[i].id \in Nat
    BY <1>4, IdsAreNumbers
<1>7. \A i \in DOMAIN taken.actions : taken.actions[i].id \in Nat
    BY <1>4, IdsAreNumbers
<1>8. Ascending(room_actions) /\ Between(room_actions, last_sent, asked) /\ last_sent <= asked
    BY DEF InOrder
<1>9. Ascending(room_actions')
  <2>1. SUFFICES ASSUME NEW i \in DOMAIN room_actions', NEW j \in DOMAIN room_actions', i < j
                 PROVE  room_actions'[i].id < room_actions'[j].id
    BY DEF Ascending
  <2>2. i \in DOMAIN room_actions /\ room_actions'[i] = room_actions[i]
    BY <1>3, <1>4, <1>5, <2>1
  <2>3. room_actions[i].id \in Nat /\ room_actions[i].id <= asked
    BY <1>6, <1>8, <2>2 DEF Between
  <2>4. CASE j \in DOMAIN room_actions /\ room_actions'[j] = room_actions[j]
    BY <1>8, <2>1, <2>2, <2>4 DEF Ascending
  <2>5. CASE room_actions'[j].id = asked + 1
    BY ONLY <1>2, <2>2, <2>3, <2>5
  <2>6. QED
    BY <1>5, <2>4, <2>5
<1>10. Between(room_actions', last_sent, asked + 1)
  <2>1. SUFFICES ASSUME NEW i \in DOMAIN room_actions'
                 PROVE  last_sent < room_actions'[i].id /\ room_actions'[i].id <= asked + 1
    BY DEF Between
  <2>2. CASE i \in DOMAIN room_actions /\ room_actions'[i] = room_actions[i]
    <3>1. room_actions[i].id \in Nat /\ last_sent < room_actions[i].id /\ room_actions[i].id <= asked
      BY <1>6, <1>8, <2>2 DEF Between
    <3>2. QED
      BY ONLY <1>2, <2>2, <3>1
  <2>3. CASE room_actions'[i].id = asked + 1
    BY ONLY <1>2, <1>8, <2>3
  <2>4. QED
    BY <1>5, <2>2, <2>3
<1>11. ASSUME pc \in {"connect", "write_room"}
       PROVE  /\ Ascending(taken.actions) /\ Between(taken.actions, last_sent, asked + 1)
              /\ \A i \in DOMAIN taken.actions, j \in DOMAIN room_actions' :
                    taken.actions[i].id < room_actions'[j].id
  <2>1. Ascending(taken.actions) /\ Between(taken.actions, last_sent, asked)
    BY <1>11 DEF InOrder
  <2>2. ASSUME NEW i \in DOMAIN taken.actions
        PROVE  last_sent < taken.actions[i].id /\ taken.actions[i].id < asked + 1 /\ taken.actions[i].id <= asked + 1
    <3>1. taken.actions[i].id \in Nat /\ last_sent < taken.actions[i].id /\ taken.actions[i].id <= asked
      BY <1>7, <2>1 DEF Between
    <3>2. QED
      BY ONLY <1>2, <3>1
  <2>3. ASSUME NEW i \in DOMAIN taken.actions, NEW j \in DOMAIN room_actions'
        PROVE  taken.actions[i].id < room_actions'[j].id
    <3>1. CASE j \in DOMAIN room_actions /\ room_actions'[j] = room_actions[j]
      BY <1>11, <3>1 DEF InOrder
    <3>2. CASE room_actions'[j].id = asked + 1
      BY <2>2, <3>2
    <3>3. QED
      BY <1>5, <3>1, <3>2
  <2>4. QED
    BY <2>1, <2>2, <2>3 DEF Between
<1>12. last_sent <= asked + 1
    BY <1>2, <1>8
<1>13. QED
    BY <1>1, <1>9, <1>10, <1>11, <1>12 DEF InOrder

LEMMA SentInOrder ==
    ASSUME TypeOK, InOrder, WriteRoom
    PROVE  InOrder'
<1>1. UNCHANGED <<room_actions, asked, taken>> /\ pc = "write_room"
    BY DEF WriteRoom, actionVars, mainVars, boundVars
<1>2. CASE last_sent' = last_sent /\ pc' = pc
    BY <1>1, <1>2 DEF InOrder
<1>3. CASE last_sent' = last_sent /\ pc' = "read_room"
    BY <1>1, <1>3 DEF InOrder
<1>4. CASE taken.actions # <<>> /\ last_sent' = taken.actions[Len(taken.actions)].id /\ pc' = "read_room"
  <2>1. taken.actions \in Seq(Action) /\ taken.actions # <<>>
    BY <1>4 DEF TypeOK, TakenTypes
  <2>2. Len(taken.actions) \in DOMAIN taken.actions
    BY <2>1
  <2>3. last_sent' <= asked
    BY <1>1, <1>4, <2>2 DEF InOrder, Between
  <2>4. \A j \in DOMAIN room_actions : last_sent' < room_actions[j].id /\ room_actions[j].id <= asked
    BY <1>1, <1>4, <2>2 DEF InOrder, Between
  <2>5. QED
    BY <1>1, <1>4, <2>3, <2>4 DEF InOrder, Between
<1>5. QED
    BY <1>2, <1>3, <1>4 DEF WriteRoom

LEMMA StaysInOrder ==
    ASSUME TypeOK, InOrder, [Next]_vars
    PROVE  InOrder'
<1>1. CASE UNCHANGED <<last_sent, asked, room_actions, taken>> /\ (pc' \in {"connect", "write_room"} => pc \in {"connect", "write_room"})
    BY <1>1 DEF InOrder
<1>2. CASE UNCHANGED vars
    BY <1>1, <1>2 DEF vars, serverVars, boundVars, actionVars
<1>3. CASE AskForAction
    BY <1>3, AskedInOrder
<1>4. CASE MainLoop /\ ~AskForAction
  <2>1. UNCHANGED <<pc, taken, last_sent>>
    BY <1>4, MainLoopLeaves
  <2>2. room_actions' = room_actions
    BY <1>4 DEF MainLoop, RequestUser, RequestRoom, RequestMarket, SetView, HandleResults, Quit, actionVars
  <2>3. asked' \in {asked, asked + 1}
    BY <1>4 DEF MainLoop, RequestUser, RequestRoom, RequestMarket, SetView, HandleResults, Quit, boundVars
  <2>4. asked \in Nat /\ last_sent \in Nat
    BY DEF TypeOK, AskedTypes, ServerTypes
  <2>5. \A i \in DOMAIN room_actions : room_actions[i].id \in Nat
    BY IdsAreNumbers DEF TypeOK, AskedTypes
  <2>6. \A i \in DOMAIN taken.actions : taken.actions[i].id \in Nat
    <3>1. taken.actions \in Seq(Action)
      BY DEF TypeOK, TakenTypes
    <3>2. QED
      BY <3>1, IdsAreNumbers
  <2>7. asked <= asked' /\ asked' \in Nat
    BY <2>3, <2>4
  <2>8. \A actions : (\A i \in DOMAIN actions : actions[i].id \in Nat) /\ Between(actions, last_sent, asked)
                        => Between(actions, last_sent, asked')
    BY <2>4, <2>7 DEF Between
  <2>9. last_sent <= asked'
    BY <2>4, <2>7 DEF InOrder
  <2>10. QED
    BY <2>1, <2>2, <2>5, <2>6, <2>8, <2>9 DEF InOrder
<1>5. CASE \E ok \in SUBSET {"room", "user", "market"} : Connect(ok)
    BY <1>1, <1>5 DEF Connect, Go, actionVars, mainVars, boundVars
<1>6. CASE WriteRoom
    BY <1>6, SentInOrder
<1>7. CASE Talk /\ ~WriteRoom
  <2>1. UNCHANGED <<asked, room_actions, taken>> /\ (pc' \in {"connect", "write_room"} => pc = "write_room")
    BY <1>7, TalkLeaves
  <2>2. last_sent' = last_sent
    BY <1>7 DEF Talk, ReadRoomInit, ReadResult, LoseRoom, NoMoreFromRoom, ReadUserInit, LoseUser,
                NoMoreFromUser, MarketAnswers, MarketChanges, LoseMarket, NoMoreFromMarket, Fails, serverVars
  <2>3. QED
    BY <1>1, <2>1, <2>2
<1>8. CASE Take
  <2>1. taken'.actions = room_actions /\ room_actions' = <<>> /\ UNCHANGED <<last_sent, asked>>
    BY <1>8 DEF Take, ActionsLeft, serverVars, mainVars, boundVars
  <2>2. QED
    BY <2>1 DEF InOrder, Ascending, Between
<1>9. CASE End \/ Publish
  <2>1. UNCHANGED <<last_sent, asked, room_actions>> /\ pc' \in {"take", "ended"}
    BY <1>9 DEF End, Publish, Go, actionVars, mainVars, boundVars, serverVars
  <2>2. QED
    BY <2>1 DEF InOrder
<1>10. QED
    BY <1>2, <1>3, <1>4, <1>5, <1>6, <1>7, <1>8, <1>9, NextSteps

\* However many actions the player asks for while the network loop is at work, none is sent twice:
\* the queue is emptied under the mutex under which it is copied (net_client.cpp:717-719).
THEOREM NoActionGoesTwice == Spec => []ActionsGoOnce
<1>1. Init => InOrder
    BY DEF Init, NothingTaken, InOrder, Ascending, Between
<1>2. TypeOK /\ InOrder /\ [Next]_vars => InOrder'
    BY StaysInOrder
<1>3. TypeOK /\ InOrder => ActionsGoOnce
  <2>1. ASSUME TypeOK, NEW actions \in Seq(Action), Between(actions, last_sent, asked)
        PROVE  \A i \in DOMAIN actions : actions[i].id > last_sent
    <3>1. last_sent \in Nat
      BY <2>1 DEF TypeOK, ServerTypes
    <3>2. \A i \in DOMAIN actions : actions[i].id \in Nat
      BY <2>1, IdsAreNumbers
    <3>3. QED
      BY <2>1, <3>1, <3>2 DEF Between
  <2>2. TypeOK => room_actions \in Seq(Action) /\ taken.actions \in Seq(Action)
    BY DEF TypeOK, AskedTypes, TakenTypes
  <2>3. QED
    BY <2>1, <2>2 DEF InOrder, ActionsGoOnce
<1>4. QED
    BY <1>1, <1>2, <1>3, ClientTypes, PTL DEF Spec

-----------------------------------------------------------------------------
(* Results *)

\* What the room server has still to answer the client still waits for, and the client's room is
\* empty before the room server has initialized it.
ResultsAgree ==
    /\ ResultsAreKnown
    /\ unanswered \subseteq pending
    /\ "room" \in did_connect => unanswered = {}
    /\ local.room # NoRoomConnection /\ "room" \notin did_connect /\ ~inited => player = NoUser

LEMMA ResultsAfterConnects ==
    ASSUME TypeOK, NotYetConnected, ResultsAgree, NEW ok, Connect(ok)
    PROVE  ResultsAgree'
<1>1. UNCHANGED <<player, pending, failed>> /\ did_connect = {} /\ did_connect' = ok
    BY DEF Connect, Go, shownVars, NotYetConnected
<1>2. "room" \in ok => unanswered' = {}
    BY DEF Connect
<1>3. unanswered' \subseteq unanswered
    BY DEF Connect
<1>4. CASE local'.room # NoRoomConnection /\ "room" \notin ok
  <2>1. local'.room = local.room /\ ~(taken.room # NoRoom /\ local.user # NoUser)
    BY <1>4, RoomAfterConnects
  <2>2. inited' = inited
    BY <2>1 DEF Connect, TypeOK, ServerTypes
  <2>3. QED
    BY <1>1, <1>2, <1>3, <1>4, <2>1, <2>2 DEF ResultsAgree, ResultsAreKnown
<1>5. CASE ~(local'.room # NoRoomConnection /\ "room" \notin ok)
    BY <1>1, <1>2, <1>3, <1>5 DEF ResultsAgree, ResultsAreKnown
<1>6. QED
    BY <1>4, <1>5

LEMMA ResultsAfterTalk ==
    ASSUME TypeOK, ResultsAgree, Talk
    PROVE  ResultsAgree'
<1> USE DEF ResultsAgree, ResultsAreKnown
<1>1. did_connect' = did_connect
    BY TalkLeaves
<1>2. local'.room = local.room \/ local'.room = NoRoomConnection
    BY TalkOnlyLoses
<1>3. CASE UNCHANGED <<pending, unanswered, inited, player, failed>>
    BY <1>1, <1>2, <1>3
<1>4. CASE WriteRoom
  <2>1. UNCHANGED <<player, inited, local>> /\ failed' # "result unknown" /\ failed' # "room not empty"
    BY <1>4 DEF WriteRoom
  <2>2. CASE UNCHANGED <<pending, unanswered>>
    BY <1>1, <2>1, <2>2
  <2>3. CASE pending' = pending \cup PlayerActionIds /\ unanswered' = unanswered \cup PlayerActionIds
             /\ "room" \notin did_connect
    BY <1>1, <2>1, <2>3
  <2>4. QED
    BY <1>4, <2>2, <2>3 DEF WriteRoom, TalksToRoom
<1>5. CASE ReadRoomInit
    BY <1>1, <1>2, <1>5 DEF ReadRoomInit, TalksToRoom
<1>6. CASE ReadResult
    BY <1>1, <1>2, <1>6 DEF ReadResult, TalksToRoom, Fails
<1>7. CASE LoseRoom
  <2>1. UNCHANGED <<pending, player, failed>> /\ unanswered' = {}
    BY <1>7 DEF LoseRoom, shownVars
  <2>2. local'.room = NoRoomConnection
    BY <1>7 DEF LoseRoom, TypeOK, LoopTypes, Connections
  <2>3. QED
    BY <1>1, <2>1, <2>2
<1>8. CASE ReadUserInit \/ LoseUser \/ NoMoreFromUser \/ NoMoreFromRoom
    BY <1>3, <1>8 DEF ReadUserInit, LoseUser, NoMoreFromUser, NoMoreFromRoom, shownVars, serverVars
<1>9. CASE MarketAnswers \/ MarketChanges \/ LoseMarket \/ NoMoreFromMarket
    BY <1>3, <1>9 DEF MarketAnswers, MarketChanges, LoseMarket, NoMoreFromMarket, shownVars, serverVars
<1>10. QED
    BY <1>4, <1>5, <1>6, <1>7, <1>8, <1>9 DEF Talk

LEMMA ResultsStayAgreed ==
    ASSUME TypeOK, NotYetConnected, ResultsAgree, [Next]_vars
    PROVE  ResultsAgree'
<1> USE DEF ResultsAgree, ResultsAreKnown
<1>1. CASE UNCHANGED vars
    BY <1>1 DEF vars, shownVars, serverVars
<1>2. CASE MainLoop
    BY <1>2, MainLoopLeaves
<1>3. CASE \E ok \in SUBSET {"room", "user", "market"} : Connect(ok)
    BY <1>3, ResultsAfterConnects
<1>4. CASE Talk
    BY <1>4, ResultsAfterTalk
<1>5. CASE Take
    BY <1>5 DEF Take, shownVars, serverVars
<1>6. CASE End
  <2>1. local'.room = NoRoomConnection
    BY <1>6 DEF End, TypeOK, LoopTypes, Connections
  <2>2. QED
    BY <1>6, <2>1 DEF End, shownVars, serverVars
<1>7. CASE Publish
  <2>1. UNCHANGED <<unanswered, inited, local, failed>> /\ did_connect' = {}
    BY <1>7 DEF Publish, serverVars
  <2>2. CASE "room" \in did_connect
    BY <1>7, <2>1, <2>2 DEF Publish
  <2>3. CASE "room" \notin did_connect
    BY <1>7, <2>1, <2>3 DEF Publish
  <2>4. QED
    BY <2>2, <2>3
<1>8. QED
    BY <1>1, <1>2, <1>3, <1>4, <1>5, <1>6, <1>7, NextSteps

\* The result that a room server sends is that of an operation the client waits for, and the room it
\* initializes is empty: the Asserts of talk_to_room_server about what it reads cannot fail.
THEOREM EveryResultIsKnown == Spec => []ResultsAreKnown
<1>1. Init => ResultsAgree
    BY DEF Init, NoRoomConnection, ResultsAgree, ResultsAreKnown
<1>2. TypeOK /\ NotYetConnected /\ ResultsAgree /\ [Next]_vars => ResultsAgree'
    BY ResultsStayAgreed
<1>3. ResultsAgree => ResultsAreKnown
    BY DEF ResultsAgree
<1>4. QED
    BY <1>1, <1>2, <1>3, ClientTypes, BeforeConnecting, PTL DEF Spec

=============================================================================
