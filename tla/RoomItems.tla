----------------------------- MODULE RoomItems -----------------------------
(***************************************************************************)
(* Items passing between a room and the inventory of their owner           *)
(* (room_server.cpp): PLAYER_ACT_PLACE_FROM_INVENTORY makes an entity of   *)
(* an item, ENTITY_ACT_PLACE_IN_INVENTORY turns an entity back into an     *)
(* item.  The room server is one thread: while it waits for a vote nothing *)
(* else happens in any of its rooms.                                       *)
(*                                                                         *)
(* A room is the bag of its item entities, each with the owner its item    *)
(* names: the user whose inventory it came from.  Where entities stand is  *)
(* left out, so whether one fits and whether one can be moved are          *)
(* nondeterministic choices.  An entity that is scheduled for destruction  *)
(* is gone at once: find_entity does not find it any more.  Player         *)
(* entities, and what machines and plants make, are not in the bag.        *)
(***************************************************************************)
EXTENDS Coordinator

CONSTANTS
    InitialEntities,            \* what a room may hold at first
    MAX_ENTITIES_PER_ROOM

VARIABLES entities      \* [Item \X Users -> Nat]: how many entities hold this item of this owner

ASSUME MaxEntitiesAssumption == MAX_ENTITIES_PER_ROOM \in Nat
ASSUME InitialEntitiesAssumption == InitialEntities \subseteq [Item \X Users -> Nat]

NumEntities == MapThenSumSet(LAMBDA e : entities[e], Item \X Users)

RoomInit == entities \in InitialEntities

\* RSB_PLAYER_ACTION with PLAYER_ACT_PLACE_FROM_INVENTORY, up to the prepare.
PlaceFromInventory(u, it) ==
    /\ NumEntities < MAX_ENTITIES_PER_ROOM
    /\ Begin(RoomServer, FromInventory(u, it))
    /\ UNCHANGED entities

\* ENTITY_ACT_PLACE_IN_INVENTORY, and the second step of ENTITY_ACT_MOVE, which does the
\* same: only an item's owner may take it (world_shared.cpp:1655, 1774).
PlaceInInventory(u, it) ==
    /\ entities[<<it, u>>] > 0
    /\ Begin(RoomServer, ToInventory(u, it))
    /\ UNCHANGED entities

\* The entity is created whenever the decision is to commit, sent or not; the item is the
\* one in the vote.
FinishFromInventory(fits, sent) ==
    LET it     == session[RoomServer]
        commit == it.can_commit /\ fits
    IN  /\ ~Idle(RoomServer)
        /\ it.purpose.kind = "FROM_INVENTORY"
        /\ DecideFirstLeg(RoomServer, commit, sent)
        /\ entities' = IF commit THEN [entities EXCEPT ![<<it.item, it.purpose.user>>] = @ + 1] ELSE entities

\* Mutants: the entity goes whatever was decided; a decision that cannot be sent is not given up.
FinishToInventory_AlwaysRemoves(sent) ==
    LET it == session[RoomServer]
    IN  /\ ~Idle(RoomServer)
        /\ it.purpose.kind = "TO_INVENTORY"
        /\ DecideFirstLeg(RoomServer, it.can_commit, sent)
        /\ entities' = [entities EXCEPT ![<<it.purpose.item, it.purpose.user>>] = @ - 1]
FinishToInventory_OnlySent(sent) ==
    LET it == session[RoomServer]
    IN  /\ ~Idle(RoomServer)
        /\ it.purpose.kind = "TO_INVENTORY"
        /\ sent
        /\ DecideFirstLeg(RoomServer, it.can_commit, sent)
        /\ entities' = IF it.can_commit
                       THEN [entities EXCEPT ![<<it.purpose.item, it.purpose.user>>] = @ - 1] ELSE entities

\* place_item_entity_in_inventory ends, and schedule_for_destruction: the entity goes if the commit could be sent.
FinishToInventory(sent) ==
    LET it == session[RoomServer]
    IN  /\ ~Idle(RoomServer)
        /\ it.purpose.kind = "TO_INVENTORY"
        /\ DecideFirstLeg(RoomServer, it.can_commit, sent)
        /\ entities' = IF it.can_commit /\ sent
                       THEN [entities EXCEPT ![<<it.purpose.item, it.purpose.user>>] = @ - 1] ELSE entities

RoomTurn ==
    \/ CoordinatorStep(RoomServer) /\ UNCHANGED entities
    \/ \E u \in Users, it \in Items : PlaceFromInventory(u, it) \/ PlaceInInventory(u, it)
    \/ \E fits, sent \in BOOLEAN : FinishFromInventory(fits, sent)
    \/ \E sent \in BOOLEAN : FinishToInventory(sent)

=============================================================================
