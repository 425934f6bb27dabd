---------------------------- MODULE RoomActions ----------------------------
(***************************************************************************)
(* The action queues of the players of a room (room_server.cpp) and what   *)
(* the actions at their heads do to the entities they are about: an entity *)
(* may be held by a player, and a bed or a chair is locked by the player   *)
(* who is on it.                                                           *)
(*                                                                         *)
(* The room server is one thread.  Its procedures call each other in turns *)
(* (a dequeue begins the next action, which may be over at once and be     *)
(* dequeued, or take the path of another player, whose action is dequeued  *)
(* and so on), so a handler is more than one step here: what it has still  *)
(* to call is on the stack todo, and nothing else happens until that is    *)
(* empty.                                                                  *)
(*                                                                         *)
(* Times are abstracted to phases of the action at the head of the queue.  *)
(* Geometry is abstracted to choices: whether there is a path and whether  *)
(* it takes time, whether an entity fits, whether a place to get up to is  *)
(* free.  USE_TOILET is like SLEEP; the entity actions that neither move   *)
(* nor lock anything (water, power, chess) are like WALK.                  *)
(***************************************************************************)
EXTENDS Naturals, Sequences, FiniteSets

CONSTANTS
    Players,
    Boxes, Beds, Chairs,    \* the item entities of the room, by what can be done with them
    Owner,                  \* item.owner
    NoEntity, NoPlayer,     \* NO_ENTITY
    QueueLength,            \* ARRLEN(action_queue)
    MaxActions,             \* how many actions may be enqueued
    MaxPauses,              \* how many pauses there may be at a time
    ActionTypes             \* what players ask for

Entities == Boxes \cup Beds \cup Chairs

Types == {"WALK", "PICK_UP", "PUT_DOWN", "PLACE_IN_INVENTORY", "SIT", "UNSIT", "SLEEP"}

ASSUME RoomActionsAssumption ==
    /\ NoEntity \notin Entities /\ NoPlayer \notin Players
    /\ Boxes \cap Beds = {} /\ Boxes \cap Chairs = {} /\ Beds \cap Chairs = {}
    /\ Owner \in [Entities -> Players]
    /\ QueueLength \in Nat \ {0} /\ MaxActions \in Nat /\ MaxPauses \in Nat
    /\ ActionTypes \subseteq Types

VARIABLES
    queue,          \* player_e.action_queue, the part in use, with the ids
    action_ids,     \* player_e.action_ids: what is beyond the queue is what was there before
    pauses,         \* player_e.action_queue_pauses: pauses[p][i] is the pause after i actions
    next_id,        \* room->next_player_action_id_minus_one
    exists,         \* the entities that are in the room
    holding,        \* Entity::holding of a player
    held_by,        \* Entity::held_by of an item entity
    is_on,          \* player_e.is_on; on a bed the player lies, on a chair it sits
    locked_by,      \* item_e.locked_by
    todo,           \* the calls still to be made by what the server is doing
    aborted         \* an Assert has failed

queueVars  == <<queue, action_ids, pauses, next_id>>
entityVars == <<exists, holding, held_by, is_on, locked_by>>
vars       == <<queueVars, entityVars, todo, aborted>>

(***************************************************************************)
(* The phases of an action: it has not begun; its player is on the way     *)
(* (room->t < reach_t); it was not possible any more when its time came;   *)
(* it goes on until end_t; it could not be ended then (end_retry_t is set).*)
(***************************************************************************)
Phases == {"queued", "walking", "refused", "doing", "retrying"}

Targets == Entities \cup {NoEntity}

Action == [type : Types \cup {"MOVE"}, target : Targets, id : 1..MaxActions,
           phase : Phases, dequeue_requested : BOOLEAN]

Task ==      [call : {"begin_or_dequeue", "dequeue"}, player : Players]
        \cup [call : {"update_paths"}, players : SUBSET Players]
        \cup [call : {"enqueue"}, player : Players, type : Types, target : Targets,
              tried : {"nothing", "UNSIT", "SIT"}, depth : {0, 1}]

QueuesOK ==
    /\ queue \in [Players -> Seq(Action)]
    /\ \A p \in Players : Len(queue[p]) <= QueueLength
    /\ action_ids \in [Players -> [1..QueueLength -> 0..MaxActions]]
    /\ pauses \in [Players -> [0..QueueLength -> BOOLEAN]]
    /\ next_id \in 1..MaxActions + 1

EntitiesOK ==
    /\ exists \in SUBSET Entities
    /\ holding \in [Players -> Targets]
    /\ held_by \in [Entities -> Players \cup {NoPlayer}]
    /\ is_on \in [Players -> Targets]
    /\ locked_by \in [Entities -> Players \cup {NoPlayer}]

TypeOK ==
    /\ QueuesOK
    /\ EntitiesOK
    /\ todo \in Seq(Task)
    /\ aborted \in BOOLEAN

Init ==
    /\ queue = [p \in Players |-> <<>>]
    /\ action_ids = [p \in Players |-> [i \in 1..QueueLength |-> 0]]
    /\ pauses = [p \in Players |-> [i \in 0..QueueLength |-> FALSE]]
    /\ next_id = 1
    /\ exists = Entities
    /\ holding = [p \in Players |-> NoEntity]
    /\ held_by = [e \in Entities |-> NoPlayer]
    /\ is_on = [p \in Players |-> NoEntity]
    /\ locked_by = [e \in Entities |-> NoPlayer]
    /\ todo = <<>>
    /\ aborted = FALSE

\* An Assert fails.
Abort == aborted' = TRUE /\ UNCHANGED <<queueVars, entityVars, todo>>

-----------------------------------------------------------------------------
(***************************************************************************)
(* player_action_predicted_possible, as far as it does not depend on       *)
(* geometry or needs.  A state is what a player holds and sits on.         *)
(***************************************************************************)
StateOf(p) == [held |-> holding[p], sitting |-> IF is_on[p] \in Chairs THEN is_on[p] ELSE NoEntity]

\* entity_action_predicted_possible
EntityActionPossible(p, type, e, state) ==
    /\ e \in exists
    /\ held_by[e] \in {NoPlayer, p}
    /\ type \in {"PICK_UP", "MOVE", "PLACE_IN_INVENTORY"} => Owner[e] = p /\ locked_by[e] = NoPlayer
    /\ type \in {"PICK_UP", "MOVE"} => state.held = NoEntity
    /\ type = "SIT"   => e \in Chairs /\ held_by[e] # p /\ locked_by[e] = NoPlayer /\ state.sitting # e
    /\ type = "UNSIT" => e \in Chairs /\ held_by[e] # p /\ state.sitting = e
    /\ type = "SLEEP" => e \in Beds /\ held_by[e] # p /\ locked_by[e] = NoPlayer /\ state.held = NoEntity

Possible(p, type, e, state) ==
    CASE type = "WALK"     -> TRUE
      [] type = "PUT_DOWN" -> state.held # NoEntity
      [] OTHER             -> EntityActionPossible(p, type, e, state)

\* What is in the hand is not walked to; one gets up where one sits (TELEPORT).
HasToBeThere(p, type, e) == type # "UNSIT" /\ ~(type = "PLACE_IN_INVENTORY" /\ held_by[e] = p)

\* Who sits may act on what is in reach; but nobody sits down from another chair.
SeatAllows(type, state) == state.sitting = NoEntity \/ type # "SIT"

\* apply_actions_to_player_state, for an action that is possible
After(state, type, e) ==
    CASE type = "PICK_UP"  -> [state EXCEPT !.held = e]
      [] type = "PUT_DOWN" -> [state EXCEPT !.held = NoEntity]
      [] type = "PLACE_IN_INVENTORY" /\ state.held = e -> [state EXCEPT !.held = NoEntity]
      [] type = "SIT"      -> [state EXCEPT !.sitting = e]
      [] type = "UNSIT"    -> [state EXCEPT !.sitting = NoEntity]
      [] OTHER             -> state       \* MOVE: picked up and put down

\* What the player's state may be when the queue is done: an action that is not possible
\* by then is passed over.
Predictions(p) ==
    LET after[n \in 0..Len(queue[p])] ==
            IF n = 0 THEN {StateOf(p)}
            ELSE LET a == queue[p][n]
                     s == after[n - 1]
                 IN  s \cup {After(x, a.type, a.target) : x \in {y \in s : Possible(p, a.type, a.target, y)}}
    IN  after[Len(queue[p])]

-----------------------------------------------------------------------------
(* The queue *)

First(p) == queue[p][1]

Begin(p)   == [call |-> "begin_or_dequeue", player |-> p]
Dequeue(p) == [call |-> "dequeue", player |-> p]
Enqueue(p, type, e, depth) ==
    [call |-> "enqueue", player |-> p, type |-> type, target |-> e, tried |-> "nothing", depth |-> depth]
UpdatePaths(ps) == [call |-> "update_paths", players |-> ps]

\* Mutant: the pause behind the action is gone with it.
PausesWithout_Dropped(p, i) ==
    [k \in 0..QueueLength |->
        IF k >= i /\ k < Len(queue[p]) THEN pauses[p][k + 1] ELSE k # Len(queue[p]) /\ pauses[p][k]]
\* The pauses when action i is gone: those behind it move up by one, the next onto the one before it.
PausesWithout(p, i) ==
    [k \in 0..QueueLength |->
        CASE k = i - 1                   -> pauses[p][k] \/ pauses[p][k + 1]
          [] k >= i /\ k < Len(queue[p]) -> pauses[p][k + 1]
          [] k = Len(queue[p])           -> FALSE
          [] OTHER                       -> pauses[p][k]]

\* Mutant: the ids stay where they are.
IdsWithout_Kept(p, i) == action_ids[p]
\* The id of what was last stays where it was, too.
IdsWithout(p, i) ==
    [k \in 1..QueueLength |-> IF k >= i /\ k < Len(queue[p]) THEN action_ids[p][k + 1] ELSE action_ids[p][k]]

Without(s, i) == [k \in 1..Len(s) - 1 |-> IF k < i THEN s[k] ELSE s[k + 1]]

QueueWithout(p, i) == Without(queue[p], i)

\* Mutant: the next action waits until something else begins it.
NextToBegin_None(p, i) == <<>>
\* Whether the removal of action i makes another the first.
NextToBegin(p, i) ==
    IF i = 1 /\ Len(queue[p]) > 1 /\ ~PausesWithout(p, i)[0] THEN <<Begin(p)>> ELSE <<>>

\* dequeue_player_action
RemoveAction(p, i, rest) ==
    /\ queue' = [queue EXCEPT ![p] = QueueWithout(p, i)]
    /\ action_ids' = [action_ids EXCEPT ![p] = IdsWithout(p, i)]
    /\ pauses' = [pauses EXCEPT ![p] = PausesWithout(p, i)]
    /\ todo' = NextToBegin(p, i) \o rest
    /\ UNCHANGED next_id

SetPhase(p, phase, rest) ==
    /\ queue' = [queue EXCEPT ![p][1].phase = phase]
    /\ todo' = rest
    /\ UNCHANGED <<action_ids, pauses, next_id>>

-----------------------------------------------------------------------------
(* What actions do *)

\* set_held
TakeUp(p, e) ==
    /\ holding' = [holding EXCEPT ![p] = e]
    /\ held_by' = [held_by EXCEPT ![e] = p]

LetGo(p, e) ==
    /\ holding' = [holding EXCEPT ![p] = NoEntity]
    /\ held_by' = [held_by EXCEPT ![e] = NoPlayer]

\* Mutant: schedule_for_destruction leaves the entity in the hand.
Destroy_Held(p, e) == exists' = exists \ {e} /\ UNCHANGED <<holding, held_by>>
\* schedule_for_destruction, by a player who holds the entity or does not
Destroy(p, e) ==
    /\ exists' = exists \ {e}
    /\ IF held_by[e] = p THEN LetGo(p, e) ELSE UNCHANGED <<holding, held_by>>

\* lock_item_entity, by the player who gets on it
GetOn(p, e) ==
    /\ is_on' = [is_on EXCEPT ![p] = e]
    /\ locked_by' = [locked_by EXCEPT ![e] = p]

\* Mutant: the player stays on what it no longer locks.
GetOff_StaysOn(p, e) ==
    /\ is_on' = is_on
    /\ locked_by' = [locked_by EXCEPT ![e] = NoPlayer]
\* unlock_item_entity
GetOff(p, e) ==
    /\ is_on' = [is_on EXCEPT ![p] = NoEntity]
    /\ locked_by' = [locked_by EXCEPT ![e] = NoPlayer]

\* An entity has moved: the paths of all players are found again before the action is over.
OverAfterMove(p, rest) == SetPhase(p, "doing", <<UpdatePaths(Players), Dequeue(p)>> \o rest)

(* update_player_action at update_t, when the action is possible.  All but *)
(* SLEEP have no duration and are over at once.                            *)
Walk(p, rest) ==
    /\ First(p).type = "WALK"
    /\ RemoveAction(p, 1, rest)
    /\ UNCHANGED <<entityVars, aborted>>

\* PICK_UP and, so far, MOVE: picks up and sets off for { 0, 0, 0 }.  If that is where it is,
\* or if there is no path, it is over with the item in the hand; on the way update_t is after
\* end_t, and the deferred Assert fails.
PickUp(p, rest) ==
    /\ First(p).type \in {"PICK_UP", "MOVE"}
    /\ \/ /\ TakeUp(p, First(p).target)
          /\ OverAfterMove(p, rest)
          /\ UNCHANGED <<exists, is_on, locked_by, aborted>>
       \/ Abort

PutDown(p, rest) ==
    /\ First(p).type = "PUT_DOWN"
    /\ LetGo(p, holding[p])
    /\ OverAfterMove(p, rest)
    /\ UNCHANGED <<exists, is_on, locked_by, aborted>>

\* place_item_entity_in_inventory, which may fail (see RoomItems)
PlaceInInventory(p, rest) ==
    /\ First(p).type = "PLACE_IN_INVENTORY"
    /\ \/ UNCHANGED <<exists, holding, held_by>>
       \/ Destroy(p, First(p).target)
    /\ RemoveAction(p, 1, rest)
    /\ UNCHANGED <<is_on, locked_by, aborted>>

Sit(p, rest) ==
    /\ First(p).type = "SIT"
    /\ GetOn(p, First(p).target)
    /\ RemoveAction(p, 1, rest)
    /\ UNCHANGED <<exists, holding, held_by, aborted>>

Unsit(p, rest) ==
    /\ First(p).type = "UNSIT"
    /\ GetOff(p, First(p).target)
    /\ RemoveAction(p, 1, rest)
    /\ UNCHANGED <<exists, holding, held_by, aborted>>

FallAsleep(p, rest) ==
    /\ First(p).type = "SLEEP"
    /\ GetOn(p, First(p).target)
    /\ SetPhase(p, "doing", rest)
    /\ UNCHANGED <<exists, holding, held_by, aborted>>

PossibleNow(p) == Possible(p, First(p).type, First(p).target, StateOf(p))

Perform(p, rest) ==
    /\ PossibleNow(p)
    /\ SeatAllows(First(p).type, StateOf(p))
    /\ \/ Walk(p, rest)
       \/ PickUp(p, rest)
       \/ PutDown(p, rest)
       \/ PlaceInInventory(p, rest)
       \/ Sit(p, rest)
       \/ Unsit(p, rest)
       \/ FallAsleep(p, rest)

-----------------------------------------------------------------------------
(* The calls on the stack *)

\* What is left of a handler when the action it enqueued first could not begin: of the calls that
\* are still to be made, at most one is to enqueue an action.
WithoutEnqueue(p, rest) ==
    LET Given == {i \in DOMAIN rest : rest[i].call = "enqueue" /\ rest[i].player = p}
    IN  IF Given = {} THEN rest ELSE Without(rest, CHOOSE i \in Given : TRUE)

\* Mutant: the action that cannot begin stays.
CannotBegin_Stays(p, rest) == SetPhase(p, "queued", WithoutEnqueue(p, rest))
CannotBegin(p, rest) == RemoveAction(p, 1, WithoutEnqueue(p, rest))

\* begin_or_dequeue_first_player_action, and what enqueue_player_action_ does with its first
BeginOrDequeue(p, rest) ==
    \/ \* not possible, or no path
       /\ CannotBegin(p, rest)
       /\ UNCHANGED <<entityVars, aborted>>
    \/ \* sets off
       /\ PossibleNow(p)
       /\ HasToBeThere(p, First(p).type, First(p).target)
       /\ StateOf(p).sitting = NoEntity
       /\ SetPhase(p, "walking", rest)
       /\ UNCHANGED <<entityVars, aborted>>
    \/ Perform(p, rest)     \* is there already

\* A player who is still on the way may have no path any more, and loses the action.
PathsAreUpdated(players, rest) ==
    /\ \/ todo' = rest
       \/ \E p \in players :
             /\ queue[p] # <<>> /\ First(p).phase = "walking"
             /\ todo' = <<Dequeue(p), UpdatePaths(players \ {p})>> \o rest
    /\ UNCHANGED <<queueVars, entityVars, aborted>>

\* Mutant: one too many.
HasRoom_OneMore(p, depth) == Len(queue[p]) <= QueueLength - depth
\* Room is left for the action that needs this one done first.
HasRoom(p, depth) == Len(queue[p]) < QueueLength - depth

LastMerges(p, type) ==
    type = "PUT_DOWN" /\ queue[p] # <<>> /\ queue[p][Len(queue[p])].type = "PICK_UP"

\* PICK_UP and PUT_DOWN become MOVE, in place.
Merge(p, rest) ==
    /\ queue' = [queue EXCEPT ![p][Len(queue[p])].type = "MOVE"]
    /\ todo' = rest
    /\ UNCHANGED <<action_ids, pauses, next_id>>

AppendAction(p, type, e, rest) ==
    LET n == Len(queue[p]) IN
    /\ next_id <= MaxActions
    /\ queue' = [queue EXCEPT ![p] = Append(@, [type |-> type, target |-> e, id |-> next_id,
                                                phase |-> "queued", dequeue_requested |-> FALSE])]
    /\ next_id' = next_id + 1
    /\ action_ids' = [action_ids EXCEPT ![p][n + 1] = next_id]
    /\ pauses' = [pauses EXCEPT ![p][n + 1] = FALSE]
    /\ todo' = (IF n = 0 /\ ~pauses[p][0] THEN <<Begin(p)>> ELSE <<>>) \o rest

\* enqueue_player_action_, with what has to be done before the action
EnqueueAction(t, rest) ==
    LET p == t.player IN
    /\ \/ \* refused; what was enqueued before it stays
          /\ todo' = WithoutEnqueue(p, rest)
          /\ UNCHANGED queueVars
       \/ \E state \in Predictions(p) :
             /\ Possible(p, t.type, t.target, state)
             /\ \/ \* get up first
                   /\ t.depth = 0 /\ t.tried = "nothing"
                   /\ state.sitting \in Chairs
                   /\ HasToBeThere(p, t.type, t.target)
                   /\ todo' = <<Enqueue(p, "UNSIT", state.sitting, 1), [t EXCEPT !.tried = "UNSIT"]>> \o rest
                   /\ UNCHANGED queueVars
                \/ \* it can be reached from a chair only
                   /\ t.depth = 0 /\ t.tried # "SIT"
                   /\ state.sitting = NoEntity
                   /\ t.type # "SIT" /\ HasToBeThere(p, t.type, t.target)
                   /\ \E chair \in Chairs \cap exists :
                        todo' = <<Enqueue(p, "SIT", chair, 1), [t EXCEPT !.tried = "SIT"]>> \o rest
                   /\ UNCHANGED queueVars
                \/ /\ SeatAllows(t.type, state)
                   /\ HasRoom(p, t.depth)
                   /\ IF LastMerges(p, t.type) THEN Merge(p, rest) ELSE AppendAction(p, t.type, t.target, rest)
    /\ UNCHANGED <<entityVars, aborted>>

\* The server goes on with what it is doing.
Continue ==
    /\ ~aborted
    /\ todo # <<>>
    /\ LET t == Head(todo)
           rest == Tail(todo)
       IN  CASE t.call = "begin_or_dequeue" -> BeginOrDequeue(t.player, rest)
             [] t.call = "dequeue"          -> /\ RemoveAction(t.player, 1, rest)
                                               /\ UNCHANGED <<entityVars, aborted>>
             [] t.call = "update_paths"     -> PathsAreUpdated(t.players, rest)
             [] t.call = "enqueue"          -> EnqueueAction(t, rest)

Idle == ~aborted /\ todo = <<>>

-----------------------------------------------------------------------------
(* What players ask for *)

TargetsOf(type) == IF type \in {"WALK", "PUT_DOWN"} THEN {NoEntity} ELSE Entities

\* RSB_PLAYER_ACTION, RSB_CLICK_TILE
PlayerAction(p) ==
    /\ Idle
    /\ next_id <= MaxActions
    /\ \E type \in ActionTypes : \E e \in TargetsOf(type) : EnqueueAction(Enqueue(p, type, e, 0), <<>>)

\* Waits, or is carried out, until the player asks: dequeue_requested stays set.
StaysRequested(p) ==
    /\ queue' = [queue EXCEPT ![p][1].dequeue_requested = TRUE]
    /\ UNCHANGED <<action_ids, pauses, next_id, entityVars, todo, aborted>>

\* end_player_action_if_possible of a SLEEP, when there is a place to get up to
WakeUp(p) ==
    IF is_on[p] = First(p).target
    THEN /\ GetOff(p, First(p).target)
         /\ RemoveAction(p, 1, <<>>)
         /\ UNCHANGED <<exists, holding, held_by, aborted>>
    ELSE Abort

\* request_player_action_dequeue of the action at the front, after its reach_t: an action
\* that has never begun, as the queue is paused, has reach_t = 0.
EndEarly(p) ==
    LET a == First(p) IN
    \/ /\ a.type \in {"WALK", "PUT_DOWN"} \/ (a.type # "SLEEP" /\ a.target \in exists)
                                         \/ a.type = "PLACE_IN_INVENTORY"
       /\ RemoveAction(p, 1, <<>>)
       /\ UNCHANGED <<entityVars, aborted>>
    \/ /\ a.type \notin {"WALK", "PUT_DOWN", "PLACE_IN_INVENTORY"} /\ a.target \notin exists
       /\ Abort
    \/ /\ a.type = "SLEEP" /\ a.target \in exists
       /\ StaysRequested(p) \/ WakeUp(p)

\* RSB_PLAYER_ACTION_DEQUEUE
RequestDequeue(p) ==
    /\ Idle
    /\ \E i \in 1..Len(queue[p]) :
          /\ ~queue[p][i].dequeue_requested
          /\ \/ /\ i > 1 \/ First(p).phase = "walking"
                /\ RemoveAction(p, i, <<>>)
                /\ UNCHANGED <<entityVars, aborted>>
             \/ i = 1 /\ First(p).phase # "walking" /\ EndEarly(p)

\* The action the pause is to come after: all of action_ids is searched, so one that has
\* left the queue may be found.
PlaceOf(p, after) ==
    CHOOSE i \in 1..QueueLength :
        action_ids[p][i] = after /\ \A j \in 1..(i - 1) : action_ids[p][j] # after

Paused == {at \in Players \X (0..QueueLength) : pauses[at[1]][at[2]]}

SetPause(p, k, paused) ==
    /\ pauses[p][k] # paused
    /\ paused => Cardinality(Paused) < MaxPauses
    /\ pauses' = [pauses EXCEPT ![p][k] = paused]
    /\ todo' = IF ~paused /\ k = 0 /\ queue[p] # <<>> THEN <<Begin(p)>> ELSE <<>>
    /\ UNCHANGED <<queue, action_ids, next_id, entityVars, aborted>>

\* RSB_PLAYER_ACTION_QUEUE_PAUSE.  With no id it is at the end of the queue; with one it is
\* before the action of that id, as the ids are numbered from 0.
Pause(p) ==
    /\ Idle
    /\ \E paused \in BOOLEAN :
          \/ SetPause(p, Len(queue[p]), paused)
          \/ \E id \in {action_ids[p][i] : i \in 1..QueueLength} \ {0} :
                SetPause(p, PlaceOf(p, id) - 1, paused)

-----------------------------------------------------------------------------
(* Time passes *)

Runs(p) == Idle /\ queue[p] # <<>> /\ ~pauses[p][0]

\* update_player_action at update_t
Arrive(p) ==
    /\ Runs(p)
    /\ First(p).phase = "walking"
    /\ \/ Perform(p, <<>>)
       \/ /\ SetPhase(p, "refused", <<>>)
          /\ UNCHANGED <<entityVars, aborted>>

\* A paused queue is not updated: update_t passes.
PassBy(p) ==
    /\ Idle
    /\ queue[p] # <<>> /\ pauses[p][0]
    /\ First(p).phase = "walking"
    /\ SetPhase(p, "queued", <<>>)
    /\ UNCHANGED <<entityVars, aborted>>

\* max_update_step_delta_time_for_entity finds an action whose time is over; SLEEP is found
\* at its end not to have begun.
FindOverdue(p) ==
    /\ Runs(p)
    /\ First(p).phase = "refused"
    /\ Abort

\* update_player_action at end_t and at end_retry_t
EndSleep(p) ==
    /\ Runs(p)
    /\ First(p).phase \in {"doing", "retrying"}
    /\ \/ WakeUp(p)
       \/ /\ SetPhase(p, "retrying", <<>>)
          /\ UNCHANGED <<entityVars, aborted>>

Next ==
    \/ Continue
    \/ \E p \in Players :
          \/ PlayerAction(p)
          \/ RequestDequeue(p)
          \/ Pause(p)
          \/ Arrive(p)
          \/ PassBy(p)
          \/ FindOverdue(p)
          \/ EndSleep(p)

Spec == Init /\ [][Next]_vars

\* A handler runs to its end, and the main loop updates the room between one round of the
\* clients and the next, however many requests there are.
Fairness ==
    /\ WF_vars(Continue)
    /\ \A p \in Players : SF_vars(Arrive(p)) /\ SF_vars(FindOverdue(p))

FairSpec == Spec /\ Fairness

-----------------------------------------------------------------------------
(* Properties *)

\* A player holds what is held by it, and both are told apart by no procedure but set_held:
\* neither a pick-up, a put-down nor a destruction leaves one side of it.
HoldsAgree ==
    \A p \in Players, e \in Entities : (holding[p] = e <=> held_by[e] = p) /\ (holding[p] = e => e \in exists)

\* What a player is on is in the room and locked by that player, so two are never on the
\* same chair or bed, and no one takes it away under them.
SeatIsLocked ==
    \A p \in Players : is_on[p] # NoEntity => is_on[p] \in exists /\ locked_by[is_on[p]] = p

\* When the server is done with a request or an update, the first action of a queue that is
\* not paused has begun, however many actions were refused on the way to it.
FrontHasBegun ==
    Idle => \A p \in Players : queue[p] # <<>> /\ ~pauses[p][0] => First(p).phase # "queued"

\* The ids name the actions they were given to, in the order these were asked for, whatever
\* was removed in between; no two actions in the room have the same.
IdsNameActions ==
    /\ \A p \in Players : \A i \in 1..Len(queue[p]) :
          /\ action_ids[p][i] = queue[p][i].id
          /\ \A j \in 1..(i - 1) : queue[p][j].id < queue[p][i].id
    /\ \A p, q \in Players : \A i \in 1..Len(queue[p]), j \in 1..Len(queue[q]) :
          queue[p][i].id = queue[q][j].id => p = q /\ i = j

InQueue(p, x)  == \E i \in 1..Len(queue[p]) : queue[p][i].id = x
HeldBack(p, x) == \E i \in 1..Len(queue[p]) : queue[p][i].id = x /\ \E k \in 0..(i - 1) : pauses[p][k]

\* An action behind a pause stays behind one, whatever happens to the actions between, until
\* the player takes the pause away.
PausesHold ==
    [][\A p \in Players, x \in 1..MaxActions :
            HeldBack(p, x) /\ InQueue(p, x)' /\ queue'[p] # queue[p] => HeldBack(p, x)']_vars

\* A queue comes to its end, to a pause or to a SLEEP (which ends when there is a place to get
\* up to), or the server ends: no action stays at the front.
QueueGetsDone ==
    \A p \in Players :
        []<>(aborted \/ queue[p] = <<>> \/ pauses[p][0] \/ First(p).type = "SLEEP")

=============================================================================
