------------------------- MODULE RoomActionsProofs -------------------------
(***************************************************************************)
(* What holds of the players' action queues and of the entities they are   *)
(* about, for any number of players, entities and actions, any length of   *)
(* the queue and any choice of paths and places.                           *)
(***************************************************************************)
EXTENDS RoomActions, WellFoundedInduction, TLAPS

USE RoomActionsAssumption

-----------------------------------------------------------------------------
(* Sequences *)

LEMMA WithoutType ==
    ASSUME NEW S, NEW s \in Seq(S), NEW i \in Nat
    PROVE  /\ Without(s, i) \in Seq(S)
           /\ Len(s) > 0 => Len(Without(s, i)) = Len(s) - 1
           /\ Len(s) = 0 => Len(Without(s, i)) = 0
<1>1. Len(s) \in Nat /\ \A k \in 1..Len(s) : s[k] \in S
    OBVIOUS
<1>2. CASE Len(s) = 0
  <2>1. 1..Len(s) - 1 = 1..0
    BY <1>2
  <2>2. Without(s, i) \in [1..0 -> S]
    BY <2>1 DEF Without
  <2>3. QED
    BY <1>2, <2>2
<1>3. CASE Len(s) > 0
  <2>1. Len(s) - 1 \in Nat
    BY <1>1, <1>3
  <2>2. \A k \in 1..Len(s) - 1 : k \in 1..Len(s) /\ k + 1 \in 1..Len(s)
    BY <1>1
  <2>3. Without(s, i) \in [1..Len(s) - 1 -> S]
    BY <1>1, <2>2 DEF Without
  <2>4. QED
    BY <1>3, <2>1, <2>3
<1>4. QED
    BY <1>1, <1>2, <1>3

\* What is left of a handler are calls that were there.
LEMMA WithoutEnqueueType ==
    ASSUME NEW p, NEW rest \in Seq(Task)
    PROVE  WithoutEnqueue(p, rest) \in Seq(Task)
<1> DEFINE Given == {i \in DOMAIN rest : rest[i].call = "enqueue" /\ rest[i].player = p}
<1>1. CASE Given = {}
    BY <1>1 DEF WithoutEnqueue
<1>2. CASE Given # {}
  <2>1. (CHOOSE i \in Given : TRUE) \in Given
    BY <1>2
  <2>2. \A i \in Given : i \in Nat
    OBVIOUS
  <2>3. Without(rest, CHOOSE i \in Given : TRUE) \in Seq(Task)
    BY <2>1, <2>2, WithoutType
  <2>4. QED
    BY <1>2, <2>3 DEF WithoutEnqueue
<1>3. QED
    BY <1>1, <1>2

-----------------------------------------------------------------------------
(* Types: the queues *)

LEMMA RemoveActionType ==
    ASSUME QueuesOK, NEW p \in Players, NEW i \in 1..QueueLength, NEW rest \in Seq(Task),
           RemoveAction(p, i, rest)
    PROVE  QueuesOK' /\ todo' \in Seq(Task)
<1>1. queue[p] \in Seq(Action) /\ Len(queue[p]) \in Nat /\ Len(queue[p]) <= QueueLength /\ i \in Nat
    BY DEF QueuesOK
<1>2. QueueWithout(p, i) \in Seq(Action) /\ Len(QueueWithout(p, i)) <= QueueLength
  <2>1. /\ Without(queue[p], i) \in Seq(Action)
        /\ Len(queue[p]) > 0 => Len(Without(queue[p], i)) = Len(queue[p]) - 1
        /\ Len(queue[p]) = 0 => Len(Without(queue[p], i)) = 0
    BY <1>1, WithoutType, Zenon
  <2>2. QED
    BY <1>1, <2>1 DEF QueueWithout
<1>3. queue' \in [Players -> Seq(Action)] /\ \A q \in Players : Len(queue'[q]) <= QueueLength
    BY <1>2 DEF QueuesOK, RemoveAction
<1>4. IdsWithout(p, i) \in [1..QueueLength -> 0..MaxActions]
  <2>1. \A k \in 1..QueueLength : k < Len(queue[p]) => k + 1 \in 1..QueueLength
    BY <1>1
  <2>2. QED
    BY <2>1 DEF QueuesOK, IdsWithout
<1>5. PausesWithout(p, i) \in [0..QueueLength -> BOOLEAN]
  <2>1. \A k \in 0..QueueLength : /\ k < Len(queue[p]) => k + 1 \in 0..QueueLength
                                  /\ k = i - 1 => k + 1 \in 0..QueueLength
    BY <1>1
  <2>2. \A k \in 0..QueueLength : pauses[p][k] \in BOOLEAN
    BY DEF QueuesOK
  <2>3. QED
    BY <2>1, <2>2 DEF PausesWithout
<1>6. action_ids' \in [Players -> [1..QueueLength -> 0..MaxActions]]
    BY <1>4 DEF QueuesOK, RemoveAction
<1>7. pauses' \in [Players -> [0..QueueLength -> BOOLEAN]]
    BY <1>5 DEF QueuesOK, RemoveAction
<1>8. QueuesOK'
    BY <1>3, <1>6, <1>7 DEF QueuesOK, RemoveAction
<1>9. Begin(p) \in Task
    BY DEF Begin, Task
<1>10. NextToBegin(p, i) \in Seq(Task)
    BY <1>9 DEF NextToBegin
<1>11. QED
    BY <1>8, <1>10 DEF RemoveAction

LEMMA SetPhaseType ==
    ASSUME QueuesOK, NEW p \in Players, NEW phase \in Phases, NEW rest \in Seq(Task),
           SetPhase(p, phase, rest)
    PROVE  QueuesOK' /\ todo' \in Seq(Task)
<1>1. queue[p] \in Seq(Action) /\ Len(queue[p]) \in Nat
    BY DEF QueuesOK
<1> DEFINE changed == [queue[p] EXCEPT ![1].phase = phase]
<1>2. changed \in Seq(Action) /\ Len(changed) = Len(queue[p])
  <2>1. \A a \in Action : [a EXCEPT !.phase = phase] \in Action
    BY DEF Action
  <2>2. \A k \in 1..Len(queue[p]) : changed[k] \in Action
    BY <1>1, <2>1
  <2>3. DOMAIN queue[p] = 1..Len(queue[p])
    BY <1>1
  <2>4. changed = [k \in 1..Len(queue[p]) |->
                      IF k = 1 THEN [queue[p][1] EXCEPT !.phase = phase] ELSE queue[p][k]]
    BY <2>3, Zenon
  <2>5. changed \in [1..Len(queue[p]) -> Action]
    <3> HIDE DEF changed
    <3>1. QED
      BY <1>1, <2>1, <2>4
  <2>6. QED
    BY <1>1, <2>5
<1>3. queue' = [queue EXCEPT ![p] = changed]
    BY DEF SetPhase, QueuesOK
<1> HIDE DEF changed
<1>4. queue' \in [Players -> Seq(Action)] /\ \A q \in Players : Len(queue'[q]) <= QueueLength
    BY <1>2, <1>3 DEF QueuesOK
<1>5. QED
    BY <1>4 DEF QueuesOK, SetPhase

LEMMA MergeType ==
    ASSUME QueuesOK, NEW p \in Players, NEW rest \in Seq(Task), queue[p] # <<>>, Merge(p, rest)
    PROVE  QueuesOK' /\ todo' \in Seq(Task)
<1>1. queue[p] \in Seq(Action) /\ Len(queue[p]) \in Nat
    BY DEF QueuesOK
<1> DEFINE changed == [queue[p] EXCEPT ![Len(queue[p])].type = "MOVE"]
<1>2. changed \in Seq(Action) /\ Len(changed) = Len(queue[p])
  <2>1. \A a \in Action : [a EXCEPT !.type = "MOVE"] \in Action
    BY DEF Action
  <2>2. \A k \in 1..Len(queue[p]) : changed[k] \in Action
    BY <1>1, <2>1
  <2>3. changed \in [1..Len(queue[p]) -> Action]
    BY <1>1, <2>2
  <2>4. QED
    BY <1>1, <2>3
<1>3. queue' = [queue EXCEPT ![p] = changed]
    BY DEF Merge, QueuesOK
<1> HIDE DEF changed
<1>4. queue' \in [Players -> Seq(Action)] /\ \A q \in Players : Len(queue'[q]) <= QueueLength
    BY <1>2, <1>3 DEF QueuesOK
<1>5. QED
    BY <1>4 DEF QueuesOK, Merge

LEMMA AppendActionType ==
    ASSUME QueuesOK, NEW p \in Players, NEW type \in Types, NEW e \in Targets, NEW rest \in Seq(Task),
           Len(queue[p]) < QueueLength, AppendAction(p, type, e, rest)
    PROVE  QueuesOK' /\ todo' \in Seq(Task)
<1>1. queue[p] \in Seq(Action) /\ Len(queue[p]) \in Nat
    BY DEF QueuesOK
<1> DEFINE new == [type |-> type, target |-> e, id |-> next_id, phase |-> "queued", dequeue_requested |-> FALSE]
           n == Len(queue[p])
<1>2. next_id \in 1..MaxActions /\ next_id + 1 \in 1..MaxActions + 1
    BY DEF QueuesOK, AppendAction
<1>3. new \in Action
    BY <1>2 DEF Action, Phases
<1>4. n + 1 \in 1..QueueLength /\ n + 1 \in 0..QueueLength
    BY <1>1
<1>5. queue' = [queue EXCEPT ![p] = Append(queue[p], new)]
    BY DEF AppendAction, QueuesOK
<1> HIDE DEF new
<1>6. Append(queue[p], new) \in Seq(Action) /\ Len(Append(queue[p], new)) = n + 1
    BY <1>1, <1>3
<1>7. queue' \in [Players -> Seq(Action)] /\ \A q \in Players : Len(queue'[q]) <= QueueLength
    BY <1>4, <1>5, <1>6 DEF QueuesOK
<1>8. action_ids' \in [Players -> [1..QueueLength -> 0..MaxActions]]
  <2>1. [action_ids[p] EXCEPT ![n + 1] = next_id] \in [1..QueueLength -> 0..MaxActions]
    BY <1>2, <1>4 DEF QueuesOK
  <2>2. action_ids' = [action_ids EXCEPT ![p] = [action_ids[p] EXCEPT ![n + 1] = next_id]]
    BY DEF AppendAction, QueuesOK
  <2>3. QED
    BY <2>1, <2>2 DEF QueuesOK
<1>9. pauses' \in [Players -> [0..QueueLength -> BOOLEAN]]
  <2>1. [pauses[p] EXCEPT ![n + 1] = FALSE] \in [0..QueueLength -> BOOLEAN]
    BY <1>4 DEF QueuesOK
  <2>2. pauses' = [pauses EXCEPT ![p] = [pauses[p] EXCEPT ![n + 1] = FALSE]]
    BY DEF AppendAction, QueuesOK
  <2>3. QED
    BY <2>1, <2>2 DEF QueuesOK
<1>10. QueuesOK'
    BY <1>2, <1>7, <1>8, <1>9 DEF QueuesOK, AppendAction
<1>11. Begin(p) \in Task
    BY DEF Begin, Task
<1>12. QED
    BY <1>10, <1>11 DEF AppendAction

EnqueueTask == [call : {"enqueue"}, player : Players, type : Types, target : Targets,
                tried : {"nothing", "UNSIT", "SIT"}, depth : {0, 1}]

LEMMA TasksByCall ==
    ASSUME NEW t \in Task
    PROVE  /\ t.call = "enqueue" => t \in EnqueueTask
           /\ t.call \in {"begin_or_dequeue", "dequeue"} => t.player \in Players
           /\ t.call = "update_paths" => t.players \subseteq Players
           /\ t.call \in {"begin_or_dequeue", "dequeue", "update_paths", "enqueue"}
BY DEF Task, EnqueueTask

LEMMA EnqueueActionType ==
    ASSUME QueuesOK, NEW t \in EnqueueTask, NEW rest \in Seq(Task), EnqueueAction(t, rest)
    PROVE  QueuesOK' /\ todo' \in Seq(Task) /\ UNCHANGED <<entityVars, aborted>>
<1>0. UNCHANGED <<entityVars, aborted>>
    BY DEF EnqueueAction
<1> SUFFICES QueuesOK' /\ todo' \in Seq(Task)
    BY <1>0
<1>1. /\ t.player \in Players /\ t.type \in Types /\ t.target \in Targets /\ t.depth \in {0, 1}
      /\ t \in Task
    BY DEF EnqueueTask, Task
<1>2. CASE UNCHANGED queueVars /\ todo' = WithoutEnqueue(t.player, rest)
  <2>1. WithoutEnqueue(t.player, rest) \in Seq(Task)
    BY WithoutEnqueueType, Zenon
  <2>2. QueuesOK'
    BY <1>2 DEF QueuesOK, queueVars
  <2>3. QED
    BY <1>2, <2>1, <2>2, Zenon
<1>3. \A type \in Types, e \in Targets : Enqueue(t.player, type, e, 1) \in Task
    BY <1>1 DEF Enqueue, Task
<1>4. "UNSIT" \in Types /\ "SIT" \in Types /\ Chairs \subseteq Targets
    BY DEF Types, Targets, Entities
<1>5. ASSUME NEW type \in {"UNSIT", "SIT"}, NEW e \in Chairs, UNCHANGED queueVars,
             todo' = <<Enqueue(t.player, type, e, 1), [t EXCEPT !.tried = type]>> \o rest
      PROVE  QueuesOK' /\ todo' \in Seq(Task)
  <2>1. [t EXCEPT !.tried = type] \in EnqueueTask
    BY DEF EnqueueTask
  <2>2. [t EXCEPT !.tried = type] \in Task
    BY <2>1 DEF EnqueueTask, Task
  <2>3. Enqueue(t.player, type, e, 1) \in Task
    BY <1>3, <1>4
  <2>4. todo' \in Seq(Task)
    BY <1>5, <2>2, <2>3
  <2>5. QED
    BY <1>5, <2>4 DEF QueuesOK, queueVars
<1>6. CASE Len(queue[t.player]) < QueueLength /\ queue[t.player] # <<>> /\ Merge(t.player, rest)
    BY ONLY <1>1, <1>6, QueuesOK, rest \in Seq(Task), MergeType, Zenon
<1>7. CASE Len(queue[t.player]) < QueueLength /\ AppendAction(t.player, t.type, t.target, rest)
    BY ONLY <1>1, <1>7, QueuesOK, rest \in Seq(Task), AppendActionType, Zenon
<1>8. HasRoom(t.player, t.depth) => Len(queue[t.player]) < QueueLength
    BY <1>1 DEF HasRoom, QueuesOK
<1>9. \/ UNCHANGED queueVars /\ todo' = WithoutEnqueue(t.player, rest)
      \/ \E type \in {"UNSIT", "SIT"}, e \in Chairs :
            /\ UNCHANGED queueVars
            /\ todo' = <<Enqueue(t.player, type, e, 1), [t EXCEPT !.tried = type]>> \o rest
      \/ HasRoom(t.player, t.depth) /\ queue[t.player] # <<>> /\ Merge(t.player, rest)
      \/ HasRoom(t.player, t.depth) /\ AppendAction(t.player, t.type, t.target, rest)
    BY Zenon DEF EnqueueAction, LastMerges
<1>10. QED
    BY <1>2, <1>5, <1>6, <1>7, <1>8, <1>9

-----------------------------------------------------------------------------
(* What a step may do to the entities *)

EntityStep(p) ==
    \/ UNCHANGED entityVars
    \/ \E e \in exists : /\ holding[p] = NoEntity /\ held_by[e] \in {NoPlayer, p}
                         /\ TakeUp(p, e)
                         /\ UNCHANGED <<exists, is_on, locked_by>>
    \/ /\ holding[p] # NoEntity
       /\ LetGo(p, holding[p])
       /\ UNCHANGED <<exists, is_on, locked_by>>
    \/ \E e \in exists : /\ held_by[e] \in {NoPlayer, p} /\ locked_by[e] = NoPlayer
                         /\ Destroy(p, e)
                         /\ UNCHANGED <<is_on, locked_by>>
    \/ \E e \in exists : /\ locked_by[e] = NoPlayer
                         /\ GetOn(p, e)
                         /\ UNCHANGED <<exists, holding, held_by>>
    \/ \E e \in Targets : /\ is_on[p] = e
                          /\ GetOff(p, e)
                          /\ UNCHANGED <<exists, holding, held_by>>

LEMMA PerformOnEntities ==
    ASSUME EntitiesOK, NEW p \in Players, NEW rest, Perform(p, rest)
    PROVE  EntityStep(p)
<1> DEFINE e == First(p).target
           type == First(p).type
<1>1. Possible(p, type, e, StateOf(p))
    BY DEF Perform, PossibleNow
<1>2. StateOf(p).held = holding[p] /\ (StateOf(p).sitting \in Chairs => is_on[p] = StateOf(p).sitting)
    BY DEF StateOf, Entities
<1> HIDE DEF e, type
<1>3. CASE Walk(p, rest)
    BY <1>3 DEF Walk, EntityStep
<1>4. CASE PickUp(p, rest)
  <2>1. CASE Abort
    BY <2>1 DEF Abort, EntityStep
  <2>2. CASE type \in {"PICK_UP", "MOVE"} /\ TakeUp(p, e) /\ UNCHANGED <<exists, is_on, locked_by>>
    <3>1. e \in exists /\ held_by[e] \in {NoPlayer, p} /\ holding[p] = NoEntity
      BY <1>1, <1>2, <2>2 DEF Possible, EntityActionPossible
    <3>2. QED
      BY <2>2, <3>1 DEF EntityStep
  <2>3. QED
    BY <1>4, <2>1, <2>2 DEF PickUp, e, type
<1>5. CASE PutDown(p, rest)
  <2>1. type = "PUT_DOWN" /\ LetGo(p, holding[p]) /\ UNCHANGED <<exists, is_on, locked_by>>
    BY <1>5 DEF PutDown, type
  <2>2. holding[p] # NoEntity
    BY <1>1, <1>2, <2>1 DEF Possible
  <2>3. QED
    BY <2>1, <2>2 DEF EntityStep
<1>6. CASE PlaceInInventory(p, rest)
  <2>1. /\ type = "PLACE_IN_INVENTORY" /\ UNCHANGED <<is_on, locked_by>>
        /\ UNCHANGED <<exists, holding, held_by>> \/ Destroy(p, e)
    BY <1>6 DEF PlaceInInventory, e, type
  <2>2. e \in exists /\ held_by[e] \in {NoPlayer, p} /\ locked_by[e] = NoPlayer
    BY <1>1, <2>1 DEF Possible, EntityActionPossible
  <2>3. QED
    BY <2>1, <2>2 DEF EntityStep, entityVars
<1>7. CASE Sit(p, rest)
  <2>1. type = "SIT" /\ GetOn(p, e) /\ UNCHANGED <<exists, holding, held_by>>
    BY <1>7 DEF Sit, e, type
  <2>2. e \in exists /\ locked_by[e] = NoPlayer
    BY <1>1, <2>1 DEF Possible, EntityActionPossible
  <2>3. QED
    BY <2>1, <2>2 DEF EntityStep
<1>8. CASE Unsit(p, rest)
  <2>1. type = "UNSIT" /\ GetOff(p, e) /\ UNCHANGED <<exists, holding, held_by>>
    BY <1>8 DEF Unsit, e, type
  <2>2. e \in Chairs /\ StateOf(p).sitting = e
    BY <1>1, <2>1 DEF Possible, EntityActionPossible
  <2>3. is_on[p] = e /\ e \in Targets
    BY <1>2, <2>2 DEF Targets, Entities
  <2>4. QED
    BY <2>1, <2>3 DEF EntityStep
<1>9. CASE FallAsleep(p, rest)
  <2>1. type = "SLEEP" /\ GetOn(p, e) /\ UNCHANGED <<exists, holding, held_by>>
    BY <1>9 DEF FallAsleep, e, type
  <2>2. e \in exists /\ locked_by[e] = NoPlayer
    BY <1>1, <2>1 DEF Possible, EntityActionPossible
  <2>3. QED
    BY <2>1, <2>2 DEF EntityStep
<1>10. QED
    BY <1>3, <1>4, <1>5, <1>6, <1>7, <1>8, <1>9 DEF Perform

LEMMA EntityStepType ==
    ASSUME EntitiesOK, NEW p \in Players, EntityStep(p)
    PROVE  EntitiesOK'
<1> USE DEF EntitiesOK
<1>1. CASE UNCHANGED entityVars
    BY <1>1 DEF entityVars
<1>2. ASSUME NEW e \in exists, TakeUp(p, e), UNCHANGED <<exists, is_on, locked_by>>
      PROVE  EntitiesOK'
    BY <1>2 DEF TakeUp, Targets
<1>3. CASE LetGo(p, holding[p]) /\ UNCHANGED <<exists, is_on, locked_by>>
    BY <1>3 DEF LetGo, Targets
<1>4. ASSUME NEW e \in exists, Destroy(p, e), UNCHANGED <<is_on, locked_by>>
      PROVE  EntitiesOK'
    BY <1>4 DEF Destroy, LetGo, Targets
<1>5. ASSUME NEW e \in exists, GetOn(p, e), UNCHANGED <<exists, holding, held_by>>
      PROVE  EntitiesOK'
    BY <1>5 DEF GetOn, Targets
<1>6. ASSUME NEW e \in Targets, GetOff(p, e), UNCHANGED <<exists, holding, held_by>>
      PROVE  EntitiesOK'
    BY <1>6 DEF GetOff, Targets
<1>7. QED
    BY <1>1, <1>2, <1>3, <1>4, <1>5, <1>6 DEF EntityStep

-----------------------------------------------------------------------------
(* What a step may do to the queues, and which calls it leaves to be made *)

\* The first action of p is still to be begun.
Ahead(p, calls) == \E i \in DOMAIN calls : calls[i] = Begin(p)

LEMMA AheadConcat ==
    ASSUME NEW p, NEW s \in Seq(Task), NEW r \in Seq(Task), Ahead(p, s) \/ Ahead(p, r)
    PROVE  Ahead(p, s \o r)
<1>1. Len(s) \in Nat /\ Len(r) \in Nat /\ Len(s \o r) = Len(s) + Len(r)
    OBVIOUS
<1>2. DOMAIN s = 1..Len(s) /\ DOMAIN r = 1..Len(r) /\ DOMAIN (s \o r) = 1..Len(s) + Len(r)
    OBVIOUS
<1>3. CASE Ahead(p, s)
  <2>1. PICK i \in 1..Len(s) : s[i] = Begin(p)
    BY <1>2, <1>3 DEF Ahead
  <2>2. i \in 1..Len(s) + Len(r) /\ (s \o r)[i] = s[i]
    BY <1>1
  <2>3. QED
    BY <1>2, <2>1, <2>2 DEF Ahead
<1>4. CASE Ahead(p, r)
  <2>1. PICK i \in 1..Len(r) : r[i] = Begin(p)
    BY <1>2, <1>4 DEF Ahead
  <2>2. Len(s) + i \in 1..Len(s) + Len(r) /\ (s \o r)[Len(s) + i] = r[i]
    BY <1>1
  <2>3. QED
    BY <1>2, <2>1, <2>2 DEF Ahead
<1>5. QED
    BY <1>3, <1>4

LEMMA AheadBegin ==
    ASSUME NEW p \in Players, NEW r \in Seq(Task)
    PROVE  Ahead(p, <<Begin(p)>> \o r)
<1>1. <<Begin(p)>> \in Seq(Task)
    BY DEF Begin, Task
<1>2. Ahead(p, <<Begin(p)>>)
  <2>1. 1 \in DOMAIN <<Begin(p)>> /\ <<Begin(p)>>[1] = Begin(p)
    OBVIOUS
  <2>2. QED
    BY <2>1 DEF Ahead
<1>3. QED
    BY <1>1, <1>2, AheadConcat

LEMMA AheadWithoutEnqueue ==
    ASSUME NEW p, NEW q, NEW rest \in Seq(Task), Ahead(q, rest)
    PROVE  Ahead(q, WithoutEnqueue(p, rest))
<1> DEFINE Given == {i \in DOMAIN rest : rest[i].call = "enqueue" /\ rest[i].player = p}
<1>1. CASE Given = {}
    BY <1>1 DEF WithoutEnqueue
<1>2. CASE Given # {}
  <2>1. PICK j : j = CHOOSE i \in Given : TRUE
    OBVIOUS
  <2>2. j \in Given
    BY <1>2, <2>1
  <2>3. j \in 1..Len(rest) /\ rest[j].call = "enqueue" /\ Len(rest) \in Nat
    BY <2>2
  <2>4. PICK i \in 1..Len(rest) : rest[i] = Begin(q)
    BY DEF Ahead
  <2>5. i # j
    BY <2>3, <2>4 DEF Begin
  <2>6. CASE i < j
    <3>1. i \in 1..Len(rest) - 1
      BY <2>3, <2>6
    <3>2. Without(rest, j)[i] = Begin(q) /\ DOMAIN Without(rest, j) = 1..Len(rest) - 1
      BY <2>4, <2>6, <3>1 DEF Without
    <3>3. QED
      BY <1>2, <2>1, <3>1, <3>2 DEF Ahead, WithoutEnqueue
  <2>7. CASE i > j
    <3>1. i - 1 \in 1..Len(rest) - 1 /\ ~(i - 1 < j) /\ (i - 1) + 1 = i
      BY <2>3, <2>7
    <3>2. Without(rest, j)[i - 1] = Begin(q) /\ DOMAIN Without(rest, j) = 1..Len(rest) - 1
      BY <2>4, <3>1 DEF Without
    <3>3. QED
      BY <1>2, <2>1, <3>1, <3>2 DEF Ahead, WithoutEnqueue
  <2>8. QED
    BY <2>3, <2>5, <2>6, <2>7
<1>3. QED
    BY <1>1, <1>2

LEMMA AheadTail ==
    ASSUME NEW q, NEW calls \in Seq(Task), calls # <<>>, Head(calls) # Begin(q), Ahead(q, calls)
    PROVE  Ahead(q, Tail(calls))
<1>1. PICK i \in 1..Len(calls) : calls[i] = Begin(q)
    BY DEF Ahead
<1>2. i # 1
    BY <1>1
<1>3. i - 1 \in DOMAIN Tail(calls) /\ Tail(calls)[i - 1] = calls[i]
    BY <1>2
<1>4. QED
    BY <1>1, <1>3 DEF Ahead

AllKept       == \A q \in Players : Ahead(q, todo) => Ahead(q, todo')
OthersKept(p) == \A q \in Players \ {p} : Ahead(q, todo) => Ahead(q, todo')

Removes(p) ==
    \E i \in 1..QueueLength, rest \in Seq(Task) :
        /\ RemoveAction(p, i, rest)
        /\ i = 1 \/ todo = <<>>
        /\ i <= Len(queue[p]) \/ queue[p] = <<>>

Goes(p) ==
    \E phase \in Phases :
        /\ SetPhase(p, phase, todo')
        /\ phase = "queued" => pauses[p][0]

Appends(p) ==
    /\ Len(queue[p]) < QueueLength
    /\ \E type \in Types, e \in Targets, rest \in Seq(Task) : AppendAction(p, type, e, rest)

Requested(p) ==
    /\ queue' = [queue EXCEPT ![p][1].dequeue_requested = TRUE]
    /\ UNCHANGED <<action_ids, pauses, next_id, todo>>

Pauses(p) ==
    \E k \in 0..QueueLength, paused \in BOOLEAN :
        /\ pauses' = [pauses EXCEPT ![p][k] = paused]
        /\ todo' = IF ~paused /\ k = 0 /\ queue[p] # <<>> THEN <<Begin(p)>> ELSE <<>>
        /\ UNCHANGED <<queue, action_ids, next_id>>
        /\ todo = <<>>

QueueStep(p) ==
    /\ todo' \in Seq(Task)
    /\ \/ UNCHANGED queueVars /\ AllKept
       \/ Removes(p) /\ OthersKept(p)
       \/ Goes(p) /\ OthersKept(p)
       \/ queue[p] # <<>> /\ Merge(p, todo') /\ AllKept
       \/ Appends(p) /\ AllKept
       \/ Requested(p)
       \/ Pauses(p)

\* The calls that are left are those of the handler that is still running.
Left(p, rest) == rest \in Seq(Task) /\ \A q \in Players \ {p} : Ahead(q, todo) => Ahead(q, rest)

LEMMA NextToBeginType ==
    ASSUME NEW p \in Players, NEW i
    PROVE  NextToBegin(p, i) \in Seq(Task)
<1>1. Begin(p) \in Task
    BY DEF Begin, Task
<1>2. QED
    BY <1>1 DEF NextToBegin

LEMMA RemovesStep ==
    ASSUME TypeOK, NEW p \in Players, NEW i \in 1..QueueLength, NEW rest, Left(p, rest),
           RemoveAction(p, i, rest),
           i = 1 \/ todo = <<>>,
           i <= Len(queue[p]) \/ queue[p] = <<>>
    PROVE  QueueStep(p)
<1>1. rest \in Seq(Task)
    BY DEF Left
<1>2. todo' \in Seq(Task)
    BY <1>1, RemoveActionType DEF TypeOK
<1>3. todo' = NextToBegin(p, i) \o rest
    BY DEF RemoveAction
<1>4. NextToBegin(p, i) \in Seq(Task)
    BY NextToBeginType
<1>5. ASSUME NEW q \in Players \ {p}, Ahead(q, todo)
      PROVE  Ahead(q, todo')
  <2>1. Ahead(q, rest)
    BY <1>5 DEF Left
  <2>2. Ahead(q, NextToBegin(p, i) \o rest)
    BY <1>1, <1>4, <2>1, AheadConcat
  <2>3. QED
    BY <1>3, <2>2 DEF Ahead
<1>6. OthersKept(p)
    BY <1>5 DEF OthersKept
<1>7. Removes(p)
    BY <1>1 DEF Removes
<1>8. QED
    BY <1>2, <1>6, <1>7 DEF QueueStep

LEMMA GoesStep ==
    ASSUME TypeOK, NEW p \in Players, NEW phase \in Phases, NEW rest, Left(p, rest),
           SetPhase(p, phase, rest),
           phase = "queued" => pauses[p][0]
    PROVE  QueueStep(p)
<1>1. rest \in Seq(Task) /\ todo' = rest
    BY DEF Left, SetPhase
<1>2. OthersKept(p)
    BY <1>1 DEF OthersKept, Left, Ahead
<1>3. SetPhase(p, phase, todo')
    BY <1>1 DEF SetPhase
<1>4. Goes(p)
    BY <1>3 DEF Goes
<1>5. QED
    BY <1>1, <1>2, <1>4 DEF QueueStep

LEMMA MoveStep ==
    ASSUME TypeOK, NEW p \in Players, NEW rest, Left(p, rest), OverAfterMove(p, rest)
    PROVE  QueueStep(p)
<1> DEFINE calls == <<UpdatePaths(Players), Dequeue(p)>>
<1>1. UpdatePaths(Players) \in Task /\ Dequeue(p) \in Task
    BY DEF UpdatePaths, Dequeue, Task
<1>2. calls \in Seq(Task) /\ rest \in Seq(Task)
    BY <1>1 DEF Left
<1>3. SetPhase(p, "doing", calls \o rest) /\ "doing" \in Phases
    BY DEF OverAfterMove, Phases
<1> HIDE DEF calls
<1>4. calls \o rest \in Seq(Task)
    BY <1>2
<1>5. Left(p, calls \o rest)
    BY <1>2, <1>4, AheadConcat DEF Left
<1>6. QED
    BY <1>3, <1>5, GoesStep

LEMMA AbortStep ==
    ASSUME TypeOK, NEW p \in Players, Abort
    PROVE  QueueStep(p)
<1>1. UNCHANGED queueVars /\ todo' = todo
    BY DEF Abort
<1>2. AllKept
    BY <1>1 DEF AllKept, Ahead
<1>3. QED
    BY <1>1, <1>2 DEF QueueStep, TypeOK

LEMMA PerformStep ==
    ASSUME TypeOK, NEW p \in Players, NEW rest, Left(p, rest), Perform(p, rest)
    PROVE  QueueStep(p)
<1>1. 1 \in 1..QueueLength /\ (1 <= Len(queue[p]) \/ queue[p] = <<>>)
    BY DEF TypeOK, QueuesOK
<1>2. CASE RemoveAction(p, 1, rest)
    BY <1>1, <1>2, RemovesStep
<1>3. CASE OverAfterMove(p, rest)
    BY <1>3, MoveStep
<1>4. CASE Abort
    BY <1>4, AbortStep
<1>5. CASE SetPhase(p, "doing", rest)
  <2>1. "doing" \in Phases
    BY DEF Phases
  <2>2. QED
    BY <1>5, <2>1, GoesStep
<1>6. QED
    BY <1>2, <1>3, <1>4, <1>5, Zenon
       DEF Perform, Walk, PickUp, PutDown, PlaceInInventory, Sit, Unsit, FallAsleep

LEMMA BeginOrDequeueStep ==
    ASSUME TypeOK, NEW p \in Players, NEW rest, Left(p, rest), BeginOrDequeue(p, rest)
    PROVE  QueueStep(p) /\ EntityStep(p)
<1>1. CASE CannotBegin(p, rest) /\ UNCHANGED <<entityVars, aborted>>
  <2>1. 1 \in 1..QueueLength /\ (1 <= Len(queue[p]) \/ queue[p] = <<>>)
    BY DEF TypeOK, QueuesOK
  <2>2. rest \in Seq(Task)
    BY DEF Left
  <2>3. WithoutEnqueue(p, rest) \in Seq(Task)
    BY <2>2, WithoutEnqueueType
  <2>4. \A q \in Players \ {p} : Ahead(q, todo) => Ahead(q, WithoutEnqueue(p, rest))
    BY <2>2, AheadWithoutEnqueue DEF Left
  <2>5. Left(p, WithoutEnqueue(p, rest))
    BY <2>3, <2>4 DEF Left
  <2>6. QueueStep(p)
    BY <1>1, <2>1, <2>5, RemovesStep DEF CannotBegin
  <2>7. QED
    BY <1>1, <2>6 DEF EntityStep
<1>2. CASE SetPhase(p, "walking", rest) /\ UNCHANGED <<entityVars, aborted>>
  <2>1. "walking" \in Phases
    BY DEF Phases
  <2>2. QueueStep(p)
    BY <1>2, <2>1, GoesStep
  <2>3. QED
    BY <1>2, <2>2 DEF EntityStep
<1>3. CASE Perform(p, rest)
    BY <1>3, PerformStep, PerformOnEntities DEF TypeOK
<1>4. QED
    BY <1>1, <1>2, <1>3, Zenon DEF BeginOrDequeue

\* Only the calls that are to be made change.
CallsStep == todo' \in Seq(Task) /\ AllKept /\ UNCHANGED queueVars /\ UNCHANGED entityVars

LEMMA PathsStep ==
    ASSUME TypeOK, NEW players \in SUBSET Players, NEW rest \in Seq(Task),
           \A q \in Players : Ahead(q, todo) => Ahead(q, rest),
           PathsAreUpdated(players, rest)
    PROVE  CallsStep
<1>1. UNCHANGED queueVars /\ UNCHANGED entityVars
    BY DEF PathsAreUpdated
<1>2. CASE todo' = rest
  <2>1. AllKept
    BY <1>2 DEF AllKept, Ahead
  <2>2. QED
    BY <1>1, <1>2, <2>1 DEF CallsStep
<1>3. ASSUME NEW x \in players, todo' = <<Dequeue(x), UpdatePaths(players \ {x})>> \o rest
      PROVE  CallsStep
  <2> DEFINE calls == <<Dequeue(x), UpdatePaths(players \ {x})>>
  <2>1. Dequeue(x) \in Task /\ UpdatePaths(players \ {x}) \in Task
    BY DEF UpdatePaths, Dequeue, Task
  <2>2. calls \in Seq(Task)
    BY <2>1
  <2>3. todo' = calls \o rest
    BY <1>3
  <2> HIDE DEF calls
  <2>4. \A q \in Players : Ahead(q, rest) => Ahead(q, calls \o rest)
    BY <2>2, AheadConcat
  <2>5. AllKept
    BY <2>3, <2>4 DEF AllKept, Ahead
  <2>6. todo' \in Seq(Task)
    BY <2>2, <2>3
  <2>7. QED
    BY <1>1, <2>5, <2>6 DEF CallsStep
<1>4. QED
    BY <1>1, <1>2, <1>3 DEF PathsAreUpdated

LEMMA EnqueueStep ==
    ASSUME TypeOK, NEW t \in EnqueueTask, NEW rest \in Seq(Task),
           \A q \in Players : Ahead(q, todo) => Ahead(q, rest),
           EnqueueAction(t, rest)
    PROVE  QueueStep(t.player) /\ EntityStep(t.player)
<1> DEFINE p == t.player
<1>1. todo' \in Seq(Task) /\ UNCHANGED <<entityVars, aborted>>
    BY EnqueueActionType DEF TypeOK
<1>2. EntityStep(p)
    BY <1>1 DEF EntityStep
<1>3. p \in Players /\ t.type \in Types /\ t.target \in Targets /\ t.depth \in {0, 1}
    BY DEF EnqueueTask
<1>4. CASE UNCHANGED queueVars /\ todo' = WithoutEnqueue(p, rest)
  <2>1. AllKept
    BY <1>4, AheadWithoutEnqueue DEF AllKept, Ahead
  <2>2. QED
    BY <1>1, <1>2, <1>4, <2>1 DEF QueueStep
<1>5. ASSUME NEW calls \in Seq(Task), UNCHANGED queueVars, todo' = calls \o rest
      PROVE  QueueStep(p)
  <2>1. \A q \in Players : Ahead(q, rest) => Ahead(q, calls \o rest)
    BY AheadConcat
  <2>2. AllKept
    BY <1>5, <2>1 DEF AllKept, Ahead
  <2>3. QED
    BY <1>1, <1>5, <2>2 DEF QueueStep
<1>6. ASSUME NEW type \in {"UNSIT", "SIT"}, NEW e \in Chairs
      PROVE  <<Enqueue(p, type, e, 1), [t EXCEPT !.tried = type]>> \in Seq(Task)
  <2>1. [t EXCEPT !.tried = type] \in Task
    BY DEF EnqueueTask, Task
  <2>2. type \in Types /\ e \in Targets
    BY DEF Types, Targets, Entities
  <2>3. Enqueue(p, type, e, 1) \in Task
    BY <1>3, <2>2 DEF Enqueue, Task
  <2>4. QED
    BY <2>1, <2>3
<1>7. CASE queue[p] # <<>> /\ Merge(p, rest)
  <2>1. todo' = rest /\ Merge(p, todo')
    BY <1>7 DEF Merge
  <2>2. AllKept
    BY <2>1 DEF AllKept, Ahead
  <2>3. QED
    BY <1>1, <1>2, <1>7, <2>1, <2>2 DEF QueueStep
<1>8. CASE HasRoom(p, t.depth) /\ AppendAction(p, t.type, t.target, rest)
  <2>1. Len(queue[p]) < QueueLength
    BY <1>3, <1>8 DEF HasRoom, TypeOK, QueuesOK
  <2>2. Appends(p)
    BY <1>3, <1>8, <2>1 DEF Appends
  <2>3. todo' = (IF Len(queue[p]) = 0 /\ ~pauses[p][0] THEN <<Begin(p)>> ELSE <<>>) \o rest
    BY <1>8 DEF AppendAction
  <2> DEFINE calls == IF Len(queue[p]) = 0 /\ ~pauses[p][0] THEN <<Begin(p)>> ELSE <<>>
  <2>4. Begin(p) \in Task
    BY <1>3 DEF Begin, Task
  <2>5. calls \in Seq(Task) /\ todo' = calls \o rest
    BY <2>3, <2>4
  <2> HIDE DEF calls
  <2>6. \A q \in Players : Ahead(q, rest) => Ahead(q, calls \o rest)
    BY <2>5, AheadConcat
  <2>7. AllKept
    BY <2>5, <2>6 DEF AllKept, Ahead
  <2>8. QED
    BY <1>1, <1>2, <2>2, <2>7 DEF QueueStep
<1>9. \/ UNCHANGED queueVars /\ todo' = WithoutEnqueue(p, rest)
      \/ \E type \in {"UNSIT", "SIT"}, e \in Chairs :
            /\ UNCHANGED queueVars
            /\ todo' = <<Enqueue(p, type, e, 1), [t EXCEPT !.tried = type]>> \o rest
      \/ HasRoom(p, t.depth) /\ queue[p] # <<>> /\ Merge(p, rest)
      \/ HasRoom(p, t.depth) /\ AppendAction(p, t.type, t.target, rest)
    BY Zenon DEF EnqueueAction, LastMerges
<1>10. ASSUME NEW type \in {"UNSIT", "SIT"}, NEW e \in Chairs, UNCHANGED queueVars,
              todo' = <<Enqueue(p, type, e, 1), [t EXCEPT !.tried = type]>> \o rest
       PROVE  QueueStep(p)
  <2> DEFINE calls == <<Enqueue(p, type, e, 1), [t EXCEPT !.tried = type]>>
  <2>1. calls \in Seq(Task)
    BY <1>6
  <2>2. todo' = calls \o rest
    BY <1>10
  <2> HIDE DEF calls
  <2>3. QED
    BY <1>5, <1>10, <2>1, <2>2
<1>11. QED
    BY <1>2, <1>4, <1>7, <1>8, <1>9, <1>10, Zenon

LEMMA LeastOf ==
    ASSUME NEW T \in SUBSET Nat, T # {}
    PROVE  \E x \in T : \A y \in T : x <= y
<1> DEFINE R == OpToRel(<, Nat)
<1>1. IsWellFoundedOn(R, Nat)
    BY NatLessThanWellFounded, Zenon
<1>2. \A x, y \in Nat : <<y, x>> \in R <=> y < x
    BY DEF OpToRel
<1> HIDE DEF R
<1>3. PICK x \in T : \A y \in T : ~ (<<y, x>> \in R)
    BY <1>1, WFMin
<1>4. \A y \in T : y \in Nat /\ x \in Nat /\ ~(y < x)
    BY ONLY <1>2, <1>3, T \in SUBSET Nat, Zenon
<1>5. QED
    BY <1>4

LEMMA PlaceOfType ==
    ASSUME QueuesOK, NEW p \in Players, NEW after \in {action_ids[p][i] : i \in 1..QueueLength}
    PROVE  PlaceOf(p, after) \in 1..QueueLength /\ action_ids[p][PlaceOf(p, after)] = after
<1> DEFINE Named == {i \in 1..QueueLength : action_ids[p][i] = after}
<1>1. Named # {} /\ Named \in SUBSET Nat
    OBVIOUS
<1>2. PICK x \in Named : \A y \in Named : x <= y
    BY <1>1, LeastOf
<1>3. x \in 1..QueueLength /\ action_ids[p][x] = after /\ \A j \in 1..(x - 1) : action_ids[p][j] # after
  <2>1. \A j \in 1..(x - 1) : j \in 1..QueueLength /\ ~(x <= j)
    OBVIOUS
  <2>2. QED
    BY <1>2, <2>1
<1> HIDE DEF Named
<1>4. QED
    BY <1>3 DEF PlaceOf

LEMMA SetPauseStep ==
    ASSUME TypeOK, todo = <<>>, NEW p \in Players, NEW k \in 0..QueueLength, NEW paused \in BOOLEAN,
           SetPause(p, k, paused)
    PROVE  QueueStep(p) /\ EntityStep(p)
<1>1. UNCHANGED entityVars
    BY DEF SetPause, entityVars
<1>2. Pauses(p)
    BY DEF SetPause, Pauses
<1>3. Begin(p) \in Task
    BY DEF Begin, Task
<1>4. todo' \in Seq(Task)
    BY <1>3 DEF SetPause
<1>5. QED
    BY <1>1, <1>2, <1>4 DEF QueueStep, EntityStep

LEMMA WakeUpStep ==
    ASSUME TypeOK, todo = <<>>, NEW p \in Players, WakeUp(p)
    PROVE  QueueStep(p) /\ EntityStep(p)
<1>1. CASE Abort
    BY <1>1, AbortStep DEF Abort, EntityStep, entityVars
<1>2. CASE /\ is_on[p] = First(p).target
           /\ GetOff(p, First(p).target)
           /\ RemoveAction(p, 1, <<>>)
           /\ UNCHANGED <<exists, holding, held_by, aborted>>
  <2>1. is_on[p] \in Targets
    BY DEF TypeOK, EntitiesOK
  <2>2. EntityStep(p)
    BY <1>2, <2>1 DEF EntityStep
  <2>3. Left(p, <<>>) /\ 1 \in 1..QueueLength /\ (1 <= Len(queue[p]) \/ queue[p] = <<>>)
    BY DEF Left, Ahead, TypeOK, QueuesOK
  <2>4. QueueStep(p)
    BY <1>2, <2>3, RemovesStep
  <2>5. QED
    BY <2>2, <2>4
<1>3. QED
    BY <1>1, <1>2 DEF WakeUp

LEMMA EndEarlyStep ==
    ASSUME TypeOK, todo = <<>>, NEW p \in Players, EndEarly(p)
    PROVE  QueueStep(p) /\ EntityStep(p)
<1>1. CASE RemoveAction(p, 1, <<>>) /\ UNCHANGED <<entityVars, aborted>>
  <2>1. Left(p, <<>>) /\ 1 \in 1..QueueLength /\ (1 <= Len(queue[p]) \/ queue[p] = <<>>)
    BY DEF Left, Ahead, TypeOK, QueuesOK
  <2>2. QueueStep(p)
    BY <1>1, <2>1, RemovesStep
  <2>3. QED
    BY <1>1, <2>2 DEF EntityStep
<1>2. CASE Abort
    BY <1>2, AbortStep DEF Abort, EntityStep, entityVars
<1>3. CASE StaysRequested(p)
  <2>1. Requested(p) /\ UNCHANGED entityVars
    BY <1>3 DEF StaysRequested, Requested
  <2>2. todo' \in Seq(Task)
    BY <1>3 DEF StaysRequested, TypeOK
  <2>3. QED
    BY <2>1, <2>2 DEF QueueStep, EntityStep
<1>4. CASE WakeUp(p)
    BY <1>4, WakeUpStep
<1>5. QED
    BY <1>1, <1>2, <1>3, <1>4, Zenon DEF EndEarly

LEMMA ContinueStep ==
    ASSUME TypeOK, Continue
    PROVE  CallsStep \/ \E p \in Players : QueueStep(p) /\ EntityStep(p)
<1> DEFINE t == Head(todo)
           rest == Tail(todo)
<1>1. t \in Task /\ rest \in Seq(Task) /\ todo \in Seq(Task) /\ todo # <<>>
    BY DEF TypeOK, Continue
<1>2. \A q \in Players : Ahead(q, todo) => t = Begin(q) \/ Ahead(q, rest)
    BY <1>1, AheadTail
<1>3. CASE t.call = "begin_or_dequeue"
  <2>1. t.player \in Players
    BY <1>1, <1>3, TasksByCall
  <2>2. \A q \in Players \ {t.player} : t # Begin(q)
    BY DEF Begin
  <2>3. Left(t.player, rest)
    BY <1>1, <1>2, <2>2 DEF Left
  <2>4. BeginOrDequeue(t.player, rest)
    BY <1>3 DEF Continue
  <2>5. QED
    BY <2>1, <2>3, <2>4, BeginOrDequeueStep
<1>4. CASE t.call = "dequeue"
  <2>1. t.player \in Players /\ \A q \in Players : t # Begin(q)
    BY <1>1, <1>4, TasksByCall DEF Begin
  <2>2. Left(t.player, rest)
    BY <1>1, <1>2, <2>1 DEF Left
  <2>3. RemoveAction(t.player, 1, rest) /\ UNCHANGED <<entityVars, aborted>>
    BY <1>4 DEF Continue
  <2>4. 1 \in 1..QueueLength /\ (1 <= Len(queue[t.player]) \/ queue[t.player] = <<>>)
    BY <2>1 DEF TypeOK, QueuesOK
  <2>5. QueueStep(t.player)
    BY <2>1, <2>2, <2>3, <2>4, RemovesStep
  <2>6. EntityStep(t.player)
    BY <2>3 DEF EntityStep
  <2>7. QED
    BY <2>1, <2>5, <2>6
<1>5. CASE t.call = "update_paths"
  <2>1. t.players \in SUBSET Players /\ \A q \in Players : t # Begin(q)
    BY <1>1, <1>5, TasksByCall DEF Begin
  <2>2. PathsAreUpdated(t.players, rest)
    BY <1>5 DEF Continue
  <2>3. QED
    BY <1>1, <1>2, <2>1, <2>2, PathsStep
<1>6. CASE t.call = "enqueue"
  <2>1. t \in EnqueueTask /\ t.player \in Players /\ \A q \in Players : t # Begin(q)
    BY <1>1, <1>6, TasksByCall DEF Begin, EnqueueTask
  <2>2. EnqueueAction(t, rest)
    BY <1>6 DEF Continue
  <2>3. QED
    BY <1>1, <1>2, <2>1, <2>2, EnqueueStep
<1>7. QED
    BY <1>1, <1>3, <1>4, <1>5, <1>6, TasksByCall

LEMMA PlayerStep ==
    ASSUME TypeOK, NEW p \in Players,
           \/ PlayerAction(p) \/ RequestDequeue(p) \/ Pause(p) \/ Arrive(p)
           \/ PassBy(p) \/ FindOverdue(p) \/ EndSleep(p)
    PROVE  \E q \in Players : QueueStep(q) /\ EntityStep(q)
<1>1. todo = <<>> /\ todo \in Seq(Task)
    BY DEF TypeOK, PlayerAction, RequestDequeue, Pause, Arrive, PassBy, FindOverdue, EndSleep, Runs, Idle
<1>2. Left(p, <<>>)
    BY <1>1 DEF Left
<1>3. ASSUME NEW phase \in Phases, SetPhase(p, phase, <<>>), phase = "queued" => pauses[p][0],
             UNCHANGED entityVars
      PROVE  QueueStep(p) /\ EntityStep(p)
    BY <1>2, <1>3, GoesStep DEF EntityStep
<1>4. CASE PlayerAction(p)
  <2>1. PICK type \in ActionTypes : \E e \in TargetsOf(type) : EnqueueAction(Enqueue(p, type, e, 0), <<>>)
    BY <1>4 DEF PlayerAction
  <2>2. PICK e \in TargetsOf(type) : EnqueueAction(Enqueue(p, type, e, 0), <<>>)
    BY <2>1
  <2>3. type \in Types /\ e \in Targets
    BY <2>1, <2>2 DEF TargetsOf, Targets
  <2>4. Enqueue(p, type, e, 0) \in EnqueueTask /\ Enqueue(p, type, e, 0).player = p
    BY <2>3 DEF Enqueue, EnqueueTask
  <2>5. QED
    BY <1>1, <2>2, <2>4, EnqueueStep
<1>5. CASE RequestDequeue(p)
  <2>1. PICK i \in 1..Len(queue[p]) :
            \/ /\ i > 1 \/ First(p).phase = "walking"
               /\ RemoveAction(p, i, <<>>)
               /\ UNCHANGED <<entityVars, aborted>>
            \/ i = 1 /\ EndEarly(p)
    BY <1>5 DEF RequestDequeue
  <2>2. i \in 1..QueueLength /\ i <= Len(queue[p])
    BY DEF TypeOK, QueuesOK
  <2>3. CASE RemoveAction(p, i, <<>>) /\ UNCHANGED <<entityVars, aborted>>
    <3>1. QueueStep(p)
      BY <1>1, <1>2, <2>2, <2>3, RemovesStep
    <3>2. QED
      BY <2>3, <3>1 DEF EntityStep
  <2>4. CASE EndEarly(p)
    BY <1>1, <2>4, EndEarlyStep
  <2>5. QED
    BY <2>1, <2>3, <2>4
<1>6. CASE Pause(p)
  <2>1. PICK paused \in BOOLEAN :
            \/ SetPause(p, Len(queue[p]), paused)
            \/ \E id \in {action_ids[p][i] : i \in 1..QueueLength} \ {0} :
                  SetPause(p, PlaceOf(p, id) - 1, paused)
    BY <1>6 DEF Pause
  <2>2. Len(queue[p]) \in 0..QueueLength
    BY DEF TypeOK, QueuesOK
  <2>3. \A id \in {action_ids[p][i] : i \in 1..QueueLength} : PlaceOf(p, id) - 1 \in 0..QueueLength
    <3>1. \A id \in {action_ids[p][i] : i \in 1..QueueLength} : PlaceOf(p, id) \in 1..QueueLength
      BY PlaceOfType DEF TypeOK
    <3>2. \A n \in 1..QueueLength : n - 1 \in 0..QueueLength
      OBVIOUS
    <3>3. QED
      BY <3>1, <3>2
  <2>4. PICK k \in 0..QueueLength : SetPause(p, k, paused)
    BY <2>1, <2>2, <2>3
  <2>5. QED
    BY <1>1, <2>4, SetPauseStep
<1>7. CASE Arrive(p)
  <2>1. CASE Perform(p, <<>>)
    BY <1>2, <2>1, PerformStep, PerformOnEntities DEF TypeOK
  <2>2. CASE SetPhase(p, "refused", <<>>) /\ UNCHANGED <<entityVars, aborted>>
    BY <1>3, <2>2 DEF Phases
  <2>3. QED
    BY <1>7, <2>1, <2>2 DEF Arrive
<1>8. CASE PassBy(p)
    BY <1>3, <1>8 DEF PassBy, Phases
<1>9. CASE FindOverdue(p)
    BY <1>9, AbortStep DEF FindOverdue, Abort, EntityStep, entityVars
<1>10. CASE EndSleep(p)
  <2>1. CASE WakeUp(p)
    BY <1>1, <2>1, WakeUpStep
  <2>2. CASE SetPhase(p, "retrying", <<>>) /\ UNCHANGED <<entityVars, aborted>>
    BY <1>3, <2>2 DEF Phases
  <2>3. QED
    BY <1>10, <2>1, <2>2 DEF EndSleep
<1>11. QED
    BY <1>4, <1>5, <1>6, <1>7, <1>8, <1>9, <1>10

LEMMA Steps ==
    ASSUME TypeOK, [Next]_vars
    PROVE  CallsStep \/ \E p \in Players : QueueStep(p) /\ EntityStep(p)
<1>1. CASE UNCHANGED vars
    BY <1>1 DEF vars, CallsStep, AllKept, Ahead, TypeOK
<1>2. CASE Continue
    BY <1>2, ContinueStep
<1>3. ASSUME NEW p \in Players,
             \/ PlayerAction(p) \/ RequestDequeue(p) \/ Pause(p) \/ Arrive(p)
             \/ PassBy(p) \/ FindOverdue(p) \/ EndSleep(p)
      PROVE  \E q \in Players : QueueStep(q) /\ EntityStep(q)
    BY <1>3, PlayerStep
<1>4. QED
    BY <1>1, <1>2, <1>3 DEF Next

\* An Assert that failed has failed for good: nothing sets aborted back.
LEMMA AbortedType ==
    ASSUME TypeOK, [Next]_vars
    PROVE  aborted' \in BOOLEAN
<1> SUFFICES UNCHANGED aborted \/ aborted' = TRUE
    BY DEF TypeOK
<1>1. ASSUME NEW p, NEW rest, Perform(p, rest)
      PROVE  UNCHANGED aborted \/ aborted' = TRUE
    BY <1>1, Zenon DEF Perform, Walk, PickUp, PutDown, PlaceInInventory, Sit, Unsit, FallAsleep, Abort
<1>2. ASSUME NEW p, WakeUp(p)
      PROVE  UNCHANGED aborted \/ aborted' = TRUE
    BY <1>2, Zenon DEF WakeUp, Abort
<1>3. CASE Continue
  <2>1. ASSUME NEW t, NEW rest,
               \/ BeginOrDequeue(t.player, rest)
               \/ PathsAreUpdated(t.players, rest)
               \/ EnqueueAction(t, rest)
               \/ UNCHANGED aborted
        PROVE  UNCHANGED aborted \/ aborted' = TRUE
      BY <1>1, <2>1, Zenon DEF BeginOrDequeue, PathsAreUpdated, EnqueueAction
  <2>2. Head(todo) \in Task
    BY <1>3 DEF Continue, TypeOK
  <2>3. \/ BeginOrDequeue(Head(todo).player, Tail(todo))
        \/ PathsAreUpdated(Head(todo).players, Tail(todo))
        \/ EnqueueAction(Head(todo), Tail(todo))
        \/ UNCHANGED aborted
    BY <1>3, <2>2, TasksByCall DEF Continue
  <2>4. QED
    BY ONLY <2>1, <2>3, Zenon
<1>4. ASSUME NEW p \in Players,
             \/ PlayerAction(p) \/ RequestDequeue(p) \/ Pause(p) \/ Arrive(p)
             \/ PassBy(p) \/ FindOverdue(p) \/ EndSleep(p)
      PROVE  UNCHANGED aborted \/ aborted' = TRUE
    BY <1>1, <1>2, <1>4, Zenon
       DEF PlayerAction, EnqueueAction, RequestDequeue, EndEarly, StaysRequested, Pause, SetPause,
           Arrive, PassBy, FindOverdue, EndSleep, Abort
<1>5. CASE UNCHANGED vars
    BY <1>5 DEF vars
<1>6. QED
    BY <1>3, <1>4, <1>5, Zenon DEF Next

LEMMA QueueStepType ==
    ASSUME QueuesOK, NEW p \in Players, QueueStep(p)
    PROVE  QueuesOK'
<1>1. CASE UNCHANGED queueVars
    BY <1>1 DEF QueuesOK, queueVars
<1>2. CASE Removes(p)
    BY <1>2, RemoveActionType DEF Removes
<1>3. CASE Goes(p)
  <2>1. PICK phase \in Phases : SetPhase(p, phase, todo')
    BY <1>3 DEF Goes
  <2>2. todo' \in Seq(Task)
    BY DEF QueueStep
  <2>3. QED
    BY <2>1, <2>2, SetPhaseType
<1>4. CASE queue[p] # <<>> /\ Merge(p, todo')
  <2>1. todo' \in Seq(Task)
    BY DEF QueueStep
  <2>2. QED
    BY <1>4, <2>1, MergeType
<1>5. CASE Appends(p)
    BY <1>5, AppendActionType DEF Appends
<1>6. CASE Requested(p)
  <2>1. queue[p] \in Seq(Action) /\ Len(queue[p]) \in Nat /\ DOMAIN queue[p] = 1..Len(queue[p])
    BY DEF QueuesOK
  <2> DEFINE changed == [queue[p] EXCEPT ![1].dequeue_requested = TRUE]
  <2>2. \A a \in Action : [a EXCEPT !.dequeue_requested = TRUE] \in Action
    BY DEF Action
  <2>3. changed = [k \in 1..Len(queue[p]) |->
                      IF k = 1 THEN [queue[p][1] EXCEPT !.dequeue_requested = TRUE] ELSE queue[p][k]]
    BY <2>1, Zenon
  <2>4. queue' = [queue EXCEPT ![p] = changed]
    BY <1>6 DEF Requested, QueuesOK
  <2> HIDE DEF changed
  <2>5. changed \in [1..Len(queue[p]) -> Action]
    BY <2>1, <2>2, <2>3
  <2>6. changed \in Seq(Action) /\ Len(changed) = Len(queue[p])
    BY <2>1, <2>5
  <2>7. queue' \in [Players -> Seq(Action)] /\ \A q \in Players : Len(queue'[q]) <= QueueLength
    BY <2>4, <2>6 DEF QueuesOK
  <2>8. QED
    BY <1>6, <2>7 DEF QueuesOK, Requested
<1>7. CASE Pauses(p)
  <2>1. PICK k \in 0..QueueLength, paused \in BOOLEAN : pauses' = [pauses EXCEPT ![p][k] = paused]
    BY <1>7 DEF Pauses
  <2>2. [pauses[p] EXCEPT ![k] = paused] \in [0..QueueLength -> BOOLEAN]
    BY DEF QueuesOK
  <2>3. pauses' = [pauses EXCEPT ![p] = [pauses[p] EXCEPT ![k] = paused]]
    BY <2>1 DEF QueuesOK
  <2>4. pauses' \in [Players -> [0..QueueLength -> BOOLEAN]]
    BY <2>2, <2>3 DEF QueuesOK
  <2>5. UNCHANGED <<queue, action_ids, next_id>>
    BY <1>7 DEF Pauses
  <2>6. QED
    BY <2>4, <2>5 DEF QueuesOK
<1>8. QED
    BY <1>1, <1>2, <1>3, <1>4, <1>5, <1>6, <1>7 DEF QueueStep

-----------------------------------------------------------------------------
(* Types *)

LEMMA TypeStep ==
    ASSUME TypeOK, [Next]_vars
    PROVE  TypeOK'
<1>1. aborted' \in BOOLEAN
    BY AbortedType
<1>2. CASE CallsStep
  <2>1. UNCHANGED <<queue, action_ids, pauses, next_id>> /\ UNCHANGED <<exists, holding, held_by, is_on, locked_by>>
    BY <1>2 DEF CallsStep, queueVars, entityVars
  <2>2. QueuesOK'
    BY <2>1 DEF TypeOK, QueuesOK
  <2>3. EntitiesOK'
    BY <2>1 DEF TypeOK, EntitiesOK
  <2>4. QED
    BY <1>1, <1>2, <2>2, <2>3 DEF TypeOK, CallsStep
<1>3. ASSUME NEW p \in Players, QueueStep(p), EntityStep(p)
      PROVE  TypeOK'
  <2>1. QueuesOK'
    BY <1>3, QueueStepType DEF TypeOK
  <2>2. EntitiesOK'
    BY <1>3, EntityStepType DEF TypeOK
  <2>3. QED
    BY <1>1, <1>3, <2>1, <2>2 DEF TypeOK, QueueStep
<1>4. QED
    BY <1>2, <1>3, Steps

LEMMA TypeInit == Init => TypeOK
<1> SUFFICES ASSUME Init PROVE TypeOK
    OBVIOUS
<1>1. QueuesOK
    BY DEF Init, QueuesOK
<1>2. EntitiesOK
    BY DEF Init, EntitiesOK, Targets
<1>3. todo = <<>> /\ aborted = FALSE
    BY Zenon DEF Init
<1>4. todo \in Seq(Task)
    BY <1>3
<1>5. aborted \in BOOLEAN
    BY <1>3, Zenon
<1>6. QED
    BY <1>1, <1>2, <1>4, <1>5 DEF TypeOK

\* The room's queues, ids and pauses stay within their arrays, and the calls that are still to be
\* made are calls, whatever handlers call each other in turns (room_server.cpp 1194-1681).
THEOREM RoomTypes == Spec => []TypeOK
<1>1. QED
    BY TypeInit, TypeStep, PTL DEF Spec

-----------------------------------------------------------------------------
(* The entities *)

LEMMA HoldsAgreeStep ==
    ASSUME EntitiesOK, HoldsAgree, NEW p \in Players, EntityStep(p)
    PROVE  HoldsAgree'
<1> USE DEF EntitiesOK, HoldsAgree
<1>1. NoEntity \notin Entities /\ NoPlayer \notin Players
    OBVIOUS
<1>2. CASE UNCHANGED entityVars
    BY <1>2 DEF entityVars
<1>3. ASSUME NEW e \in exists, holding[p] = NoEntity, held_by[e] \in {NoPlayer, p},
             TakeUp(p, e), UNCHANGED exists
      PROVE  HoldsAgree'
    BY <1>1, <1>3 DEF TakeUp
<1>4. CASE holding[p] # NoEntity /\ LetGo(p, holding[p]) /\ UNCHANGED exists
  <2>1. holding[p] \in Entities
    BY <1>4 DEF Targets
  <2>2. QED
    BY <1>1, <1>4, <2>1 DEF LetGo
<1>5. ASSUME NEW e \in exists, held_by[e] \in {NoPlayer, p}, Destroy(p, e)
      PROVE  HoldsAgree'
  <2>1. CASE held_by[e] = p
    <3>1. holding[p] = e /\ LetGo(p, e) /\ exists' = exists \ {e}
      BY <1>5, <2>1 DEF Destroy
    <3>2. QED
      BY <1>1, <2>1, <3>1 DEF LetGo
  <2>2. CASE held_by[e] = NoPlayer /\ held_by[e] # p
    <3>1. UNCHANGED <<holding, held_by>> /\ exists' = exists \ {e}
      BY <1>5, <2>2 DEF Destroy
    <3>2. \A q \in Players : holding[q] # e
      BY <1>1, <2>2
    <3>3. QED
      BY <3>1, <3>2
  <2>3. QED
    BY <1>5, <2>1, <2>2
<1>6. CASE UNCHANGED <<exists, holding, held_by>>
    BY <1>6
<1>7. QED
    BY <1>2, <1>3, <1>4, <1>5, <1>6 DEF EntityStep

LEMMA SeatIsLockedStep ==
    ASSUME EntitiesOK, SeatIsLocked, NEW p \in Players, EntityStep(p)
    PROVE  SeatIsLocked'
<1> USE DEF EntitiesOK, SeatIsLocked
<1>1. NoPlayer \notin Players
    OBVIOUS
<1>2. CASE UNCHANGED <<exists, is_on, locked_by>>
    BY <1>2
<1>3. ASSUME NEW e \in exists, locked_by[e] = NoPlayer, Destroy(p, e), UNCHANGED <<is_on, locked_by>>
      PROVE  SeatIsLocked'
  <2>1. \A q \in Players : is_on[q] # e
    BY <1>1, <1>3 DEF Targets
  <2>2. QED
    BY <1>3, <2>1 DEF Destroy
<1>4. ASSUME NEW e \in exists, locked_by[e] = NoPlayer, GetOn(p, e), UNCHANGED exists
      PROVE  SeatIsLocked'
  <2>1. \A q \in Players : is_on[q] # e
    BY <1>1, <1>4
  <2>2. QED
    BY <1>4, <2>1 DEF GetOn, Targets
<1>5. ASSUME NEW e \in Targets, is_on[p] = e, GetOff(p, e), UNCHANGED exists
      PROVE  SeatIsLocked'
  <2>1. \A q \in Players \ {p} : is_on[q] = NoEntity \/ is_on[q] # e
    BY <1>5
  <2>2. QED
    BY <1>5, <2>1 DEF GetOff, Targets
<1>6. QED
    BY <1>2, <1>3, <1>4, <1>5 DEF EntityStep, entityVars

\* What a player holds and what an entity is held by agree and are in the room, for any number of
\* players and entities: set_held (room_server.cpp 840-856) is all that changes them.
THEOREM HandsAgree == Spec => []HoldsAgree
<1>1. Init => HoldsAgree
    BY DEF Init, HoldsAgree
<1>2. TypeOK /\ HoldsAgree /\ [Next]_vars => HoldsAgree'
  <2> SUFFICES ASSUME TypeOK, HoldsAgree, [Next]_vars PROVE HoldsAgree'
    OBVIOUS
  <2>1. CASE CallsStep
    BY <2>1 DEF CallsStep, entityVars, HoldsAgree
  <2>2. QED
    BY <2>1, Steps, HoldsAgreeStep DEF TypeOK
<1>3. QED
    BY <1>1, <1>2, RoomTypes, PTL DEF Spec

\* What a player sits or lies on stays in the room and locked by that player until it gets up, so
\* no two players are on one chair or bed (lock_item_entity, room_server.cpp 858-877).
THEOREM SeatsAreLocked == Spec => []SeatIsLocked
<1>1. Init => SeatIsLocked
    BY DEF Init, SeatIsLocked
<1>2. TypeOK /\ SeatIsLocked /\ [Next]_vars => SeatIsLocked'
  <2> SUFFICES ASSUME TypeOK, SeatIsLocked, [Next]_vars PROVE SeatIsLocked'
    OBVIOUS
  <2>1. CASE CallsStep
    BY <2>1 DEF CallsStep, entityVars, SeatIsLocked
  <2>2. QED
    BY <2>1, Steps, SeatIsLockedStep DEF TypeOK
<1>3. QED
    BY <1>1, <1>2, RoomTypes, PTL DEF Spec

-----------------------------------------------------------------------------
(* The first actions *)

\* A step of one player's queue leaves the others alone.
LEMMA OthersStay ==
    ASSUME QueuesOK, NEW p \in Players, QueueStep(p), NEW q \in Players, q # p
    PROVE  /\ queue'[q] = queue[q] /\ pauses'[q] = pauses[q] /\ action_ids'[q] = action_ids[q]
           /\ Ahead(q, todo) => Ahead(q, todo')
<1> USE DEF QueuesOK
<1>1. CASE UNCHANGED queueVars /\ AllKept
    BY <1>1 DEF queueVars, AllKept
<1>2. CASE Removes(p) /\ OthersKept(p)
    BY <1>2 DEF Removes, RemoveAction, OthersKept
<1>3. CASE Goes(p) /\ OthersKept(p)
    BY <1>3 DEF Goes, SetPhase, OthersKept
<1>4. CASE Merge(p, todo') /\ AllKept
    BY <1>4 DEF Merge, AllKept
<1>5. CASE Appends(p) /\ AllKept
    BY <1>5 DEF Appends, AppendAction, AllKept
<1>6. CASE Requested(p)
    BY <1>6 DEF Requested, Ahead
<1>7. CASE Pauses(p)
  <2>1. ~Ahead(q, todo)
    BY <1>7 DEF Pauses, Ahead
  <2>2. QED
    BY <1>7, <2>1 DEF Pauses
<1>8. QED
    BY <1>1, <1>2, <1>3, <1>4, <1>5, <1>6, <1>7 DEF QueueStep

\* The first action of a queue that is not paused has begun, or is still to be begun by what
\* the server is doing.
FrontOK(p) == queue[p] # <<>> /\ ~pauses[p][0] /\ First(p).phase = "queued" => Ahead(p, todo)

BeginsAhead == \A p \in Players : FrontOK(p)

LEMMA FrontStays ==
    ASSUME QueuesOK, NEW p \in Players, FrontOK(p), QueueStep(p)
    PROVE  FrontOK(p)'
<1> SUFFICES ASSUME queue'[p] # <<>>, ~pauses'[p][0], queue'[p][1].phase = "queued"
             PROVE  Ahead(p, todo')
    BY DEF FrontOK, First, Ahead, Begin
<1>1. queue[p] \in Seq(Action) /\ Len(queue[p]) \in Nat /\ DOMAIN queue[p] = 1..Len(queue[p])
    BY DEF QueuesOK
<1>2. ASSUME queue[p] # <<>>, pauses'[p][0] = pauses[p][0], queue'[p][1].phase = queue[p][1].phase,
             Ahead(p, todo) => Ahead(p, todo')
      PROVE  Ahead(p, todo')
    BY <1>2 DEF FrontOK, First
<1>3. CASE UNCHANGED queueVars /\ AllKept
    BY <1>2, <1>3 DEF queueVars, AllKept
<1>4. CASE Removes(p)
  <2>1. PICK i \in 1..QueueLength, rest \in Seq(Task) :
            /\ RemoveAction(p, i, rest)
            /\ i = 1 \/ todo = <<>>
            /\ i <= Len(queue[p]) \/ queue[p] = <<>>
    BY <1>4 DEF Removes
  <2>2. queue'[p] = Without(queue[p], i) /\ pauses'[p] = PausesWithout(p, i) /\ todo' = NextToBegin(p, i) \o rest
    BY <2>1 DEF RemoveAction, QueueWithout, QueuesOK
  <2>3. Len(queue[p]) > 1
    <3>1. /\ Without(queue[p], i) \in Seq(Action)
          /\ Len(queue[p]) > 0 => Len(Without(queue[p], i)) = Len(queue[p]) - 1
          /\ Len(queue[p]) = 0 => Len(Without(queue[p], i)) = 0
      <4>1. i \in Nat
        OBVIOUS
      <4>2. QED
        BY <1>1, <4>1, WithoutType, Zenon
    <3>2. Len(Without(queue[p], i)) # 0
      BY <2>2, <3>1
    <3>3. QED
      BY <1>1, <3>1, <3>2
  <2>4. CASE i = 1
    <3>1. ~PausesWithout(p, i)[0]
      BY <2>2
    <3>2. NextToBegin(p, i) = <<Begin(p)>>
      BY <2>3, <2>4, <3>1 DEF NextToBegin
    <3>3. Ahead(p, <<Begin(p)>> \o rest)
      BY <2>1, AheadBegin
    <3>4. QED
      BY <2>2, <3>2, <3>3 DEF Ahead
  <2>5. CASE i > 1
    <3>1. Without(queue[p], i)[1] = queue[p][1]
      BY <1>1, <2>3, <2>5 DEF Without
    <3>2. PausesWithout(p, i)[0] = pauses[p][0]
      <4>1. 0 \in 0..QueueLength /\ 0 # i - 1 /\ ~(0 >= i) /\ 0 # Len(queue[p])
        BY <2>3, <2>5
      <4>2. QED
        BY <4>1 DEF PausesWithout
    <3>3. ~Ahead(p, todo)
      BY <2>1, <2>5 DEF Ahead
    <3>4. QED
      BY <1>1, <2>2, <2>3, <3>1, <3>2, <3>3 DEF FrontOK, First
  <2>6. QED
    BY <2>4, <2>5
<1>5. CASE Goes(p)
  <2>1. PICK phase \in Phases : SetPhase(p, phase, todo') /\ (phase = "queued" => pauses[p][0])
    BY <1>5 DEF Goes
  <2>2. queue'[p] = [queue[p] EXCEPT ![1].phase = phase] /\ pauses'[p] = pauses[p]
    BY <2>1 DEF SetPhase, QueuesOK
  <2>3. queue[p] # <<>>
    BY <1>1, <2>2
  <2>4. 1 \in DOMAIN queue[p] /\ queue[p][1] \in Action
    BY <1>1, <2>3
  <2>5. queue'[p][1].phase = phase
    BY <2>2, <2>4 DEF Action
  <2>6. QED
    BY <2>1, <2>2, <2>5
<1>6. CASE queue[p] # <<>> /\ Merge(p, todo') /\ AllKept
  <2>1. queue'[p] = [queue[p] EXCEPT ![Len(queue[p])].type = "MOVE"] /\ pauses'[p] = pauses[p]
    BY <1>6 DEF Merge, QueuesOK
  <2>2. 1 \in DOMAIN queue[p] /\ queue[p][1] \in Action
    BY <1>1, <1>6
  <2>3. queue'[p][1].phase = queue[p][1].phase
    BY <1>1, <2>1, <2>2 DEF Action
  <2>4. QED
    BY <1>2, <1>6, <2>1, <2>3 DEF AllKept
<1>7. CASE Appends(p) /\ AllKept
  <2>1. PICK type \in Types, e \in Targets, rest \in Seq(Task) : AppendAction(p, type, e, rest)
    BY <1>7 DEF Appends
  <2> DEFINE new == [type |-> type, target |-> e, id |-> next_id, phase |-> "queued", dequeue_requested |-> FALSE]
  <2>2. /\ queue'[p] = Append(queue[p], new)
        /\ todo' = (IF Len(queue[p]) = 0 /\ ~pauses[p][0] THEN <<Begin(p)>> ELSE <<>>) \o rest
    BY <2>1 DEF AppendAction, QueuesOK
  <2>3. pauses'[p] = [pauses[p] EXCEPT ![Len(queue[p]) + 1] = FALSE]
    BY <2>1 DEF AppendAction, QueuesOK
  <2>4. pauses'[p][0] = pauses[p][0]
    <3>1. pauses[p] \in [0..QueueLength -> BOOLEAN] /\ 0 \in 0..QueueLength
      BY DEF QueuesOK
    <3>2. 0 # Len(queue[p]) + 1
      BY <1>1
    <3>3. QED
      BY <2>3, <3>1, <3>2, Zenon
  <2> HIDE DEF new
  <2>5. CASE queue[p] = <<>>
    <3>1. todo' = <<Begin(p)>> \o rest
      BY <2>2, <2>4, <2>5
    <3>2. Ahead(p, <<Begin(p)>> \o rest)
      BY <2>1, AheadBegin
    <3>3. QED
      BY <3>1, <3>2 DEF Ahead
  <2>6. CASE queue[p] # <<>>
    <3>1. queue'[p][1] = queue[p][1]
      BY <1>1, <2>2, <2>6
    <3>2. QED
      BY <1>2, <1>7, <2>4, <2>6, <3>1 DEF AllKept
  <2>7. QED
    BY <2>5, <2>6
<1>8. CASE Requested(p)
  <2>1. queue'[p] = [queue[p] EXCEPT ![1].dequeue_requested = TRUE] /\ pauses'[p] = pauses[p] /\ todo' = todo
    BY <1>8 DEF Requested, QueuesOK
  <2>2. queue[p] # <<>>
    BY <1>1, <2>1
  <2>3. 1 \in DOMAIN queue[p] /\ queue[p][1] \in Action
    BY <1>1, <2>2
  <2>4. queue'[p][1].phase = queue[p][1].phase
    BY <1>1, <2>1, <2>3 DEF Action
  <2>5. QED
    BY <1>2, <2>1, <2>2, <2>4 DEF Ahead
<1>9. CASE Pauses(p)
  <2>1. PICK k \in 0..QueueLength, paused \in BOOLEAN :
            /\ pauses' = [pauses EXCEPT ![p][k] = paused]
            /\ todo' = IF ~paused /\ k = 0 /\ queue[p] # <<>> THEN <<Begin(p)>> ELSE <<>>
            /\ queue' = queue
            /\ todo = <<>>
    BY <1>9 DEF Pauses
  <2>2. CASE k = 0
    <3>1. pauses'[p][0] = paused
      BY <2>1, <2>2 DEF QueuesOK
    <3>2. todo' = <<Begin(p)>>
      BY <2>1, <2>2, <3>1
    <3>3. QED
      BY <3>2 DEF Ahead
  <2>3. CASE k # 0
    <3>1. pauses'[p][0] = pauses[p][0]
      BY <2>1, <2>3 DEF QueuesOK
    <3>2. ~Ahead(p, todo)
      BY <2>1 DEF Ahead
    <3>3. QED
      BY <2>1, <3>1, <3>2 DEF FrontOK, First
  <2>4. QED
    BY <2>2, <2>3
<1>10. QED
    BY <1>3, <1>4, <1>5, <1>6, <1>7, <1>8, <1>9 DEF QueueStep

\* The first action of a queue that is not paused has begun when the server is idle: whatever a
\* handler refuses, dequeues or begins on the way, it leaves no queue waiting for nothing
\* (dequeue_player_action, enqueue_player_action_ and the pause handler, room_server.cpp 1568-1681).
THEOREM NoQueueIsForgotten == Spec => []FrontHasBegun
<1>1. Init => BeginsAhead
    BY DEF Init, BeginsAhead, FrontOK
<1>2. TypeOK /\ BeginsAhead /\ [Next]_vars => BeginsAhead'
  <2> SUFFICES ASSUME TypeOK, BeginsAhead, [Next]_vars, NEW q \in Players PROVE FrontOK(q)'
    BY DEF BeginsAhead
  <2>1. FrontOK(q) /\ QueuesOK
    BY DEF BeginsAhead, TypeOK
  <2>2. CASE CallsStep
    <3>1. queue' = queue /\ pauses' = pauses /\ (Ahead(q, todo) => Ahead(q, todo'))
      BY <2>2 DEF CallsStep, queueVars, AllKept
    <3>2. QED
      BY <2>1, <3>1 DEF FrontOK, First, Ahead, Begin
  <2>3. ASSUME NEW p \in Players, QueueStep(p) PROVE FrontOK(q)'
    <3>1. CASE p = q
      BY <2>1, <2>3, <3>1, FrontStays
    <3>2. CASE p # q
      <4>1. queue'[q] = queue[q] /\ pauses'[q] = pauses[q] /\ (Ahead(q, todo) => Ahead(q, todo'))
        BY <2>1, <2>3, <3>2, OthersStay
      <4>2. QED
        BY <2>1, <4>1 DEF FrontOK, First, Ahead, Begin
    <3>3. QED
      BY <3>1, <3>2
  <2>4. QED
    BY <2>2, <2>3, Steps
<1>3. BeginsAhead => FrontHasBegun
    BY DEF BeginsAhead, FrontOK, FrontHasBegun, Idle, Ahead
<1>4. QED
    BY <1>1, <1>2, <1>3, RoomTypes, PTL DEF Spec

-----------------------------------------------------------------------------
(* The ids of the actions *)

SameIds(p) ==
    /\ Len(queue'[p]) = Len(queue[p])
    /\ \A k \in 1..Len(queue[p]) : queue'[p][k].id = queue[p][k].id /\ action_ids'[p][k] = action_ids[p][k]
    /\ queue'[p] # queue[p] => pauses'[p] = pauses[p]
    /\ next_id' = next_id

Removed(p) ==
    \E i \in 1..Len(queue[p]) :
        /\ queue'[p] = Without(queue[p], i)
        /\ action_ids'[p] = IdsWithout(p, i)
        /\ pauses'[p] = PausesWithout(p, i)
        /\ next_id' = next_id

Appended(p) ==
    /\ Len(queue'[p]) = Len(queue[p]) + 1
    /\ Len(queue[p]) < QueueLength
    /\ \A k \in 1..Len(queue[p]) : queue'[p][k].id = queue[p][k].id /\ action_ids'[p][k] = action_ids[p][k]
    /\ queue'[p][Len(queue[p]) + 1].id = next_id
    /\ action_ids'[p][Len(queue[p]) + 1] = next_id
    /\ \A k \in 0..Len(queue[p]) : pauses'[p][k] = pauses[p][k]
    /\ next_id' = next_id + 1

LEMMA IdsOfStep ==
    ASSUME QueuesOK, NEW p \in Players, QueueStep(p)
    PROVE  SameIds(p) \/ Removed(p) \/ Appended(p)
<1>1. /\ queue[p] \in Seq(Action) /\ Len(queue[p]) \in Nat /\ DOMAIN queue[p] = 1..Len(queue[p])
      /\ \A k \in 1..Len(queue[p]) : queue[p][k] \in Action
    BY DEF QueuesOK
<1>2. CASE UNCHANGED queueVars
    BY <1>2 DEF queueVars, SameIds
<1>3. CASE Removes(p)
  <2>1. PICK i \in 1..QueueLength, rest \in Seq(Task) :
            /\ RemoveAction(p, i, rest)
            /\ i <= Len(queue[p]) \/ queue[p] = <<>>
    BY <1>3 DEF Removes
  <2>2. /\ queue'[p] = Without(queue[p], i) /\ pauses'[p] = PausesWithout(p, i)
        /\ action_ids'[p] = IdsWithout(p, i) /\ next_id' = next_id
    BY <2>1 DEF RemoveAction, QueueWithout, QueuesOK
  <2>3. CASE i <= Len(queue[p])
    <3>1. i \in 1..Len(queue[p])
      BY <1>1, <2>3
    <3>2. QED
      BY <2>2, <3>1 DEF Removed
  <2>4. CASE queue[p] = <<>>
    <3>1. i \in Nat
      OBVIOUS
    <3>2. Without(queue[p], i) \in Seq(Action) /\ Len(Without(queue[p], i)) = 0
      <4>1. Len(queue[p]) = 0
        BY <2>4
      <4>2. QED
        BY <1>1, <3>1, <4>1, WithoutType, Zenon
    <3>3. queue'[p] = <<>>
      BY <2>2, <3>2
    <3>4. QED
      BY <2>2, <2>4, <3>3 DEF SameIds
  <2>5. QED
    BY <2>1, <2>3, <2>4
<1>4. CASE Goes(p)
  <2>1. PICK phase \in Phases : SetPhase(p, phase, todo')
    BY <1>4 DEF Goes
  <2>2. /\ queue'[p] = [queue[p] EXCEPT ![1].phase = phase] /\ pauses'[p] = pauses[p]
        /\ action_ids' = action_ids /\ next_id' = next_id
    BY <2>1 DEF SetPhase, QueuesOK
  <2>3. Len(queue'[p]) = Len(queue[p]) /\ \A k \in 1..Len(queue[p]) : queue'[p][k].id = queue[p][k].id
    BY <1>1, <2>2 DEF Action
  <2>4. QED
    BY <2>2, <2>3 DEF SameIds
<1>5. CASE Merge(p, todo')
  <2>1. /\ queue'[p] = [queue[p] EXCEPT ![Len(queue[p])].type = "MOVE"] /\ pauses'[p] = pauses[p]
        /\ action_ids' = action_ids /\ next_id' = next_id
    BY <1>5 DEF Merge, QueuesOK
  <2>2. Len(queue'[p]) = Len(queue[p]) /\ \A k \in 1..Len(queue[p]) : queue'[p][k].id = queue[p][k].id
    BY <1>1, <2>1 DEF Action
  <2>3. QED
    BY <2>1, <2>2 DEF SameIds
<1>6. CASE Requested(p)
  <2>1. /\ queue'[p] = [queue[p] EXCEPT ![1].dequeue_requested = TRUE] /\ pauses'[p] = pauses[p]
        /\ action_ids' = action_ids /\ next_id' = next_id
    BY <1>6 DEF Requested, QueuesOK
  <2>2. Len(queue'[p]) = Len(queue[p]) /\ \A k \in 1..Len(queue[p]) : queue'[p][k].id = queue[p][k].id
    BY <1>1, <2>1 DEF Action
  <2>3. QED
    BY <2>1, <2>2 DEF SameIds
<1>7. CASE Pauses(p)
    BY <1>7 DEF Pauses, SameIds
<1>8. CASE Appends(p)
  <2>1. PICK type \in Types, e \in Targets, rest \in Seq(Task) : AppendAction(p, type, e, rest)
    BY <1>8 DEF Appends
  <2> DEFINE new == [type |-> type, target |-> e, id |-> next_id, phase |-> "queued", dequeue_requested |-> FALSE]
             n == Len(queue[p])
  <2>2. queue'[p] = Append(queue[p], new) /\ next_id' = next_id + 1 /\ n < QueueLength /\ new.id = next_id
    BY <1>8, <2>1 DEF AppendAction, Appends, QueuesOK
  <2>3. action_ids'[p] = [action_ids[p] EXCEPT ![n + 1] = next_id]
    BY <2>1 DEF AppendAction, QueuesOK
  <2>4. pauses'[p] = [pauses[p] EXCEPT ![n + 1] = FALSE]
    BY <2>1 DEF AppendAction, QueuesOK
  <2> HIDE DEF new
  <2>5. /\ Len(queue'[p]) = n + 1 /\ queue'[p][n + 1] = new
        /\ \A k \in 1..n : queue'[p][k] = queue[p][k]
    BY <1>1, <2>2
  <2>6. /\ \A k \in 1..n : k # n + 1 /\ k \in 1..QueueLength
        /\ \A k \in 0..n : k # n + 1 /\ k \in 0..QueueLength
        /\ n + 1 \in 1..QueueLength
    BY <1>1, <2>2
  <2>7. action_ids'[p][n + 1] = next_id /\ \A k \in 1..n : action_ids'[p][k] = action_ids[p][k]
    BY <2>3, <2>6 DEF QueuesOK
  <2>8. \A k \in 0..n : pauses'[p][k] = pauses[p][k]
    <3>1. pauses[p] \in [0..QueueLength -> BOOLEAN]
      BY DEF QueuesOK
    <3>2. QED
      BY <2>4, <2>6, <3>1, Zenon
  <2>9. QED
    BY <2>2, <2>5, <2>7, <2>8 DEF Appended
<1>9. QED
    BY <1>2, <1>3, <1>4, <1>5, <1>6, <1>7, <1>8 DEF QueueStep

IdsBelow == \A p \in Players : \A k \in 1..Len(queue[p]) : queue[p][k].id \in Nat /\ queue[p][k].id < next_id

InOrder(p) ==
    \A i \in 1..Len(queue[p]) :
        /\ action_ids[p][i] = queue[p][i].id
        /\ \A j \in 1..(i - 1) : queue[p][j].id < queue[p][i].id

Apart(p, q) ==
    \A i \in 1..Len(queue[p]), j \in 1..Len(queue[q]) : queue[p][i].id # queue[q][j].id

IdsInv ==
    /\ IdsBelow
    /\ \A p \in Players : InOrder(p)
    /\ \A p, q \in Players : p # q => Apart(p, q)

\* What is in the queue after a removal was in it before, in the same order.
LEMMA RemovedIds ==
    ASSUME QueuesOK, NEW p \in Players, NEW i \in 1..Len(queue[p])
    PROVE  /\ Len(Without(queue[p], i)) = Len(queue[p]) - 1
           /\ \A k \in 1..(Len(queue[p]) - 1) :
                 LET at == IF k < i THEN k ELSE k + 1 IN
                 /\ at \in 1..Len(queue[p])
                 /\ Without(queue[p], i)[k] = queue[p][at]
                 /\ IdsWithout(p, i)[k] = action_ids[p][at]
<1>1. queue[p] \in Seq(Action) /\ Len(queue[p]) \in Nat /\ Len(queue[p]) <= QueueLength /\ i \in Nat
    BY DEF QueuesOK
<1>2. Len(Without(queue[p], i)) = Len(queue[p]) - 1
  <2>1. Len(queue[p]) > 0
    BY <1>1
  <2>2. QED
    BY <1>1, <2>1, WithoutType, Zenon
<1>3. ASSUME NEW k \in 1..(Len(queue[p]) - 1)
      PROVE  LET at == IF k < i THEN k ELSE k + 1 IN
             /\ at \in 1..Len(queue[p])
             /\ Without(queue[p], i)[k] = queue[p][at]
             /\ IdsWithout(p, i)[k] = action_ids[p][at]
  <2>1. k \in 1..QueueLength /\ k < Len(queue[p]) /\ k + 1 \in 1..Len(queue[p]) /\ k \in 1..Len(queue[p])
    BY <1>1
  <2>2. QED
    BY <1>1, <2>1 DEF Without, IdsWithout
<1>4. QED
    BY <1>2, <1>3

LEMMA IdsInvStep ==
    ASSUME QueuesOK, IdsInv, NEW p \in Players, QueueStep(p)
    PROVE  IdsInv'
<1> DEFINE n == Len(queue[p])
<1>1. /\ n \in Nat /\ next_id \in Nat
      /\ \A q \in Players : Len(queue[q]) \in Nat
      /\ \A q \in Players, k \in Nat : k \in 1..Len(queue[q]) => queue[q][k].id \in Nat
    BY DEF QueuesOK, IdsInv, IdsBelow
<1>2. \A q \in Players \ {p} : queue'[q] = queue[q] /\ action_ids'[q] = action_ids[q]
    BY OthersStay
<1>3. next_id' \in Nat /\ next_id <= next_id'
    BY <1>1, IdsOfStep DEF SameIds, Removed, Appended
\* Every id of p was there before, or is the new one.
<1>4. \A k \in 1..Len(queue'[p]) :
         \/ \E j \in 1..n : queue'[p][k].id = queue[p][j].id
         \/ queue'[p][k].id = next_id /\ next_id' = next_id + 1
  <2>1. CASE SameIds(p)
    BY <2>1 DEF SameIds
  <2>2. CASE Removed(p)
    <3>1. PICK i \in 1..n : queue'[p] = Without(queue[p], i) /\ action_ids'[p] = IdsWithout(p, i)
      BY <2>2 DEF Removed
    <3> DEFINE at(k) == IF k < i THEN k ELSE k + 1
    <3>2. /\ Len(queue'[p]) = n - 1
          /\ \A k \in 1..(n - 1) : /\ at(k) \in 1..n
                                   /\ queue'[p][k] = queue[p][at(k)]
                                   /\ action_ids'[p][k] = action_ids[p][at(k)]
      BY <3>1, RemovedIds
    <3> HIDE DEF at
    <3>3. \A k \in 1..Len(queue'[p]) : \E j \in 1..n : queue'[p][k].id = queue[p][j].id
      BY <3>2
    <3>4. QED
      BY <3>3
  <2>3. CASE Appended(p)
    <3>1. \A k \in 1..Len(queue'[p]) : k \in 1..n \/ k = n + 1
      BY <1>1, <2>3 DEF Appended
    <3>2. QED
      BY <2>3, <3>1 DEF Appended
  <2>4. QED
    BY <2>1, <2>2, <2>3, IdsOfStep
<1>5. IdsBelow'
  <2>1. \A k \in 1..Len(queue'[p]) : queue'[p][k].id \in Nat /\ queue'[p][k].id < next_id'
    <3>1. \A j \in 1..n : queue[p][j].id \in Nat /\ queue[p][j].id < next_id
      BY DEF IdsInv, IdsBelow
    <3>2. \A k \in Nat : k < next_id => k < next_id'
      BY <1>1, <1>3
    <3>3. next_id' = next_id + 1 => next_id < next_id'
      BY <1>1
    <3>4. QED
      BY <1>1, <1>4, <3>1, <3>2, <3>3, Zenon
  <2>2. \A q \in Players \ {p} : \A k \in 1..Len(queue'[q]) : queue'[q][k].id \in Nat /\ queue'[q][k].id < next_id'
    BY <1>1, <1>2, <1>3 DEF IdsInv, IdsBelow
  <2>3. QED
    BY <2>1, <2>2 DEF IdsBelow
<1>6. ASSUME NEW q \in Players, q # p
      PROVE  Apart(p, q)' /\ Apart(q, p)'
  <2>1. queue'[q] = queue[q] /\ Apart(p, q)
    BY <1>2, <1>6 DEF IdsInv
  <2>2. \A j \in 1..Len(queue[q]) : queue[q][j].id # next_id
    BY <1>1 DEF IdsInv, IdsBelow
  <2>3. \A k \in 1..Len(queue'[p]), j \in 1..Len(queue[q]) : queue'[p][k].id # queue[q][j].id
    BY <1>4, <2>1, <2>2 DEF Apart
  <2>4. QED
    BY <2>1, <2>3 DEF Apart
<1>7. InOrder(p)'
  <2>1. InOrder(p)
    BY DEF IdsInv
  <2>2. CASE SameIds(p)
    BY <1>1, <2>1, <2>2 DEF SameIds, InOrder
  <2>3. CASE Removed(p)
    <3>1. PICK i \in 1..n : queue'[p] = Without(queue[p], i) /\ action_ids'[p] = IdsWithout(p, i)
      BY <2>3 DEF Removed
    <3> DEFINE at(k) == IF k < i THEN k ELSE k + 1
    <3>2. /\ Len(queue'[p]) = n - 1
          /\ \A k \in 1..(n - 1) : /\ at(k) \in 1..n
                                   /\ queue'[p][k] = queue[p][at(k)]
                                   /\ action_ids'[p][k] = action_ids[p][at(k)]
      BY <3>1, RemovedIds
    <3>3. \A k \in 1..(n - 1) : \A j \in 1..(k - 1) : j \in 1..(n - 1) /\ at(j) \in 1..(at(k) - 1)
      BY <1>1
    <3> HIDE DEF at
    <3>4. \A k \in 1..(n - 1) : action_ids'[p][k] = queue'[p][k].id
      BY <2>1, <3>2 DEF InOrder
    <3>5. \A k \in 1..(n - 1) : \A j \in 1..(k - 1) : queue'[p][j].id < queue'[p][k].id
      BY <2>1, <3>2, <3>3 DEF InOrder
    <3>6. QED
      BY <3>2, <3>4, <3>5 DEF InOrder
  <2>4. CASE Appended(p)
    <3>1. \A k \in 1..Len(queue'[p]) : k \in 1..n \/ k = n + 1
      BY <1>1, <2>4 DEF Appended
    <3>2. \A k \in 1..n : k - 1 \in Nat /\ \A j \in 1..(k - 1) : j \in 1..n
      BY <1>1
    <3>3. \A j \in 1..n : queue[p][j].id < next_id
      BY DEF IdsInv, IdsBelow
    <3>4. \A k \in 1..Len(queue'[p]) : action_ids'[p][k] = queue'[p][k].id
      BY <2>1, <2>4, <3>1 DEF Appended, InOrder
    <3>5. \A k \in 1..n : \A j \in 1..(k - 1) : queue'[p][j].id < queue'[p][k].id
      BY <2>1, <2>4, <3>2 DEF Appended, InOrder
    <3>6. \A j \in 1..((n + 1) - 1) : queue'[p][j].id < queue'[p][n + 1].id
      BY <1>1, <2>4, <3>3 DEF Appended
    <3>7. QED
      BY <3>1, <3>4, <3>5, <3>6 DEF InOrder
  <2>5. QED
    BY <2>2, <2>3, <2>4, IdsOfStep
<1>8. \A q \in Players : InOrder(q)'
  <2>1. \A q \in Players \ {p} : InOrder(q)'
    BY <1>2 DEF IdsInv, InOrder
  <2>2. QED
    BY <1>7, <2>1
<1>9. \A q, r \in Players : q # r => Apart(q, r)'
  <2>1. ASSUME NEW q \in Players \ {p}, NEW r \in Players \ {p}, q # r
        PROVE  Apart(q, r)'
    BY <1>2, <2>1 DEF IdsInv, Apart
  <2>2. QED
    BY <1>6, <2>1
<1>10. QED
    BY <1>5, <1>8, <1>9 DEF IdsInv

LEMMA IdsInvAlways == Spec => []IdsInv
<1>1. Init => IdsInv
    BY DEF Init, IdsInv, IdsBelow, InOrder, Apart
<1>2. TypeOK /\ IdsInv /\ [Next]_vars => IdsInv'
  <2> SUFFICES ASSUME TypeOK, IdsInv, [Next]_vars PROVE IdsInv'
    OBVIOUS
  <2>1. CASE CallsStep
    <3>1. queue' = queue /\ action_ids' = action_ids /\ next_id' = next_id
      BY <2>1 DEF CallsStep, queueVars
    <3>2. IdsBelow'
      BY <3>1 DEF IdsInv, IdsBelow
    <3>3. \A p \in Players : InOrder(p)'
      BY <3>1 DEF IdsInv, InOrder
    <3>4. \A p, q \in Players : p # q => Apart(p, q)'
      BY <3>1 DEF IdsInv, Apart
    <3>5. QED
      BY <3>2, <3>3, <3>4 DEF IdsInv
  <2>2. QED
    BY <2>1, Steps, IdsInvStep DEF TypeOK
<1>3. QED
    BY <1>1, <1>2, RoomTypes, PTL DEF Spec

\* An id names one action in the room, at the place it is found at, and later actions have larger
\* ids, for any number of players and requests (room_server.cpp 1568-1599, 1640-1665).
THEOREM IdsAreNames == Spec => []IdsNameActions
<1>1. TypeOK /\ IdsInv => IdsNameActions
  <2> SUFFICES ASSUME TypeOK, IdsInv PROVE IdsNameActions
    OBVIOUS
  <2>1. ASSUME NEW p \in Players, NEW i \in 1..Len(queue[p]), NEW j \in 1..Len(queue[p]),
               queue[p][i].id = queue[p][j].id
        PROVE  i = j
    <3>1. Len(queue[p]) \in Nat /\ queue[p][i].id \in Nat /\ queue[p][j].id \in Nat
      BY DEF TypeOK, QueuesOK, IdsInv, IdsBelow
    <3>2. i < j => queue[p][i].id < queue[p][j].id
      BY <3>1 DEF IdsInv, InOrder
    <3>3. j < i => queue[p][j].id < queue[p][i].id
      BY <3>1 DEF IdsInv, InOrder
    <3>4. QED
      BY <2>1, <3>1, <3>2, <3>3
  <2>2. \A p, q \in Players : \A i \in 1..Len(queue[p]), j \in 1..Len(queue[q]) :
            queue[p][i].id = queue[q][j].id => p = q /\ i = j
    BY <2>1 DEF IdsInv, Apart
  <2>3. QED
    BY <2>2 DEF IdsInv, InOrder, IdsNameActions
<1>2. QED
    BY <1>1, IdsInvAlways, RoomTypes, PTL

-----------------------------------------------------------------------------
(* Pauses *)

LEMMA PausesStay ==
    ASSUME QueuesOK, IdsInv, IdsNameActions, NEW p \in Players, QueueStep(p), queue'[p] # queue[p],
           NEW x, HeldBack(p, x), InQueue(p, x)'
    PROVE  HeldBack(p, x)'
<1> DEFINE n == Len(queue[p])
<1>1. n \in Nat /\ n <= QueueLength
    BY DEF QueuesOK
<1>2. PICK j \in 1..n : queue[p][j].id = x /\ \E k \in 0..(j - 1) : pauses[p][k]
    BY DEF HeldBack
<1>3. PICK k \in 0..(j - 1) : pauses[p][k]
    BY <1>2
<1>4. CASE SameIds(p)
    BY <1>2, <1>3, <1>4 DEF SameIds, HeldBack
<1>5. CASE Appended(p)
  <2>1. j \in 1..Len(queue'[p]) /\ k \in 0..n
    BY <1>1, <1>2, <1>3, <1>5 DEF Appended
  <2>2. queue'[p][j].id = x /\ pauses'[p][k]
    BY <1>2, <1>3, <1>5, <2>1 DEF Appended
  <2>3. QED
    BY <1>3, <2>1, <2>2 DEF HeldBack
<1>6. CASE Removed(p)
  <2>1. PICK i \in 1..n : /\ queue'[p] = Without(queue[p], i) /\ action_ids'[p] = IdsWithout(p, i)
                          /\ pauses'[p] = PausesWithout(p, i)
    BY <1>6 DEF Removed
  <2> DEFINE at(m) == IF m < i THEN m ELSE m + 1
  <2>2. /\ Len(queue'[p]) = n - 1
        /\ \A m \in 1..(n - 1) : /\ at(m) \in 1..n
                                 /\ queue'[p][m] = queue[p][at(m)]
                                 /\ action_ids'[p][m] = action_ids[p][at(m)]
    BY <2>1, RemovedIds
  <2>3. PICK m \in 1..(n - 1) : queue'[p][m].id = x
    BY <2>2 DEF InQueue
  \* As x is the id of one action only, that is the one the pause was before.
  <2>4. at(m) = j
    BY <1>2, <2>2, <2>3 DEF IdsNameActions
  <2> DEFINE to == IF k < i THEN k ELSE k - 1
  <2>5. to \in 0..(m - 1) /\ to \in 0..QueueLength /\ to # n
    BY <1>1, <1>3, <2>4
  <2>6. PausesWithout(p, i)[to]
    <3>1. CASE k = i - 1 \/ k = i
      <4>1. to = i - 1 /\ i = (i - 1) + 1
        BY <3>1
      <4>2. pauses[p][to] \/ pauses[p][to + 1]
        BY <1>3, <3>1, <4>1
      <4>3. PausesWithout(p, i)[to] <=> (pauses[p][to] \/ pauses[p][to + 1])
        <5>1. to \in 0..QueueLength /\ to = i - 1 /\ to # Len(queue[p]) /\ ~(to >= i)
          BY <2>5, <4>1
        <5> HIDE DEF to
        <5>2. PausesWithout(p, i)[to] =
                (CASE to = i - 1                     -> pauses[p][to] \/ pauses[p][to + 1]
                   [] to >= i /\ to < Len(queue[p]) -> pauses[p][to + 1]
                   [] to = Len(queue[p])             -> FALSE
                   [] OTHER                          -> pauses[p][to])
          BY ONLY <5>1, Zenon DEF PausesWithout
        <5>3. QED
          BY ONLY <5>1, <5>2
      <4>4. QED
        BY <4>2, <4>3
    <3>2. CASE k < i - 1
      <4>1. to = k /\ to # i - 1 /\ ~(to >= i)
        BY <3>2
      <4>2. PausesWithout(p, i)[to] = pauses[p][k]
        BY <2>5, <4>1 DEF PausesWithout
      <4>3. QED
        BY <1>3, <4>2
    <3>3. CASE k > i
      <4>1. to = k - 1 /\ to # i - 1 /\ to >= i /\ to < n /\ to + 1 = k
        BY <1>1, <2>4, <3>3
      <4>2. PausesWithout(p, i)[to] = pauses[p][k]
        BY <2>5, <4>1 DEF PausesWithout
      <4>3. QED
        BY <1>3, <4>2
    <3>4. QED
      BY <3>1, <3>2, <3>3
  <2> HIDE DEF to
  <2>7. m \in 1..Len(queue'[p]) /\ pauses'[p][to]
    BY <2>1, <2>2, <2>3, <2>6
  <2>8. QED
    BY <2>3, <2>5, <2>7 DEF HeldBack
<1>7. QED
    BY <1>4, <1>5, <1>6, IdsOfStep

\* What a player wants to wait for stays waited for: an action behind a pause stays behind one until
\* that player removes the pause, whatever is removed or enqueued (room_server.cpp 1568-1599).
THEOREM PausesAreKept == Spec => PausesHold
<1>1. TypeOK /\ IdsInv /\ IdsNameActions /\ [Next]_vars =>
         [\A p \in Players, x \in 1..MaxActions :
             HeldBack(p, x) /\ InQueue(p, x)' /\ queue'[p] # queue[p] => HeldBack(p, x)']_vars
  <2> SUFFICES ASSUME TypeOK, IdsInv, IdsNameActions, [Next]_vars, NEW p \in Players, NEW x \in 1..MaxActions,
                      HeldBack(p, x), InQueue(p, x)', queue'[p] # queue[p]
               PROVE  HeldBack(p, x)'
    OBVIOUS
  <2>1. QueuesOK /\ ~CallsStep
    BY DEF TypeOK, CallsStep, queueVars
  <2>2. PICK q \in Players : QueueStep(q)
    BY <2>1, Steps
  <2>3. q = p
    BY <2>1, <2>2, OthersStay
  <2>4. QED
    BY <2>1, <2>2, <2>3, PausesStay
<1>2. QED
    BY <1>1, IdsInvAlways, IdsAreNames, RoomTypes, PTL DEF Spec, PausesHold

=============================================================================
