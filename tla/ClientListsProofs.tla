------------------------- MODULE ClientListsProofs -------------------------
(***************************************************************************)
(* What holds of a server's clients for any number of them, any length of  *)
(* the queue and however often accepting fails, for each of the servers.   *)
(***************************************************************************)
EXTENDS ClientLists, SequenceTheorems, TLAPS

USE ListeningAssumption, PlayersAssumption

-----------------------------------------------------------------------------
(* Lists without repetitions *)

LEMMA RemovedAt ==
    ASSUME NEW R, NEW s \in Seq(R), NEW i \in 1..Len(s)
    PROVE  /\ RemoveAt(s, i) \in Seq(R)
           /\ Len(RemoveAt(s, i)) = Len(s) - 1
           /\ \A k \in 1..Len(s) - 1 : RemoveAt(s, i)[k] = IF k < i THEN s[k] ELSE s[k + 1]
<1> DEFINE before == SubSeq(s, 1, i - 1)
           after  == SubSeq(s, i + 1, Len(s))
<1>1. Len(s) \in Nat /\ i \in Nat /\ i > 0 /\ i <= Len(s)
    OBVIOUS
<1>2. \A k \in 1..Len(s) : s[k] \in R
    BY ElementOfSeq
<1>3. /\ before \in Seq(R) /\ Len(before) = i - 1
      /\ \A k \in 1..i - 1 : before[k] = s[k]
    BY <1>1, <1>2
<1>4. /\ after \in Seq(R) /\ Len(after) = Len(s) - i
      /\ \A k \in 1..Len(s) - i : after[k] = s[i + k]
    BY <1>1, <1>2
<1>5. RemoveAt(s, i) = before \o after
    BY DEF RemoveAt
<1> HIDE DEF before, after
<1>6. /\ before \o after \in Seq(R)
      /\ Len(before \o after) = Len(s) - 1
      /\ \A k \in 1..Len(s) - 1 :
            (before \o after)[k] = IF k <= Len(before) THEN before[k] ELSE after[k - Len(before)]
    BY <1>1, <1>3, <1>4
<1> DEFINE t == before \o after
<1> HIDE DEF t
<1>7. ASSUME NEW k \in 1..Len(s) - 1
      PROVE  t[k] = IF k < i THEN s[k] ELSE s[k + 1]
  <2>1. CASE k < i
    <3>1. k \in 1..i - 1 /\ k <= Len(before)
        BY <1>1, <1>3, <2>1
    <3>2. QED
        BY <1>3, <1>6, <2>1, <3>1 DEF t
  <2>2. CASE ~(k < i)
    <3> DEFINE n == k - (i - 1)
    <3>1. n \in 1..Len(s) - i /\ i + n = k + 1 /\ ~(k <= i - 1)
        BY <1>1, <2>2
    <3>2. t[k] = after[n]
        BY <1>3, <1>6, <3>1 DEF t
    <3> HIDE DEF n
    <3>3. after[n] = s[i + n]
        BY <1>4, <3>1
    <3>4. QED
        BY <2>2, <3>1, <3>2, <3>3
  <2>3. QED
    BY <2>1, <2>2
<1>8. QED
    BY <1>5, <1>6, <1>7 DEF t

LEMMA RemovedRange ==
    ASSUME NEW R, NEW s \in Seq(R), NEW i \in 1..Len(s), IsInjective(s)
    PROVE  /\ IsInjective(RemoveAt(s, i))
           /\ Range(RemoveAt(s, i)) = Range(s) \ {s[i]}
<1> DEFINE t == RemoveAt(s, i)
<1>1. /\ t \in Seq(R) /\ Len(t) = Len(s) - 1 /\ Len(s) \in Nat
      /\ \A k \in 1..Len(s) - 1 : t[k] = IF k < i THEN s[k] ELSE s[k + 1]
    BY RemovedAt
<1> HIDE DEF t
<1>2. DOMAIN t = 1..Len(s) - 1 /\ DOMAIN s = 1..Len(s)
    BY <1>1
<1>3. IsInjective(t)
  <2> SUFFICES ASSUME NEW a \in 1..Len(s) - 1, NEW b \in 1..Len(s) - 1, t[a] = t[b] PROVE a = b
    BY <1>2 DEF IsInjective
  <2> DEFINE f(k) == IF k < i THEN k ELSE k + 1
  <2>1. t[a] = s[f(a)] /\ t[b] = s[f(b)] /\ f(a) \in 1..Len(s) /\ f(b) \in 1..Len(s)
    BY <1>1
  <2>2. f(a) = f(b)
    BY <1>2, <2>1 DEF IsInjective
  <2>3. QED
    BY <2>2
<1>4. ASSUME NEW x \in Range(t) PROVE x \in Range(s) \ {s[i]}
  <2>1. PICK k \in 1..Len(s) - 1 : x = t[k]
    BY <1>2 DEF Range
  <2> DEFINE n == IF k < i THEN k ELSE k + 1
  <2>2. x = s[n] /\ n \in 1..Len(s) /\ n # i
    BY <1>1, <2>1
  <2> HIDE DEF n
  <2>3. QED
    BY <1>2, <2>2 DEF Range, IsInjective
<1>5. ASSUME NEW x \in Range(s) \ {s[i]} PROVE x \in Range(t)
  <2>1. PICK k \in 1..Len(s) : x = s[k]
    BY <1>2 DEF Range
  <2>2. k # i
    BY <2>1
  <2> DEFINE n == IF k < i THEN k ELSE k - 1
  <2>3. n \in 1..Len(s) - 1 /\ x = t[n]
    <3>1. CASE k < i
        BY <1>1, <2>1, <3>1
    <3>2. CASE k > i
      <4>1. k - 1 \in 1..Len(s) - 1 /\ ~(k - 1 < i) /\ (k - 1) + 1 = k
        BY <1>1, <3>2
      <4>2. t[k - 1] = s[k]
        BY <1>1, <4>1
      <4>3. QED
        BY <2>1, <3>2, <4>1, <4>2
    <3>3. QED
        BY <2>2, <3>1, <3>2
  <2> HIDE DEF n
  <2>4. QED
    BY <1>2, <2>3 DEF Range
<1>6. QED
    BY <1>3, <1>4, <1>5 DEF t

LEMMA AppendedRange ==
    ASSUME NEW R, NEW s \in Seq(R), NEW x \in R, IsInjective(s), x \notin Range(s)
    PROVE  /\ IsInjective(Append(s, x))
           /\ Range(Append(s, x)) = Range(s) \cup {x}
<1> DEFINE t == Append(s, x)
<1>1. /\ t \in Seq(R) /\ Len(t) = Len(s) + 1 /\ Len(s) \in Nat
      /\ t[Len(s) + 1] = x /\ \A k \in 1..Len(s) : t[k] = s[k]
    OBVIOUS
<1> HIDE DEF t
<1>2. DOMAIN t = 1..Len(s) + 1 /\ DOMAIN s = 1..Len(s)
    BY <1>1
<1>3. \A k \in 1..Len(s) + 1 : k \in 1..Len(s) \/ k = Len(s) + 1
    BY <1>1
<1>4. \A k \in 1..Len(s) : s[k] # x
    BY <1>2 DEF Range
<1>5. IsInjective(t)
    BY <1>1, <1>2, <1>3, <1>4 DEF IsInjective
<1>6. Range(t) = Range(s) \cup {x}
  <2>1. ASSUME NEW y \in Range(t) PROVE y \in Range(s) \cup {x}
    BY <1>1, <1>2, <1>3 DEF Range
  <2>2. ASSUME NEW y \in Range(s) \cup {x} PROVE y \in Range(t)
    <3>1. Len(s) + 1 \in 1..Len(s) + 1 /\ \A k \in 1..Len(s) : k \in 1..Len(s) + 1
        BY <1>1
    <3>2. QED
        BY <1>1, <1>2, <3>1 DEF Range
  <2>3. QED
    BY <2>1, <2>2
<1>7. QED
    BY <1>5, <1>6 DEF t

LEMMA TailRange ==
    ASSUME NEW R, NEW s \in Seq(R), s # <<>>, IsInjective(s)
    PROVE  /\ Tail(s) \in Seq(R) /\ IsInjective(Tail(s))
           /\ Head(s) \in R /\ Head(s) \in Range(s)
           /\ Range(Tail(s)) = Range(s) \ {Head(s)}
<1>1. Len(s) \in Nat /\ Len(s) > 0 /\ 1 \in 1..Len(s) /\ Head(s) = s[1] /\ DOMAIN s = 1..Len(s)
    OBVIOUS
<1>2. Head(s) \in R /\ Head(s) \in Range(s)
    BY <1>1 DEF Range
<1> DEFINE t == Tail(s)
<1>3. /\ t \in Seq(R) /\ Len(t) = Len(s) - 1
      /\ \A k \in 1..Len(s) - 1 : t[k] = s[k + 1]
    BY <1>1
<1> HIDE DEF t
<1>4. DOMAIN t = 1..Len(s) - 1
    BY <1>3
<1>5. \A k \in 1..Len(s) - 1 : k + 1 \in 1..Len(s) /\ k + 1 # 1
    BY <1>1
<1>6. IsInjective(t)
  <2> SUFFICES ASSUME NEW a \in 1..Len(s) - 1, NEW b \in 1..Len(s) - 1, t[a] = t[b] PROVE a = b
    BY <1>4 DEF IsInjective
  <2>1. s[a + 1] = s[b + 1]
    BY <1>3
  <2>2. a + 1 = b + 1
    BY <1>1, <1>5, <2>1 DEF IsInjective
  <2>3. QED
    BY <2>2
<1>7. ASSUME NEW x \in Range(t) PROVE x \in Range(s) \ {Head(s)}
  <2>1. PICK k \in 1..Len(s) - 1 : x = t[k]
    BY <1>4 DEF Range
  <2>2. x = s[k + 1]
    BY <1>3, <2>1
  <2>3. QED
    BY <1>1, <1>5, <2>2 DEF Range, IsInjective
<1>8. ASSUME NEW x \in Range(s) \ {Head(s)} PROVE x \in Range(t)
  <2>1. PICK k \in 1..Len(s) : x = s[k]
    BY <1>1 DEF Range
  <2>2. k # 1
    BY <1>1, <2>1
  <2>3. k - 1 \in 1..Len(s) - 1 /\ (k - 1) + 1 = k
    BY <1>1, <2>2
  <2>4. t[k - 1] = x
    BY <1>3, <2>1, <2>3
  <2>5. QED
    BY <1>4, <2>3, <2>4 DEF Range
<1>9. QED
    BY <1>2, <1>3, <1>6, <1>7, <1>8 DEF t

LEMMA SwapRemoved ==
    ASSUME NEW R, NEW s \in Seq(R), NEW i \in 1..Len(s)
    PROVE  /\ SwapRemove(s, i) \in Seq(R)
           /\ IsInjective(s) => /\ IsInjective(SwapRemove(s, i))
                               /\ Range(SwapRemove(s, i)) \subseteq Range(s) \ {s[i]}
<1> DEFINE t == SwapRemove(s, i)
           f(k) == IF k = i THEN Len(s) ELSE k
<1>1. Len(s) \in Nat /\ Len(s) > 0 /\ Len(s) - 1 \in Nat /\ DOMAIN s = 1..Len(s)
    OBVIOUS
<1>2. DOMAIN t = 1..Len(s) - 1
    BY DEF SwapRemove
<1>3. ASSUME NEW k \in 1..Len(s) - 1
      PROVE  t[k] = s[f(k)] /\ f(k) \in 1..Len(s) /\ f(k) # i /\ s[f(k)] \in R
  <2>1. k \in 1..Len(s) /\ k # Len(s) /\ Len(s) \in 1..Len(s)
    <3> HIDE DEF t, f
    <3>1. \A n \in Nat : n > 0 /\ k \in 1..n - 1 => k \in 1..n /\ k # n /\ n \in 1..n
        OBVIOUS
    <3>2. QED
        BY <1>1, <3>1
  <2>2. t[k] = IF k = i THEN s[Len(s)] ELSE s[k]
    BY DEF SwapRemove
  <2>3. s[k] \in R /\ s[Len(s)] \in R
    BY <2>1, ElementOfSeq
  <2>4. CASE k = i
    BY <2>1, <2>2, <2>3, <2>4
  <2>5. CASE k # i
    BY <2>1, <2>2, <2>3, <2>5
  <2>6. QED
    BY <2>4, <2>5
<1>4. \A a, b \in 1..Len(s) - 1 : f(a) = f(b) => a = b
    BY <1>1
<1>5. t \in Seq(R)
  <2>1. \A k \in 1..Len(s) - 1 : t[k] \in R
    BY <1>3
  <2>2. t \in [1..Len(s) - 1 -> R]
    BY <2>1 DEF SwapRemove
  <2> HIDE DEF t
  <2>3. QED
    BY <1>1, <2>2
<1> HIDE DEF t, f
<1>6. IsInjective(s) => IsInjective(t)
    BY <1>1, <1>2, <1>3, <1>4 DEF IsInjective
<1>7. IsInjective(s) => \A x \in Range(t) : x \in Range(s) \ {s[i]}
    BY <1>1, <1>2, <1>3 DEF Range, IsInjective
<1>8. QED
    BY <1>5, <1>6, <1>7 DEF t

-----------------------------------------------------------------------------
(* What a step does to the clients *)

\* The market's watchers without a client.
LEMMA WithoutWatcherIs ==
    ASSUME watchers \in Seq(Clients), NEW c
    PROVE  /\ WithoutWatcher(c) \in Seq(Clients)
           /\ IsInjective(watchers) => /\ IsInjective(WithoutWatcher(c))
                                       /\ Range(WithoutWatcher(c)) \subseteq Range(watchers) \ {c}
<1>1. CASE ~Watches(c)
    BY <1>1 DEF WithoutWatcher, Watches
<1>2. CASE Watches(c)
  <2> DEFINE i == CHOOSE k \in DOMAIN watchers : watchers[k] = c
  <2>1. \E k \in DOMAIN watchers : watchers[k] = c
    BY <1>2 DEF Watches, Range
  <2>2. i \in DOMAIN watchers /\ watchers[i] = c
    BY <2>1
  <2>3. WithoutWatcher(c) = SwapRemove(watchers, i)
    BY <1>2 DEF WithoutWatcher
  <2> HIDE DEF i
  <2>4. i \in 1..Len(watchers)
    BY <2>2
  <2>5. QED
    BY <2>2, <2>3, <2>4, SwapRemoved
<1>3. QED
    BY <1>1, <1>2

\* No client comes, moves or goes; what becomes of their connections is their affair.
Stays ==
    /\ UNCHANGED <<queue, list, watchers, greeted>>
    /\ thread' = "enqueuing" <=> thread = "enqueuing"
    /\ \/ UNCHANGED conn
       \/ \E c \in Clients : /\ conn[c] = "well" /\ \E how \in {"leaving", "lost"} : conn' = [conn EXCEPT ![c] = how]
       \/ \E c \in Clients : conn[c] = "idle" /\ conn' = [conn EXCEPT ![c] = "closed"]

Accepted ==
    /\ thread # "enqueuing" /\ thread' = "enqueuing"
    /\ greeted' \in Clients /\ conn[greeted'] = "idle"
    /\ conn' = [conn EXCEPT ![greeted'] = "well"]
    /\ UNCHANGED <<queue, list, watchers>>

Enqueued ==
    /\ thread = "enqueuing" /\ thread' # "enqueuing"
    /\ greeted' = NoClient
    /\ queue' = Append(queue, greeted)
    /\ UNCHANGED <<list, watchers, conn>>

Dismisses(i) ==
    /\ conn[list[i]] # "well"
    /\ Disconnect(i)
    /\ UNCHANGED <<queue, greeted, thread>>

\* The two clients a room dismisses when it cannot reply to the first, and the third that pays.
DismissesTwo(i) ==
    /\ kind = "room" /\ i < Len(list) /\ conn[list[i]] # "well"
    /\ \E second \in DOMAIN list :
          second > i /\ conn' = [conn EXCEPT ![list[i + 1]] = "closed", ![list[second]] = "closed"]
    /\ list' = RemoveAt(RemoveAt(list, i), i)
    /\ told' = told \ {list[i], list[i + 1]}
    /\ UNCHANGED <<queue, greeted, thread, watchers>>

Watched(i) ==
    /\ kind = "market"
    /\ watchers' \in {WithoutWatcher(list[i]), Append(WithoutWatcher(list[i]), list[i])}
    /\ UNCHANGED <<queue, list, greeted, thread, conn>>

TurnedAway ==
    /\ queue # <<>>
    /\ conn' = [conn EXCEPT ![Head(queue)] = "closed"]
    /\ queue' = Tail(queue)
    /\ UNCHANGED <<list, watchers, greeted, thread>>

Admitted ==
    /\ queue # <<>>
    /\ list' = Append(list, Head(queue))
    /\ queue' = Tail(queue)
    /\ UNCHANGED <<conn, watchers, greeted, thread>>

ClientStep ==
    /\ kind' = kind
    /\ \/ Stays \/ Accepted \/ Enqueued \/ TurnedAway \/ Admitted
       \/ \E i \in DOMAIN list : Dismisses(i) \/ DismissesTwo(i) \/ Watched(i)

LEMMA IndexOfLoop ==
    ASSUME TypeOK, at <= Len(list)
    PROVE  at \in DOMAIN list
BY DEF TypeOK

LEMMA ThreadSteps ==
    ASSUME TypeOK, ThreadMoves
    PROVE  ClientStep
<1>1. CASE ThreadStops
    BY <1>1 DEF ThreadMoves, ThreadStops, lists, ClientStep, Stays
<1>2. CASE EnqueueClient
    BY <1>2 DEF ThreadMoves, EnqueueClient, lists, ClientStep, Enqueued
<1>3. QED
    BY <1>1, <1>2 DEF ThreadMoves, ThreadStep

LEMMA EnvironmentSteps ==
    ASSUME TypeOK, Environment
    PROVE  ClientStep
<1>1. CASE (AcceptFails \/ RestartFails \/ RequestExit) /\ UNCHANGED lists
    BY <1>1 DEF AcceptFails, RestartFails, RequestExit, lists, threadVars, ClientStep, Stays
<1>2. ASSUME NEW c \in Clients, AcceptClient(c), UNCHANGED lists PROVE ClientStep
    BY <1>2 DEF AcceptClient, lists, ClientStep, Accepted
<1>3. ASSUME NEW c \in Clients, HelloFails(c) \/ Depart(c), UNCHANGED lists PROVE ClientStep
    BY <1>3 DEF HelloFails, Depart, lists, threadVars, ClientStep, Stays
<1>4. CASE SetViewTarget
  <2>1. at \in DOMAIN list
    BY <1>4, IndexOfLoop DEF SetViewTarget, Receiving
  <2>2. Watched(at) /\ kind' = kind
    BY <1>4 DEF SetViewTarget, receiveFrame, threadVars, Watched
  <2>3. QED
    BY <2>1, <2>2 DEF ClientStep
<1>5. QED
    BY <1>1, <1>2, <1>3, <1>4 DEF Environment

LEMMA AbortStays ==
    ASSUME Abort
    PROVE  ClientStep /\ UNCHANGED <<kind, told, did_change, main, at>>
BY DEF Abort, listVars, threadVars, ClientStep, Stays

LEMMA ReceivingSteps ==
    ASSUME TypeOK, HearClient \/ LoseClient \/ RoomReplyFails \/ MarketReplyFails
    PROVE  ClientStep
<1>0. at \in DOMAIN list /\ at \in Nat /\ Len(list) \in Nat /\ DOMAIN list = 1..Len(list)
    BY IndexOfLoop DEF HearClient, LoseClient, RoomReplyFails, MarketReplyFails, Receiving, TypeOK
<1>1. CASE HearClient
    BY <1>1 DEF HearClient, receiveFrame, threadVars, listVars, ClientStep, Stays
<1>2. CASE LoseClient
  <2>1. Dismisses(at) /\ kind' = kind
    BY <1>2 DEF LoseClient, receiveFrame, threadVars, Dismisses
  <2>2. QED
    BY <1>0, <2>1 DEF ClientStep
<1>3. CASE RoomReplyFails
  <2>1. CASE Abort
    BY <2>1, AbortStays
  <2>2. CASE ~Abort
    <3> DEFINE second == IF at + 1 < Len(list) THEN at + 2 ELSE at + 1
    <3>1. at # Len(list) /\ at < Len(list)
        BY <1>0, <1>3, <2>2 DEF RoomReplyFails
    <3>2. second \in DOMAIN list /\ second > at
        BY <1>0, <3>1
    <3>3. conn' = [conn EXCEPT ![list[at + 1]] = "closed", ![list[second]] = "closed"]
        BY <1>3, <3>1 DEF RoomReplyFails
    <3> HIDE DEF second
    <3>4. DismissesTwo(at) /\ kind' = kind
        BY <1>3, <3>1, <3>2, <3>3 DEF RoomReplyFails, receiveFrame, threadVars, DismissesTwo
    <3>5. QED
        BY <1>0, <3>4 DEF ClientStep
  <2>3. QED
    BY <2>1, <2>2
<1>4. CASE MarketReplyFails
  <2>1. CASE Abort
    BY <2>1, AbortStays
  <2>2. CASE ~Abort
    <3>1. Dismisses(at) /\ kind' = kind
        BY <1>4, <2>2 DEF MarketReplyFails, receiveFrame, threadVars, Dismisses
    <3>2. QED
        BY <1>0, <3>1 DEF ClientStep
  <2>3. QED
    BY <2>1, <2>2
<1>5. QED
    BY <1>1, <1>2, <1>3, <1>4

LEMMA UpdatingSteps ==
    ASSUME TypeOK, EndReceiving \/ SkipServer \/ SendUpdate \/ UpdateFails \/ EndUpdating
    PROVE  ClientStep
<1>1. CASE EndReceiving \/ SkipServer \/ EndUpdating
    BY <1>1 DEF EndReceiving, SkipServer, EndUpdating, updateFrame, threadVars, listVars, ClientStep, Stays
<1>2. CASE SendUpdate
  <2>1. CASE Abort
    BY <2>1, AbortStays
  <2>2. CASE ~Abort
    BY <1>2, <2>2 DEF SendUpdate, updateFrame, threadVars, ClientStep, Stays
  <2>3. QED
    BY <2>1, <2>2
<1>3. CASE UpdateFails
  <2>1. PICK i \in DOMAIN list : list[i] = Audience[at] /\ Disconnect(i)
    BY <1>3 DEF UpdateFails
  <2>2. conn[list[i]] # "well"
    BY <1>3, <2>1 DEF UpdateFails, CanFailSend
  <2>3. Dismisses(i) /\ kind' = kind
    BY <1>3, <2>1, <2>2 DEF UpdateFails, updateFrame, threadVars, Dismisses
  <2>4. QED
    BY <2>3 DEF ClientStep
<1>4. QED
    BY <1>1, <1>2, <1>3

LEMMA AdmittingSteps ==
    ASSUME TypeOK, TurnAway \/ Admit \/ AdmitAndLose \/ RoomInitFails \/ EndTurn
    PROVE  ClientStep
<1>1. CASE TurnAway \/ AdmitAndLose
    BY <1>1 DEF TurnAway, AdmitAndLose, Admitting, QueueAfterOne, admitFrame, threadVars, listVars, ClientStep, TurnedAway
<1>2. CASE Admit
    BY <1>2 DEF Admit, Admitting, QueueAfterOne, admitFrame, threadVars, ClientStep, Admitted
<1>3. CASE RoomInitFails
    BY <1>3, AbortStays DEF RoomInitFails
<1>4. CASE EndTurn
    BY <1>4 DEF EndTurn, threadVars, listVars, ClientStep, Stays
<1>5. QED
    BY <1>1, <1>2, <1>3, <1>4

\* Whatever the thread, the main loop and the other ends do, it is one of a few things to the clients.
LEMMA ClientSteps ==
    ASSUME TypeOK, [Next]_clVars
    PROVE  ClientStep
<1>1. CASE UNCHANGED clVars
    BY <1>1 DEF clVars, threadVars, ClientStep, Stays
<1>2. CASE ThreadMoves \/ Environment
    BY <1>2, ThreadSteps, EnvironmentSteps
<1>3. CASE MainMoves
  <2>1. CASE (BeginTurn \/ RestartListening \/ StopListening) /\ UNCHANGED lists
    BY <2>1 DEF BeginTurn, RestartListening, StopListening, lists, threadVars, ClientStep, Stays
  <2>2. QED
    BY <1>3, <2>1, ReceivingSteps, UpdatingSteps, AdmittingSteps DEF MainMoves
<1>4. QED
    BY <1>1, <1>2, <1>3 DEF Next

-----------------------------------------------------------------------------
(* Types *)

\* What a step does to the clients keeps the types of these; the others are kept one by one.
ClientTypes ==
    /\ queue \in Seq(Clients) /\ list \in Seq(Clients) /\ watchers \in Seq(Clients)
    /\ greeted \in Clients \cup {NoClient}
    /\ conn \in [Clients -> {"idle", "well", "leaving", "lost", "closed"}]

OtherTypes ==
    /\ kind \in ServerKinds
    /\ server_should_exit \in BOOLEAN /\ loop_should_exit \in BOOLEAN /\ client_accept_failed \in BOOLEAN
    /\ thread \in {"accepting", "enqueuing", "ended"}
    /\ main \in {"top", "joining", "receiving", "updating", "admitting", "stopping", "ended"}
    /\ accept_failures \in 0..MaxAcceptFailures
    /\ at \in Nat \ {0}
    /\ did_change \in BOOLEAN /\ aborted \in BOOLEAN
    /\ told \in SUBSET Clients

LEMMA TwoKindsOfTypes == TypeOK <=> ClientTypes /\ OtherTypes
BY DEF TypeOK, ListeningTypeOK, ClientTypes, OtherTypes

\* The thread has a client in its hands when it is about to enqueue one.
GreetedIsEnqueued == thread = "enqueuing" <=> greeted # NoClient

LEMMA ThreadKeepsTypes ==
    ASSUME TypeOK, ThreadMoves
    PROVE  OtherTypes'
<1>1. CASE ThreadStops
    BY <1>1 DEF ThreadMoves, ThreadStops, lists, loopVars, TypeOK, ListeningTypeOK, OtherTypes
<1>2. CASE EnqueueClient
    BY <1>2 DEF ThreadMoves, EnqueueClient, lists, loopVars, TypeOK, ListeningTypeOK, OtherTypes
<1>3. QED
    BY <1>1, <1>2 DEF ThreadMoves, ThreadStep

LEMMA EnvironmentKeepsTypes ==
    ASSUME TypeOK, Environment
    PROVE  OtherTypes'
<1>1. CASE (AcceptFails \/ RestartFails \/ RequestExit) /\ UNCHANGED lists
  <2>1. FlagAfterRestart \in BOOLEAN
    BY DEF FlagAfterRestart, TypeOK, ListeningTypeOK
  <2>2. CASE AcceptFails
    BY <1>1, <2>2 DEF AcceptFails, lists, TypeOK, ListeningTypeOK, OtherTypes
  <2>3. CASE RestartFails
    BY <1>1, <2>1, <2>3 DEF RestartFails, lists, threadVars, TypeOK, ListeningTypeOK, OtherTypes
  <2>4. CASE RequestExit
    BY <1>1, <2>4 DEF RequestExit, lists, threadVars, TypeOK, ListeningTypeOK, OtherTypes
  <2>5. QED
    BY <1>1, <2>2, <2>3, <2>4
<1>2. ASSUME NEW c \in Clients, AcceptClient(c) \/ HelloFails(c) \/ Depart(c), UNCHANGED lists PROVE OtherTypes'
    BY <1>2 DEF AcceptClient, HelloFails, Depart, lists, loopVars, threadVars, TypeOK, ListeningTypeOK, OtherTypes
<1>3. CASE SetViewTarget
  <2>1. list[at] \in Clients
    BY <1>3, IndexOfLoop DEF SetViewTarget, Receiving, TypeOK
  <2>2. told' \in SUBSET Clients
    BY <1>3, <2>1 DEF SetViewTarget, TypeOK
  <2>3. QED
    BY <1>3, <2>2 DEF SetViewTarget, receiveFrame, loopVars, threadVars, TypeOK, ListeningTypeOK, OtherTypes
<1>4. QED
    BY <1>1, <1>2, <1>3 DEF Environment

LEMMA AbortKeepsTypes ==
    ASSUME TypeOK, Abort
    PROVE  OtherTypes'
BY DEF Abort, listVars, loopVars, threadVars, TypeOK, ListeningTypeOK, OtherTypes

LEMMA ReceivingKeepsTypes ==
    ASSUME TypeOK, HearClient \/ LoseClient \/ RoomReplyFails \/ MarketReplyFails
    PROVE  OtherTypes'
<1>1. CASE Abort
    BY <1>1, AbortKeepsTypes
<1>2. CASE ~Abort
  <2>1. told' \subseteq told
    BY <1>2 DEF HearClient, LoseClient, RoomReplyFails, MarketReplyFails, Disconnect, listVars
  <2>2. at' \in {at, at + 1} /\ main' = main /\ receiveFrame
    BY <1>2 DEF HearClient, LoseClient, RoomReplyFails, MarketReplyFails
  <2>3. QED
    BY <2>1, <2>2 DEF receiveFrame, loopVars, threadVars, TypeOK, ListeningTypeOK, OtherTypes
<1>3. QED
    BY <1>1, <1>2

LEMMA AudienceIsClients ==
    ASSUME TypeOK, Updating
    PROVE  Audience[at] \in Clients
<1>1. Audience \in Seq(Clients) /\ at \in 1..Len(Audience)
    BY DEF Updating, Audience, TypeOK
<1>2. QED
    BY <1>1, ElementOfSeq

LEMMA UpdatingKeepsTypes ==
    ASSUME TypeOK, EndReceiving \/ SkipServer \/ SendUpdate \/ UpdateFails \/ EndUpdating
    PROVE  OtherTypes'
<1>1. CASE EndReceiving
  <2>1. did_change' \in BOOLEAN /\ told' \in SUBSET Clients
    BY <1>1, Zenon DEF EndReceiving, TypeOK
  <2>2. /\ main' = "updating" /\ at' = 1
        /\ UNCHANGED <<kind, loopVars, threadVars, accept_failures, aborted>>
    BY <1>1 DEF EndReceiving, EnterPhase
  <2>3. QED
    BY <2>1, <2>2 DEF loopVars, threadVars, TypeOK, ListeningTypeOK, OtherTypes
<1>2. CASE EndUpdating
  <2>1. /\ did_change' = FALSE /\ main' = "admitting" /\ at' = 1
        /\ UNCHANGED <<kind, loopVars, threadVars, accept_failures, told, aborted>>
    BY <1>2 DEF EndUpdating, EnterPhase, listVars
  <2>2. did_change' \in BOOLEAN
    BY <1>2, Zenon DEF EndUpdating
  <2>3. at' \in Nat \ {0}
    BY <2>1
  <2>4. told' \in SUBSET Clients
    BY <2>1 DEF TypeOK
  <2>5. QED
    BY <2>1, <2>2, <2>3, <2>4, Zenon DEF loopVars, threadVars, TypeOK, ListeningTypeOK, OtherTypes
<1>3. CASE Abort
    BY <1>3, AbortKeepsTypes
<1>4. CASE ~Abort /\ (SkipServer \/ SendUpdate \/ UpdateFails)
  <2>1. told' \in SUBSET Clients
    <3>1. CASE SkipServer
        BY <3>1 DEF SkipServer, listVars, TypeOK
    <3>2. CASE SendUpdate
        BY <1>4, <3>2, AudienceIsClients DEF SendUpdate, TypeOK
    <3>3. CASE UpdateFails
        BY <3>3 DEF UpdateFails, Disconnect, TypeOK
    <3>4. QED
        BY <1>4, <3>1, <3>2, <3>3
  <2>2. at' \in {at, at + 1} /\ main' = main /\ updateFrame
    BY <1>4 DEF SkipServer, SendUpdate, UpdateFails, IndexAfterLoss
  <2>3. QED
    BY <2>1, <2>2 DEF updateFrame, loopVars, threadVars, TypeOK, ListeningTypeOK, OtherTypes
<1>5. QED
    BY <1>1, <1>2, <1>3, <1>4

LEMMA AdmittingKeepsTypes ==
    ASSUME TypeOK, TurnAway \/ Admit \/ AdmitAndLose \/ RoomInitFails \/ EndTurn
    PROVE  OtherTypes'
<1>1. CASE TurnAway \/ AdmitAndLose
    BY <1>1 DEF TurnAway, AdmitAndLose, admitFrame, listVars, loopVars, threadVars, TypeOK, ListeningTypeOK, OtherTypes
<1>2. CASE Admit
  <2>1. Head(queue) \in Clients
    BY <1>2 DEF Admit, Admitting, TypeOK, ListeningTypeOK
  <2>2. told' \in SUBSET Clients /\ did_change' \in BOOLEAN
    BY <1>2, <2>1 DEF Admit, TypeOK
  <2>3. QED
    BY <1>2, <2>2 DEF Admit, admitFrame, loopVars, threadVars, TypeOK, ListeningTypeOK, OtherTypes
<1>3. CASE RoomInitFails
    BY <1>3, AbortKeepsTypes DEF RoomInitFails
<1>4. CASE EndTurn
    BY <1>4 DEF EndTurn, EnterPhase, listVars, loopVars, threadVars, TypeOK, ListeningTypeOK, OtherTypes
<1>5. QED
    BY <1>1, <1>2, <1>3, <1>4

LEMMA OtherTypesStep ==
    ASSUME TypeOK, [Next]_clVars
    PROVE  OtherTypes'
<1>1. CASE UNCHANGED clVars
    BY <1>1 DEF clVars, loopVars, threadVars, TypeOK, ListeningTypeOK, OtherTypes
<1>2. CASE MainMoves
  <2>1. CASE BeginTurn /\ UNCHANGED lists
    BY <2>1 DEF BeginTurn, FlagOnStop, lists, threadVars, TypeOK, ListeningTypeOK, OtherTypes
  <2>2. CASE (RestartListening \/ StopListening) /\ UNCHANGED lists
    BY <2>2 DEF RestartListening, FlagAfterRestart, StopListening, lists, loopVars, threadVars,
       TypeOK, ListeningTypeOK, OtherTypes
  <2>3. QED
    BY <1>2, <2>1, <2>2, ReceivingKeepsTypes, UpdatingKeepsTypes, AdmittingKeepsTypes DEF MainMoves
<1>3. QED
    BY <1>1, <1>2, ThreadKeepsTypes, EnvironmentKeepsTypes DEF Next

LEMMA ClientTypesStep ==
    ASSUME ClientTypes, GreetedIsEnqueued, ClientStep
    PROVE  ClientTypes' /\ GreetedIsEnqueued'
<1> USE DEF ClientTypes, GreetedIsEnqueued
<1>1. CASE Stays
    BY <1>1 DEF Stays
<1>2. CASE Accepted
    BY <1>2 DEF Accepted
<1>3. CASE Enqueued
    BY <1>3 DEF Enqueued
<1>4. CASE TurnedAway
    BY <1>4 DEF TurnedAway
<1>5. CASE Admitted
    BY <1>5 DEF Admitted
<1>6. ASSUME NEW i \in DOMAIN list, Dismisses(i) PROVE ClientTypes' /\ GreetedIsEnqueued'
  <2>1. i \in 1..Len(list)
    OBVIOUS
  <2>2. list' \in Seq(Clients) /\ watchers' \in Seq(Clients)
    BY <1>6, <2>1, RemovedAt, WithoutWatcherIs DEF Dismisses, Disconnect
  <2>3. conn' = [conn EXCEPT ![Dismissed(i)] = "closed"] /\ UNCHANGED <<queue, greeted, thread>>
    BY <1>6 DEF Dismisses, Disconnect
  <2>4. QED
    BY <2>2, <2>3
<1>7. ASSUME NEW i \in DOMAIN list, DismissesTwo(i) PROVE ClientTypes' /\ GreetedIsEnqueued'
  <2> DEFINE once == RemoveAt(list, i)
  <2>1. i \in 1..Len(list) /\ Len(list) \in Nat /\ i < Len(list)
    BY <1>7 DEF DismissesTwo
  <2>2. once \in Seq(Clients) /\ Len(once) = Len(list) - 1
    BY <2>1, RemovedAt
  <2> HIDE DEF once
  <2>3. i \in 1..Len(once)
    BY <2>1, <2>2
  <2>4. RemoveAt(once, i) \in Seq(Clients)
    BY <2>2, <2>3, RemovedAt
  <2>5. QED
    BY <1>7, <2>4 DEF DismissesTwo, once
<1>8. ASSUME NEW i \in DOMAIN list, Watched(i) PROVE ClientTypes' /\ GreetedIsEnqueued'
  <2>1. list[i] \in Clients /\ WithoutWatcher(list[i]) \in Seq(Clients)
    BY WithoutWatcherIs
  <2>2. watchers' \in Seq(Clients)
    <3>1. \A s \in Seq(Clients), c \in Clients : Append(s, c) \in Seq(Clients)
        OBVIOUS
    <3>2. QED
        BY <1>8, <2>1, <3>1 DEF Watched
  <2>3. QED
    BY <1>8, <2>2 DEF Watched
<1>9. QED
    BY <1>1, <1>2, <1>3, <1>4, <1>5, <1>6, <1>7, <1>8 DEF ClientStep

LEMMA InitialClients == Init => TypeOK /\ GreetedIsEnqueued
<1> SUFFICES ASSUME Init PROVE TypeOK /\ GreetedIsEnqueued
    OBVIOUS
<1> DEFINE none == <<>>
<1>1. none \in Seq(Clients)
    OBVIOUS
<1>2. queue = none /\ list = none /\ watchers = none
    BY DEF Init, ListeningInit
<1> HIDE DEF none
<1>3. ClientTypes
    BY <1>1, <1>2 DEF Init, ListeningInit, ClientTypes
<1>4. OtherTypes
  <2>1. accept_failures = 0 /\ at = 1 /\ told = {}
    BY DEF Init, ListeningInit
  <2>2. accept_failures \in 0..MaxAcceptFailures /\ at \in Nat \ {0} /\ told \in SUBSET Clients
    BY <2>1
  <2>3. QED
    BY <2>2 DEF Init, ListeningInit, OtherTypes
<1>5. GreetedIsEnqueued
    BY DEF Init, ListeningInit, GreetedIsEnqueued
<1>6. QED
    BY <1>3, <1>4, <1>5, TwoKindsOfTypes

LEMMA TypesAlways == Spec => [](TypeOK /\ GreetedIsEnqueued)
<1>1. TypeOK /\ GreetedIsEnqueued /\ [Next]_clVars => (TypeOK /\ GreetedIsEnqueued)'
    BY TwoKindsOfTypes, OtherTypesStep, ClientTypesStep, ClientSteps DEF TypeOK, ListeningTypeOK, ClientTypes, OtherTypes
<1>2. QED
    BY <1>1, InitialClients, PTL DEF Spec

\* The lists stay lists of clients and the indices of the loops within them, whichever server it is,
\* however many clients are removed by the loop that walks them.
THEOREM ClientListTypes == Spec => []TypeOK
BY TypesAlways, PTL

-----------------------------------------------------------------------------
(* Nobody is handed over twice *)

\* A connection is in one place, and in one only.
InOnePlace ==
    /\ IsInjective(queue) /\ IsInjective(list)
    /\ Range(queue) \cap Range(list) = {}
    /\ greeted \notin Range(queue) \cup Range(list)

\* What is held has come in, and is all that is open.
HeldIsOpen ==
    /\ \A c \in Held : conn[c] # "idle"
    /\ kind # "room" => Held = {c \in Clients : Open(c)}

ListsInv == ClientTypes /\ GreetedIsEnqueued /\ InOnePlace /\ HeldIsOpen

\* The list without one of its clients.
LEMMA ListWithout ==
    ASSUME ListsInv, NEW i \in DOMAIN list
    PROVE  /\ IsInjective(RemoveAt(list, i))
           /\ Range(RemoveAt(list, i)) = Range(list) \ {list[i]}
           /\ list[i] \in Range(list) /\ list[i] \in Clients
           /\ Dismissed(i) \in Range(list) /\ Dismissed(i) \in Clients
           /\ Dismissed(i) = list[i] \/ (kind = "room" /\ i + 1 \in DOMAIN list /\ Dismissed(i) = list[i + 1])
<1>1. list \in Seq(Clients) /\ i \in 1..Len(list) /\ IsInjective(list) /\ DOMAIN list = 1..Len(list)
    BY DEF ListsInv, ClientTypes, InOnePlace
<1>2. \A k \in DOMAIN list : list[k] \in Range(list) /\ list[k] \in Clients
    BY <1>1 DEF Range
<1>3. Dismissed(i) = list[i] \/ (kind = "room" /\ i + 1 \in DOMAIN list /\ Dismissed(i) = list[i + 1])
    BY <1>1 DEF Dismissed
<1>4. QED
    BY <1>1, <1>2, <1>3, RemovedRange

\* The list without a client and the one behind it.
LEMMA ListWithoutTwo ==
    ASSUME ListsInv, NEW i \in DOMAIN list, i < Len(list)
    PROVE  /\ IsInjective(RemoveAt(RemoveAt(list, i), i))
           /\ i + 1 \in DOMAIN list
           /\ Range(RemoveAt(RemoveAt(list, i), i)) = Range(list) \ {list[i], list[i + 1]}
<1> DEFINE once == RemoveAt(list, i)
<1>1. list \in Seq(Clients) /\ i \in 1..Len(list) /\ Len(list) \in Nat /\ IsInjective(list)
    BY DEF ListsInv, ClientTypes, InOnePlace
<1>2. /\ once \in Seq(Clients) /\ Len(once) = Len(list) - 1
      /\ \A k \in 1..Len(list) - 1 : once[k] = IF k < i THEN list[k] ELSE list[k + 1]
    BY <1>1, RemovedAt
<1>3. IsInjective(once) /\ Range(once) = Range(list) \ {list[i]}
    BY <1>1, RemovedRange
<1> HIDE DEF once
<1>4. i \in 1..Len(once) /\ once[i] = list[i + 1] /\ i + 1 \in 1..Len(list)
    BY <1>1, <1>2
<1>5. IsInjective(RemoveAt(once, i)) /\ Range(RemoveAt(once, i)) = Range(once) \ {once[i]}
    BY <1>2, <1>3, <1>4, RemovedRange
<1>6. QED
    BY <1>3, <1>4, <1>5 DEF once

LEMMA FirstInQueue ==
    ASSUME ListsInv, queue # <<>>
    PROVE  /\ IsInjective(Tail(queue))
           /\ Head(queue) \in Clients /\ Head(queue) \in Range(queue)
           /\ Range(Tail(queue)) = Range(queue) \ {Head(queue)}
           /\ Head(queue) \notin Range(list) /\ Head(queue) # greeted
<1>1. queue \in Seq(Clients) /\ IsInjective(queue)
    BY DEF ListsInv, ClientTypes, InOnePlace
<1>2. /\ IsInjective(Tail(queue)) /\ Head(queue) \in Clients /\ Head(queue) \in Range(queue)
      /\ Range(Tail(queue)) = Range(queue) \ {Head(queue)}
    BY <1>1, TailRange
<1>3. QED
    BY <1>2 DEF ListsInv, InOnePlace

LEMMA StaysInOnePlace ==
    ASSUME ListsInv, ClientStep
    PROVE  InOnePlace' /\ HeldIsOpen'
<1> USE DEF ListsInv
<1>0. NoClient \notin Clients /\ Range(queue) \subseteq Clients /\ Range(list) \subseteq Clients
    BY RangeOfSeq DEF ClientTypes
<1>1. CASE Stays
  <2>1. InOnePlace' /\ Held' = Held
    BY <1>1 DEF Stays, InOnePlace, Held
  <2>2. \A c \in Clients : /\ conn[c] # "idle" => conn'[c] # "idle"
                           /\ Open(c)' <=> Open(c)
    BY <1>1, <1>0 DEF Stays, ClientTypes, Open
  <2>3. kind' = kind /\ Held \subseteq Clients
    BY DEF ClientStep, Held
  <2>4. QED
    BY <2>1, <2>2, <2>3 DEF HeldIsOpen
<1>2. CASE Accepted
  <2>1. greeted = NoClient /\ greeted' \in Clients /\ conn[greeted'] = "idle" /\ greeted' \notin Held
    BY <1>2 DEF Accepted, GreetedIsEnqueued, HeldIsOpen
  <2>2. Held' = Held \cup {greeted'}
    BY <1>0, <1>2, <2>1 DEF Accepted, Held
  <2>3. InOnePlace'
    BY <1>2, <2>1 DEF Accepted, InOnePlace, Held
  <2>4. /\ conn'[greeted'] = "well"
        /\ \A c \in Clients \ {greeted'} : conn'[c] = conn[c]
    BY <1>2, <2>1 DEF Accepted, ClientTypes
  <2>5. {c \in Clients : Open(c)}' = {c \in Clients : Open(c)} \cup {greeted'}
    BY <2>1, <2>4 DEF Open
  <2>6. kind' = kind /\ Held \subseteq Clients
    BY DEF ClientStep, Held
  <2>7. QED
    BY <2>1, <2>2, <2>3, <2>4, <2>5, <2>6 DEF HeldIsOpen
<1>3. CASE Enqueued
  <2>1. greeted \in Clients /\ greeted \notin Range(queue) /\ greeted \notin Range(list)
    BY <1>3 DEF Enqueued, GreetedIsEnqueued, ClientTypes, InOnePlace
  <2>2. IsInjective(queue') /\ Range(queue') = Range(queue) \cup {greeted}
    BY <1>3, <2>1, AppendedRange DEF Enqueued, ClientTypes, InOnePlace
  <2>3. InOnePlace'
    BY <1>0, <1>3, <2>1, <2>2 DEF Enqueued, InOnePlace
  <2>4. Held' = Held /\ UNCHANGED conn /\ kind' = kind
    BY <1>0, <1>3, <2>1, <2>2 DEF Enqueued, Held, ClientStep
  <2>5. QED
    BY <2>3, <2>4 DEF HeldIsOpen, Open
<1>4. CASE TurnedAway
  <2> DEFINE c0 == Head(queue)
  <2>1. /\ c0 \in Clients /\ c0 \in Range(queue) /\ c0 \notin Range(list) /\ c0 # greeted
        /\ IsInjective(queue') /\ Range(queue') = Range(queue) \ {c0}
    BY <1>4, FirstInQueue DEF TurnedAway
  <2>2. conn' = [conn EXCEPT ![c0] = "closed"] /\ UNCHANGED <<list, greeted, kind>>
    BY <1>4 DEF TurnedAway, ClientStep
  <2> HIDE DEF c0
  <2>3. InOnePlace'
    BY <2>1, <2>2 DEF InOnePlace
  <2>4. Held' = Held \ {c0}
    BY <2>1, <2>2 DEF Held
  <2>5. conn'[c0] = "closed" /\ \A c \in Clients \ {c0} : conn'[c] = conn[c]
    BY <2>1, <2>2 DEF ClientTypes
  <2>6. {c \in Clients : Open(c)}' = {c \in Clients : Open(c)} \ {c0}
    BY <2>5 DEF Open
  <2>7. Held \subseteq Clients
    BY DEF Held
  <2>8. QED
    BY <2>2, <2>3, <2>4, <2>5, <2>6, <2>7 DEF HeldIsOpen
<1>5. CASE Admitted
  <2> DEFINE c0 == Head(queue)
  <2>1. /\ c0 \in Clients /\ c0 \in Range(queue) /\ c0 \notin Range(list) /\ c0 # greeted
        /\ IsInjective(queue') /\ Range(queue') = Range(queue) \ {c0}
    BY <1>5, FirstInQueue DEF Admitted
  <2>2. list' = Append(list, c0) /\ UNCHANGED <<conn, greeted, kind>>
    BY <1>5 DEF Admitted, ClientStep
  <2> HIDE DEF c0
  <2>3. IsInjective(list') /\ Range(list') = Range(list) \cup {c0}
    BY <2>1, <2>2, AppendedRange DEF ClientTypes, InOnePlace
  <2>4. InOnePlace'
    BY <2>1, <2>2, <2>3 DEF InOnePlace
  <2>5. Held' = Held
    BY <2>1, <2>2, <2>3 DEF Held
  <2>6. QED
    BY <2>2, <2>4, <2>5 DEF HeldIsOpen, Open
<1>6. ASSUME NEW i \in DOMAIN list, Dismisses(i) PROVE InOnePlace' /\ HeldIsOpen'
  <2> DEFINE c0 == list[i]
             d  == Dismissed(i)
  <2>1. /\ IsInjective(list') /\ Range(list') = Range(list) \ {c0}
        /\ c0 \in Range(list) /\ c0 \in Clients
        /\ d \in Range(list) /\ d \in Clients
        /\ kind # "room" => d = c0
    BY <1>6, ListWithout DEF Dismisses, Disconnect
  <2>2. conn' = [conn EXCEPT ![d] = "closed"] /\ UNCHANGED <<queue, greeted, kind>>
    BY <1>6 DEF Dismisses, Disconnect, ClientStep
  <2> HIDE DEF c0, d
  <2>3. InOnePlace'
    BY <2>1, <2>2 DEF InOnePlace
  <2>4. Held' = Held \ {c0}
    BY <2>1, <2>2 DEF Held, InOnePlace
  <2>5. conn'[d] = "closed" /\ \A c \in Clients \ {d} : conn'[c] = conn[c]
    BY <2>1, <2>2 DEF ClientTypes
  <2>6. {c \in Clients : Open(c)}' = {c \in Clients : Open(c)} \ {d}
    BY <2>5 DEF Open
  <2>7. Held \subseteq Clients
    BY DEF Held
  <2>8. QED
    BY <2>1, <2>2, <2>3, <2>4, <2>5, <2>6, <2>7 DEF HeldIsOpen
<1>7. ASSUME NEW i \in DOMAIN list, DismissesTwo(i) PROVE InOnePlace' /\ HeldIsOpen'
  <2>1. /\ kind = "room" /\ IsInjective(list') /\ Range(list') \subseteq Range(list)
    BY <1>7, ListWithoutTwo DEF DismissesTwo
  <2>2. UNCHANGED <<queue, greeted, kind>>
    BY <1>7 DEF DismissesTwo, ClientStep
  <2>3. \A c \in Clients : conn'[c] = conn[c] \/ conn'[c] = "closed"
    BY <1>7 DEF DismissesTwo, ClientTypes
  <2>4. InOnePlace'
    BY <2>1, <2>2 DEF InOnePlace
  <2>5. Held' \subseteq Held /\ Held \subseteq Clients
    BY <2>1, <2>2 DEF Held
  <2>6. QED
    BY <2>1, <2>2, <2>3, <2>4, <2>5 DEF HeldIsOpen
<1>8. ASSUME NEW i \in DOMAIN list, Watched(i) PROVE InOnePlace' /\ HeldIsOpen'
    BY <1>8 DEF Watched, ClientStep, InOnePlace, HeldIsOpen, Held, Open
<1>9. QED
    BY <1>1, <1>2, <1>3, <1>4, <1>5, <1>6, <1>7, <1>8 DEF ClientStep

LEMMA ListsInvAlways == Spec => []ListsInv
<1>1. Init => ListsInv
  <2> SUFFICES ASSUME Init PROVE ListsInv
    OBVIOUS
  <2>1. queue = <<>> /\ list = <<>> /\ greeted = NoClient /\ conn = [c \in Clients |-> "idle"]
    BY DEF Init, ListeningInit
  <2>2. DOMAIN queue = {} /\ DOMAIN list = {}
    BY <2>1
  <2>3. Range(queue) = {} /\ Range(list) = {}
    BY <2>2 DEF Range
  <2>4. InOnePlace
    BY <2>2, <2>3 DEF InOnePlace, IsInjective
  <2>5. Held = {} /\ \A c \in Clients : ~Open(c)
    BY <2>1, <2>3 DEF Held, Open
  <2>6. HeldIsOpen
    BY <2>5 DEF HeldIsOpen
  <2>7. QED
    BY <2>4, <2>6, InitialClients, TwoKindsOfTypes DEF ListsInv
<1>2. ListsInv /\ TypeOK /\ [Next]_clVars => ListsInv'
    BY ClientSteps, ClientTypesStep, StaysInOnePlace DEF ListsInv
<1>3. QED
    BY <1>1, <1>2, ClientListTypes, PTL DEF Spec

\* What is as far from a third is the same.
LEMMA SameDistance ==
    ASSUME NEW x \in Int, NEW y \in Int, NEW n \in Int, x - n = y - n
    PROVE  x = y
OBVIOUS

\* From the moment a connection is accepted until it is dismissed it is in one of the thread's hands,
\* the queue and the list, once, and but for rooms whatever is open is in one of them: no connection
\* leaks and none is closed in use (enqueue_client, add_new_..._clients, disconnect_..._client).
THEOREM NobodyIsHandedOverTwice == Spec => []HandedOverOnce
<1>1. ListsInv => HandedOverOnce
  <2> SUFFICES ASSUME ListsInv PROVE HandedOverOnce
    OBVIOUS
  <2>1. queue \in Seq(Clients) /\ list \in Seq(Clients) /\ InOnePlace
    BY DEF ListsInv, ClientTypes
  <2> DEFINE both == queue \o list
  <2>2. /\ both \in Seq(Clients) /\ Len(both) = Len(queue) + Len(list)
        /\ \A k \in 1..Len(queue) + Len(list) :
              both[k] = IF k <= Len(queue) THEN queue[k] ELSE list[k - Len(queue)]
    BY <2>1, ConcatProperties
  <2>3. Range(both) = Range(queue) \cup Range(list)
    BY <2>1, RangeConcatenation
  <2>4. Len(queue) \in Nat /\ Len(list) \in Nat /\ DOMAIN queue = 1..Len(queue) /\ DOMAIN list = 1..Len(list)
    BY <2>1
  <2> HIDE DEF both
  <2>5. DOMAIN both = 1..Len(queue) + Len(list)
    BY <2>2
  <2>6. IsInjective(both)
    <3> SUFFICES ASSUME NEW a \in 1..Len(queue) + Len(list), NEW b \in 1..Len(queue) + Len(list), both[a] = both[b]
                 PROVE  a = b
        BY <2>5 DEF IsInjective
    <3>1. \A k \in 1..Len(queue) + Len(list) :
             \/ k <= Len(queue) /\ k \in DOMAIN queue /\ both[k] = queue[k] /\ both[k] \in Range(queue)
             \/ ~(k <= Len(queue)) /\ k - Len(queue) \in DOMAIN list /\ both[k] = list[k - Len(queue)]
                                   /\ both[k] \in Range(list)
      <4>1. \A k \in 1..Len(queue) + Len(list) : ~(k <= Len(queue)) => k - Len(queue) \in 1..Len(list)
        BY <2>4
      <4>2. \A k \in 1..Len(queue) + Len(list) : k <= Len(queue) => k \in 1..Len(queue)
        BY <2>4
      <4>3. QED
        BY <2>2, <2>4, <4>1, <4>2 DEF Range
    <3>2. CASE a <= Len(queue) /\ b <= Len(queue)
        BY <2>1, <3>1, <3>2 DEF InOnePlace, IsInjective
    <3>3. CASE ~(a <= Len(queue)) /\ ~(b <= Len(queue))
      <4>1. a - Len(queue) = b - Len(queue)
        BY <2>1, <3>1, <3>3 DEF InOnePlace, IsInjective
      <4>2. a \in Int /\ b \in Int /\ Len(queue) \in Int
        BY <2>4
      <4>3. QED
        BY <4>1, <4>2, SameDistance, Zenon
    <3>4. CASE ~(a <= Len(queue)) /\ b <= Len(queue)
        BY <2>1, <3>1, <3>4 DEF InOnePlace
    <3>5. CASE a <= Len(queue) /\ ~(b <= Len(queue))
        BY <2>1, <3>1, <3>5 DEF InOnePlace
    <3>6. QED
        BY <3>2, <3>3, <3>4, <3>5
  <2>7. QED
    BY <2>1, <2>3, <2>6 DEF ListsInv, InOnePlace, HeldIsOpen, HandedOverOnce, both
<1>2. QED
    BY <1>1, ListsInvAlways, PTL

-----------------------------------------------------------------------------
(* Nobody is dismissed for nothing *)

\* Where a client is in the list.
LEMMA PlaceInList ==
    ASSUME ListsInv, NEW i \in DOMAIN list, NEW j \in DOMAIN list, list[i] = list[j]
    PROVE  i = j
BY DEF ListsInv, InOnePlace, IsInjective

LEMMA DismissedWithCause ==
    ASSUME ListsInv, ClientStep,
           NEW j \in DOMAIN list, conn[list[j]] = "well", conn'[list[j]] = "closed"
    PROVE  kind = "room" /\ \E i \in 1..j - 1 : conn[list[i]] # "well"
<1>0. /\ list \in Seq(Clients) /\ DOMAIN list = 1..Len(list) /\ list[j] \in Clients /\ j \in Nat
      /\ list[j] \in Range(list)
      /\ conn \in [Clients -> {"idle", "well", "leaving", "lost", "closed"}]
  <2>1. list \in Seq(Clients) /\ conn \in [Clients -> {"idle", "well", "leaving", "lost", "closed"}]
    BY DEF ListsInv, ClientTypes
  <2>2. QED
    BY <2>1 DEF Range
<1>1. CASE Stays
    BY <1>0, <1>1 DEF Stays
<1>2. CASE Accepted
    BY <1>0, <1>2 DEF Accepted
<1>3. CASE Enqueued \/ Admitted
    BY <1>0, <1>3 DEF Enqueued, Admitted
<1>4. CASE TurnedAway
  <2>1. queue # <<>> /\ conn' = [conn EXCEPT ![Head(queue)] = "closed"]
    BY <1>4 DEF TurnedAway
  <2>2. Head(queue) # list[j]
    BY <1>0, <2>1, FirstInQueue
  <2>3. QED
    BY <1>0, <2>1, <2>2
<1>5. ASSUME NEW i \in DOMAIN list, Dismisses(i)
      PROVE  kind = "room" /\ \E k \in 1..j - 1 : conn[list[k]] # "well"
  <2>1. conn[list[i]] # "well" /\ conn' = [conn EXCEPT ![Dismissed(i)] = "closed"]
    BY <1>5 DEF Dismisses, Disconnect
  <2>2. Dismissed(i) = list[j]
    BY <1>0, <2>1
  <2>3. list[i] # list[j]
    BY <2>1
  <2>4. kind = "room" /\ i + 1 \in DOMAIN list /\ list[i + 1] = list[j]
    BY <2>2, <2>3, ListWithout
  <2>5. i + 1 = j
    BY <2>4, PlaceInList
  <2>6. i \in 1..j - 1
    BY <1>0, <2>5
  <2>7. QED
    BY <2>1, <2>4, <2>6
<1>6. ASSUME NEW i \in DOMAIN list, DismissesTwo(i)
      PROVE  kind = "room" /\ \E k \in 1..j - 1 : conn[list[k]] # "well"
  <2>1. PICK second \in DOMAIN list :
           second > i /\ conn' = [conn EXCEPT ![list[i + 1]] = "closed", ![list[second]] = "closed"]
    BY <1>6 DEF DismissesTwo
  <2>2. kind = "room" /\ conn[list[i]] # "well" /\ i + 1 \in DOMAIN list
    BY <1>0, <1>6 DEF DismissesTwo
  <2>3. list[j] = list[i + 1] \/ list[j] = list[second]
    BY <1>0, <2>1
  <2>4. j = i + 1 \/ j = second
    BY <2>2, <2>3, PlaceInList
  <2>5. i \in 1..j - 1
    BY <1>0, <2>1, <2>4
  <2>6. QED
    BY <2>2, <2>5
<1>7. ASSUME NEW i \in DOMAIN list, Watched(i) PROVE FALSE
    BY <1>0, <1>7 DEF Watched
<1>8. QED
    BY <1>1, <1>2, <1>3, <1>4, <1>5, <1>6, <1>7 DEF ClientStep

\* A connection that is well is closed while its client is in the list only in a room, and only when
\* a client before it is not: what disconnect_room_client (room_server.cpp 308-343) and the second
\* disconnection after a failed reply can do goes one way, towards the end of the array.
THEOREM NobodyIsDismissedForNothing == Spec => DismissedForCause
<1> DEFINE Caused == \A j \in DOMAIN list :
            conn[list[j]] = "well" /\ conn'[list[j]] = "closed" =>
                kind = "room" /\ \E i \in 1..j - 1 : conn[list[i]] # "well"
<1>1. ListsInv /\ TypeOK /\ [Next]_clVars => [Caused]_clVars
    BY ClientSteps, DismissedWithCause
<1>2. QED
    BY <1>1, ListsInvAlways, ClientListTypes, PTL DEF Spec, DismissedForCause

-----------------------------------------------------------------------------
(* Watchers *)

\* Only the market has them.
WatchersInv == WatchersAreClients /\ (kind # "market" => watchers = <<>>)

LEMMA WatchersStayClients ==
    ASSUME ListsInv, WatchersInv, ClientStep
    PROVE  WatchersInv'
<1>0. kind' = kind /\ watchers \in Seq(Clients) /\ IsInjective(watchers) /\ Range(watchers) \subseteq Range(list)
    BY DEF ClientStep, ListsInv, ClientTypes, WatchersInv, WatchersAreClients
<1>1. CASE Stays \/ Accepted \/ Enqueued \/ TurnedAway
    BY <1>0, <1>1 DEF Stays, Accepted, Enqueued, TurnedAway, WatchersInv, WatchersAreClients
<1>2. CASE Admitted
  <2>1. list' = Append(list, Head(queue)) /\ UNCHANGED watchers
    BY <1>2 DEF Admitted
  <2>2. /\ list \in Seq(Clients) /\ IsInjective(list)
        /\ Head(queue) \in Clients /\ Head(queue) \notin Range(list)
    BY <1>2, FirstInQueue DEF Admitted, ListsInv, ClientTypes, InOnePlace
  <2>3. Range(list') = Range(list) \cup {Head(queue)}
    BY <2>1, <2>2, AppendedRange
  <2>4. QED
    BY <1>0, <2>1, <2>3 DEF WatchersInv, WatchersAreClients
<1>3. ASSUME NEW i \in DOMAIN list, Dismisses(i) PROVE WatchersInv'
  <2>1. Range(list') = Range(list) \ {list[i]} /\ watchers' = WithoutWatcher(list[i])
    BY <1>3, ListWithout DEF Dismisses, Disconnect
  <2>2. IsInjective(watchers') /\ Range(watchers') \subseteq Range(watchers) \ {list[i]}
    BY <1>0, <2>1, WithoutWatcherIs
  <2>3. watchers = <<>> => watchers' = <<>>
    <3>1. DOMAIN <<>> = {}
        OBVIOUS
    <3>2. QED
        BY <2>1, <3>1 DEF WithoutWatcher, Watches, Range
  <2>4. QED
    BY <1>0, <2>1, <2>2, <2>3 DEF WatchersInv, WatchersAreClients
<1>4. ASSUME NEW i \in DOMAIN list, DismissesTwo(i) PROVE WatchersInv'
  <2>1. kind # "market" /\ UNCHANGED watchers
    BY <1>4 DEF DismissesTwo
  <2>2. watchers' = <<>>
    BY <2>1 DEF WatchersInv
  <2>3. DOMAIN watchers' = {}
    BY <2>2
  <2>4. QED
    BY <1>0, <2>2, <2>3 DEF WatchersInv, WatchersAreClients, IsInjective, Range
<1>5. ASSUME NEW i \in DOMAIN list, Watched(i) PROVE WatchersInv'
  <2> DEFINE others == WithoutWatcher(list[i])
  <2>1. /\ kind = "market" /\ UNCHANGED list
        /\ watchers' = others \/ watchers' = Append(others, list[i])
    BY <1>5 DEF Watched
  <2>2. list[i] \in Clients /\ list[i] \in Range(list)
    BY ListWithout
  <2>3. /\ others \in Seq(Clients) /\ IsInjective(others)
        /\ Range(others) \subseteq Range(watchers) \ {list[i]}
    BY <1>0, WithoutWatcherIs
  <2> HIDE DEF others
  <2>4. IsInjective(Append(others, list[i])) /\ Range(Append(others, list[i])) = Range(others) \cup {list[i]}
    BY <2>2, <2>3, AppendedRange
  <2>5. QED
    BY <1>0, <2>1, <2>2, <2>3, <2>4 DEF WatchersInv, WatchersAreClients
<1>6. QED
    BY <1>1, <1>2, <1>3, <1>4, <1>5 DEF ClientStep

\* Whoever leaves, is lost or is dismissed by a loop over the watchers or over the clients: a watcher
\* is a client, so the Assert(false) of market_server_main_loop (market_server.cpp:941) cannot fail.
THEOREM EveryWatcherIsAClient == Spec => []WatchersAreClients
<1>1. Init => WatchersInv
  <2> SUFFICES ASSUME Init PROVE WatchersInv
    OBVIOUS
  <2>1. watchers = <<>>
    BY DEF Init
  <2>2. DOMAIN watchers = {}
    BY <2>1
  <2>3. QED
    BY <2>1, <2>2 DEF WatchersInv, WatchersAreClients, IsInjective, Range
<1>2. ListsInv /\ TypeOK /\ WatchersInv /\ [Next]_clVars => WatchersInv'
    BY ClientSteps, WatchersStayClients
<1>3. WatchersInv => WatchersAreClients
    BY DEF WatchersInv
<1>4. QED
    BY <1>1, <1>2, <1>3, ListsInvAlways, ClientListTypes, PTL DEF Spec

-----------------------------------------------------------------------------
(* A room is told of its changes *)

\* While a room sends its changes, those behind the loop's index have them.
BehindIsTold == \A j \in DOMAIN list : j < at => list[j] \in told

ToldInv ==
    kind = "room" =>
        IF did_change THEN main = "updating" => BehindIsTold
        ELSE Range(list) \subseteq told

LEMMA ListOfClients ==
    ASSUME ListsInv, TypeOK
    PROVE  /\ list \in Seq(Clients) /\ Len(list) \in Nat /\ DOMAIN list = 1..Len(list)
           /\ at \in Nat /\ at > 0 /\ IsInjective(list)
BY DEF ListsInv, ClientTypes, InOnePlace, TypeOK

\* A client is removed while the room listens: the others have what they had.
LEMMA ToldWhileReceiving ==
    ASSUME ListsInv, TypeOK, ToldInv, kind = "room", LoseClient \/ RoomReplyFails
    PROVE  ToldInv'
<1>1. at \in DOMAIN list /\ main = "receiving"
  <2>1. at <= Len(list) /\ main = "receiving"
    BY DEF LoseClient, RoomReplyFails, Receiving
  <2>2. QED
    BY <2>1, ListOfClients
<1>2. CASE LoseClient
  <2>1. /\ list' = RemoveAt(list, at) /\ told' = told \ {list[at]}
        /\ UNCHANGED <<kind, main, did_change>>
    BY <1>2 DEF LoseClient, Disconnect, receiveFrame
  <2>2. Range(list') = Range(list) \ {list[at]}
    BY <1>1, <2>1, ListWithout
  <2>3. QED
    BY <1>1, <2>1, <2>2 DEF ToldInv
<1>3. CASE RoomReplyFails
  <2>1. CASE at = Len(list)
    <3>1. UNCHANGED <<kind, main, did_change, list, told>>
      BY <1>3, <2>1 DEF RoomReplyFails, Abort, listVars
    <3>2. QED
      BY <1>1, <3>1 DEF ToldInv
  <2>2. CASE at # Len(list)
    <3>1. /\ list' = RemoveAt(RemoveAt(list, at), at) /\ told' = told \ {list[at], list[at + 1]}
          /\ UNCHANGED <<kind, main, did_change>>
      BY <1>3, <2>2 DEF RoomReplyFails, receiveFrame
    <3>2. at < Len(list)
      BY <1>1, <2>2, ListOfClients
    <3>3. Range(list') = Range(list) \ {list[at], list[at + 1]}
      BY <1>1, <3>1, <3>2, ListWithoutTwo
    <3>4. QED
      BY <1>1, <3>1, <3>3 DEF ToldInv
  <2>3. QED
    BY <2>1, <2>2
<1>4. QED
    BY <1>2, <1>3

\* The update could not be sent: the loop stays where it is, and so does who is behind it.
LEMMA ToldWhenUpdateFails ==
    ASSUME ListsInv, TypeOK, ToldInv, kind = "room", UpdateFails
    PROVE  ToldInv'
<1>1. /\ at \in DOMAIN list /\ main = "updating" /\ did_change
      /\ \E i \in DOMAIN list : list[i] = list[at] /\ Disconnect(i)
  <2>1. at <= Len(list) /\ Audience = list /\ main = "updating" /\ did_change
    BY DEF UpdateFails, Updating, Audience
  <2>2. QED
    BY <2>1, ListOfClients DEF UpdateFails
<1>2. Disconnect(at)
    BY <1>1, PlaceInList
<1>3. list' = RemoveAt(list, at) /\ told' = told \ {list[at]} /\ at' = at /\ UNCHANGED <<kind, main, did_change>>
    BY <1>2 DEF Disconnect, UpdateFails, IndexAfterLoss, updateFrame
<1>4. ASSUME NEW j \in DOMAIN list', j < at
      PROVE  list'[j] \in told'
  <2>1. /\ list' \in Seq(Clients) /\ Len(list') = Len(list) - 1
        /\ \A k \in 1..Len(list) - 1 : list'[k] = IF k < at THEN list[k] ELSE list[k + 1]
    BY <1>1, <1>3, ListOfClients, RemovedAt
  <2>2. j \in 1..Len(list) - 1 /\ j \in DOMAIN list
    BY <2>1, ListOfClients
  <2>3. list'[j] = list[j]
    BY <1>4, <2>1, <2>2
  <2>4. list[j] \in told
    BY <1>1, <1>4, <2>2 DEF ToldInv, BehindIsTold
  <2>5. list[j] # list[at]
    BY <1>1, <1>4, <2>2, PlaceInList, ListOfClients
  <2>6. QED
    BY <1>3, <2>3, <2>4, <2>5
<1>5. QED
    BY <1>1, <1>3, <1>4 DEF ToldInv, BehindIsTold

LEMMA ToldWhileUpdating ==
    ASSUME ListsInv, TypeOK, ToldInv, kind = "room",
           EndReceiving \/ SkipServer \/ SendUpdate \/ UpdateFails \/ EndUpdating
    PROVE  ToldInv'
<1>1. CASE EndReceiving
  <2>1. /\ main' = "updating" /\ at' = 1 /\ UNCHANGED <<kind, list>>
        /\ \E changed \in BOOLEAN : /\ did_change' = (did_change \/ changed)
                                    /\ told' = IF changed THEN {} ELSE told
    BY <1>1 DEF EndReceiving, EnterPhase
  <2>2. \A j \in DOMAIN list : ~(j < 1)
    BY ListOfClients
  <2>3. did_change \in BOOLEAN
    BY DEF TypeOK
  <2>4. QED
    BY <2>1, <2>2, <2>3 DEF ToldInv, BehindIsTold
<1>2. CASE SkipServer
    BY <1>2 DEF SkipServer
<1>3. CASE SendUpdate
  <2>1. /\ at \in DOMAIN list /\ list[at] \in Range(list) /\ main = "updating" /\ did_change
        /\ Audience = list
    <3>1. at <= Len(list) /\ Audience = list /\ main = "updating" /\ did_change
      BY <1>3 DEF SendUpdate, Updating, Audience
    <3>2. QED
      BY <3>1, ListOfClients DEF Range
  <2>2. /\ told' = told \cup {list[at]} /\ at' = at + 1
        /\ UNCHANGED <<kind, main, list, did_change>>
    BY <1>3, <2>1 DEF SendUpdate, updateFrame
  <2>3. \A j \in DOMAIN list : j < at + 1 => j < at \/ j = at
    BY <2>1, ListOfClients
  <2>4. QED
    BY <2>1, <2>2, <2>3 DEF ToldInv, BehindIsTold
<1>4. CASE UpdateFails
    BY <1>4, ToldWhenUpdateFails
<1>5. CASE EndUpdating
  <2>1. /\ did_change' = FALSE /\ UNCHANGED <<kind, list, told>>
        /\ main = "updating"
        /\ did_change => at > Len(list)
    BY <1>5 DEF EndUpdating, EnterPhase, Audience, listVars
  <2>2. at > Len(list) => \A j \in DOMAIN list : j < at
    BY ListOfClients
  <2>3. Range(list) \subseteq told
    <3>1. CASE did_change
      <4>1. \A j \in DOMAIN list : list[j] \in told
        BY <2>1, <2>2, <3>1 DEF ToldInv, BehindIsTold
      <4>2. QED
        BY <4>1 DEF Range
    <3>2. CASE ~did_change
      BY <3>2 DEF ToldInv
    <3>3. QED
      BY <3>1, <3>2
  <2>4. QED
    BY <2>1, <2>3 DEF ToldInv
<1>6. QED
    BY <1>1, <1>2, <1>3, <1>4, <1>5

LEMMA ToldWhileAdmitting ==
    ASSUME ListsInv, TypeOK, ToldInv, kind = "room",
           TurnAway \/ Admit \/ AdmitAndLose \/ RoomInitFails \/ EndTurn
    PROVE  ToldInv'
<1>1. CASE TurnAway \/ AdmitAndLose \/ RoomInitFails
  <2>1. UNCHANGED <<kind, main, did_change, list, told>> /\ main = "admitting"
    BY <1>1 DEF TurnAway, AdmitAndLose, RoomInitFails, Admitting, admitFrame, Abort, listVars
  <2>2. QED
    BY <2>1 DEF ToldInv
<1>2. CASE Admit
  <2>1. /\ main = "admitting" /\ queue # <<>> /\ list' = Append(list, Head(queue)) /\ UNCHANGED <<kind, main>>
        /\ \E changed \in BOOLEAN :
              /\ did_change' = (did_change \/ changed)
              /\ told' = IF changed THEN {} ELSE told \cup {Head(queue)}
    BY <1>2 DEF Admit, Admitting, admitFrame
  <2>2. Range(list') = Range(list) \cup {Head(queue)}
    BY <2>1, FirstInQueue, ListOfClients, AppendedRange
  <2>3. did_change \in BOOLEAN
    BY DEF TypeOK
  <2>4. QED
    BY <2>1, <2>2, <2>3 DEF ToldInv
<1>3. CASE EndTurn
  <2>1. UNCHANGED <<kind, did_change, list, told>> /\ main' = "top"
    BY <1>3 DEF EndTurn, EnterPhase, listVars
  <2>2. main = "admitting"
    BY <1>3 DEF EndTurn
  <2>3. QED
    BY <2>1, <2>2 DEF ToldInv
<1>4. QED
    BY <1>1, <1>2, <1>3

LEMMA ToldStep ==
    ASSUME ListsInv, TypeOK, ToldInv, [Next]_clVars
    PROVE  ToldInv'
<1>0. kind' = kind
    BY ClientSteps DEF ClientStep
<1>1. CASE kind # "room"
    BY <1>0, <1>1 DEF ToldInv
<1>2. CASE kind = "room"
  <2>1. ASSUME UNCHANGED <<list, at, told, did_change>>, main' # "updating" \/ main' = main
        PROVE  ToldInv'
      BY <1>0, <2>1 DEF ToldInv, BehindIsTold
  <2>2. CASE UNCHANGED clVars
      BY <2>1, <2>2 DEF clVars
  <2>3. CASE ThreadMoves
    <3>1. UNCHANGED lists /\ main' = main
      BY <2>3 DEF ThreadMoves, ThreadStep, ThreadStops, EnqueueClient
    <3>2. QED
      BY <2>1, <3>1 DEF lists
  <2>4. CASE Environment
    <3>1. ~SetViewTarget
      BY <1>2 DEF SetViewTarget
    <3>2. UNCHANGED lists /\ (main' = main \/ main' = "ended")
      BY <2>4, <3>1 DEF Environment, AcceptFails, RestartFails, RequestExit, AcceptClient, HelloFails, Depart
    <3>3. QED
      BY <2>1, <3>2 DEF lists
  <2>5. CASE (BeginTurn \/ RestartListening \/ StopListening) /\ UNCHANGED lists
    <3>1. main' # "updating"
      BY <2>5 DEF BeginTurn, RestartListening, StopListening
    <3>2. QED
      BY <2>1, <2>5, <3>1 DEF lists
  <2>6. CASE HearClient
    <3>1. main = "receiving" /\ UNCHANGED <<kind, main, list, told, did_change>>
      BY <2>6 DEF HearClient, Receiving, listVars, receiveFrame
    <3>2. QED
      BY <3>1 DEF ToldInv
  <2>7. ~MarketReplyFails
      BY <1>2 DEF MarketReplyFails
  <2>8. CASE MainMoves
      BY <1>2, <2>5, <2>6, <2>7, <2>8, ToldWhileReceiving, ToldWhileUpdating, ToldWhileAdmitting DEF MainMoves
  <2>9. QED
      BY <2>2, <2>3, <2>4, <2>8 DEF Next
<1>3. QED
    BY <1>1, <1>2

\* Whoever is lost while a room sends its changes, nobody after him is left without them, and whoever
\* is admitted gets the room as it is: the room server's loop steps back with the list it shortens
\* (room_server.cpp, room_server_main_loop).
THEOREM NobodyMissesAnUpdate == Spec => []RoomIsTold
<1>1. Init => ToldInv
  <2>1. Init => list = <<>> /\ did_change = FALSE
    BY DEF Init
  <2>2. list = <<>> => Range(list) = {}
    BY DEF Range
  <2>3. QED
    BY <2>1, <2>2 DEF ToldInv
<1>2. ListsInv /\ TypeOK /\ ToldInv /\ [Next]_clVars => ToldInv'
    BY ToldStep
<1>3. ToldInv => RoomIsTold
    BY DEF ToldInv, RoomIsTold
<1>4. QED
    BY <1>1, <1>2, <1>3, ListsInvAlways, ClientListTypes, PTL DEF Spec

=============================================================================
