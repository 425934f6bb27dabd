--------------------------- MODULE ListeningLoop ---------------------------
(***************************************************************************)
(* How a connection reaches a server (net_server.cpp and the listening     *)
(* procedures of the three servers).  A thread of its own accepts          *)
(* connections, reads a HELLO packet from each and puts them into a queue  *)
(* under a mutex.  The main loop takes them from the queue once per turn;  *)
(* it also restarts the thread when accepting has failed, and stops it     *)
(* when the server is asked to exit.                                       *)
(*                                                                         *)
(* The three servers share this code.  They differ in one thing here: only *)
(* the room server zeroes the Listening_Loop before it starts the thread   *)
(* again (room_server.cpp:2183).                                           *)
(***************************************************************************)
EXTENDS Naturals, Sequences, FiniteSets

CONSTANTS
    Clients,            \* connections that may be made; each is made once
    NoClient,
    ServerKinds,        \* the servers to consider, of "room", "user" and "market"
    QueueCapacity,      \* ARRLEN(queue->clients)
    MaxAcceptFailures   \* how often accepting may fail

ASSUME ListeningAssumption ==
    /\ NoClient \notin Clients
    /\ ServerKinds \subseteq {"room", "user", "market"}
    /\ QueueCapacity \in Nat \ {0}
    /\ MaxAcceptFailures \in Nat

VARIABLES
    kind,                   \* which server this is
    server_should_exit,     \* Room_Server::should_exit and its siblings
    loop_should_exit,       \* Listening_Loop::should_exit
    client_accept_failed,   \* Listening_Loop::client_accept_failed
    thread,                 \* where the listening thread is
    greeted,                \* the connection it is about to enqueue
    queue,                  \* RS_Client_Queue and its siblings
    main,                   \* where the main loop is
    conn,                   \* the connections, and how the other end is
    accept_failures

loopVars   == <<server_should_exit, loop_should_exit, client_accept_failed>>
threadVars == <<thread, greeted>>

ListeningTypeOK ==
    /\ kind \in ServerKinds
    /\ server_should_exit \in BOOLEAN
    /\ loop_should_exit \in BOOLEAN
    /\ client_accept_failed \in BOOLEAN
    /\ thread \in {"accepting", "enqueuing", "ended"}
    /\ greeted \in Clients \cup {NoClient}
    /\ queue \in Seq(Clients)
    /\ main \in {"top", "joining", "receiving", "updating", "admitting", "stopping", "ended"}
    /\ conn \in [Clients -> {"idle", "well", "leaving", "lost", "closed"}]
    /\ accept_failures \in 0..MaxAcceptFailures

\* start_listening_loop has opened the socket and created the thread.
ListeningInit ==
    /\ kind \in ServerKinds
    /\ server_should_exit = FALSE
    /\ loop_should_exit = FALSE
    /\ client_accept_failed = FALSE
    /\ thread = "accepting"
    /\ greeted = NoClient
    /\ queue = <<>>
    /\ main = "top"
    /\ conn = [c \in Clients |-> "idle"]
    /\ accept_failures = 0

-----------------------------------------------------------------------------
(* The other ends.  A client that is "leaving" has said goodbye or sent    *)
(* what no handler accepts; the next receive finds it.  Of one that is     *)
(* "lost" receive_next_network_node_packet sees nothing (FIONREAD gives    *)
(* zero), but a send may fail.  A "closed" one was closed by the server.   *)

Open(c) == conn[c] \in {"well", "leaving", "lost"}

Depart(c) ==
    /\ conn[c] = "well"
    /\ \E how \in {"leaving", "lost"} : conn' = [conn EXCEPT ![c] = how]
    /\ UNCHANGED <<kind, loopVars, threadVars, queue, main, accept_failures>>

\* A send succeeds unless the connection is gone; to a lost client it may do either.
CanFailSend(c) == conn[c] \in {"lost", "closed"}

-----------------------------------------------------------------------------
(* The listening thread *)

\* listening_loop_running finds should_exit set.
ThreadStops ==
    /\ thread = "accepting"
    /\ loop_should_exit
    /\ thread' = "ended"
    /\ UNCHANGED <<kind, loopVars, greeted, queue, main, conn, accept_failures>>

\* A connection comes in (when, is up to the other end), and its HELLO arrives within the
\* read timeout; the room server answers it.
AcceptClient(c) ==
    /\ thread = "accepting"
    /\ ~loop_should_exit
    /\ conn[c] = "idle"
    /\ thread' = "enqueuing"
    /\ greeted' = c
    /\ conn' = [conn EXCEPT ![c] = "well"]
    /\ UNCHANGED <<kind, loopVars, queue, main, accept_failures>>

\* Something else comes first, nothing does in time, or it cannot be answered.
HelloFails(c) ==
    /\ thread = "accepting"
    /\ ~loop_should_exit
    /\ conn[c] = "idle"
    /\ conn' = [conn EXCEPT ![c] = "closed"]
    /\ UNCHANGED <<kind, loopVars, threadVars, queue, main, accept_failures>>

AcceptFails ==
    /\ thread = "accepting"
    /\ ~loop_should_exit
    /\ accept_failures < MaxAcceptFailures
    /\ accept_failures' = accept_failures + 1
    /\ client_accept_failed' = TRUE
    /\ thread' = "ended"
    /\ UNCHANGED <<kind, server_should_exit, loop_should_exit, greeted, queue, main, conn>>

\* enqueue_client.  While the main loop takes clients from the queue it holds the
\* mutex; while the queue is full the thread waits, whatever should_exit says.
EnqueueClient ==
    /\ thread = "enqueuing"
    /\ main # "admitting"
    /\ Len(queue) < QueueCapacity
    /\ queue' = Append(queue, greeted)
    /\ thread' = "accepting"
    /\ greeted' = NoClient
    /\ UNCHANGED <<kind, loopVars, main, conn, accept_failures>>

\* What the thread does by itself, once there is something to do.
ThreadStep == ThreadStops \/ EnqueueClient

-----------------------------------------------------------------------------
(* The main loop, as far as the thread is concerned *)

\* stop_user_server and stop_market_server, when the room server has ended.  The
\* room server is asked only after it has ended by itself.
RequestExit ==
    /\ kind # "room"
    /\ ~server_should_exit
    /\ server_should_exit' = TRUE
    /\ UNCHANGED <<kind, loop_should_exit, client_accept_failed, threadVars, queue, main, conn, accept_failures>>

\* Mutant: stop_listening_loop joins the thread without asking it to exit.
FlagOnStop_NotSet == loop_should_exit
FlagOnStop == TRUE

BeginTurn ==
    /\ main = "top"
    /\ IF server_should_exit THEN
            /\ main' = "stopping"
            /\ loop_should_exit' = FlagOnStop
       ELSE /\ main' = IF client_accept_failed THEN "joining" ELSE "receiving"
            /\ UNCHANGED loop_should_exit
    /\ UNCHANGED <<kind, server_should_exit, client_accept_failed, threadVars, queue, conn, accept_failures>>

\* Mutant: the room server forgets Zero(server->listening_loop).
FlagAfterRestart_NotZeroed == client_accept_failed
\* init_atomic leaves the values as they are ("Zero *loop before calling this").
FlagAfterRestart == IF kind = "room" THEN FALSE ELSE client_accept_failed

\* The join has no time limit.  Afterwards: deinit_listening_loop, start_listening_loop.
RestartListening ==
    /\ main = "joining"
    /\ thread = "ended"
    /\ client_accept_failed' = FlagAfterRestart
    /\ thread' = "accepting"
    /\ main' = "receiving"
    /\ UNCHANGED <<kind, server_should_exit, loop_should_exit, greeted, queue, conn, accept_failures>>

\* platform_create_thread fails; the main loop returns.
RestartFails ==
    /\ main = "joining"
    /\ thread = "ended"
    /\ client_accept_failed' = FlagAfterRestart
    /\ main' = "ended"
    /\ UNCHANGED <<kind, server_should_exit, loop_should_exit, threadVars, queue, conn, accept_failures>>

\* stop_listening_loop: the join, again without a limit, and deinit_listening_loop.
StopListening ==
    /\ main = "stopping"
    /\ thread = "ended"
    /\ main' = "ended"
    /\ UNCHANGED <<kind, loopVars, threadVars, queue, conn, accept_failures>>

=============================================================================
