----------------------------- MODULE UserServer -----------------------------
(***************************************************************************)
(* The user server as the participant of two-phase commit                  *)
(* (user_server.cpp).  Its main loop is one thread that handles one packet *)
(* at a time, so every handler below is one step.  For each user the room  *)
(* server and the market server each have at most one connection, a        *)
(* US_Client on this side, with a current_transaction of its own: nothing  *)
(* makes a transaction of one server wait for a transaction of the other.  *)
(*                                                                         *)
(* A connection is a pair of FIFO queues.  Messages carry no transaction   *)
(* number.  A connection that is lost loses what is in it, and the         *)
(* coordinators never replace it (find_or_add_connection_to_user_server    *)
(* returns the old one).                                                   *)
(*                                                                         *)
(* The servers run in one process: an Assert that fails ends all of them,  *)
(* and with them every account, as nothing is stored.                      *)
(***************************************************************************)
EXTENDS UserAccount

CONSTANTS
    Users,
    InitialAccounts     \* what create_dummy_users may have made of the users

\* No reservation exists before a server asks for one.
Unreserved(a) ==
    /\ \A n \in Slots : ~a.inventory[n].reserved /\ a.inventory_reservations[n] = NoServer
    /\ \A s \in Servers : a.money_reservations[s] = 0
    /\ a.total_money_reserved = 0

ASSUME UsersAssumption == IsFiniteSet(Users)
ASSUME InitialAccountsAssumption ==
    /\ InitialAccounts \subseteq [Users -> Account]
    /\ \A f \in InitialAccounts : \A u \in Users : Unreserved(f[u])

VARIABLES
    account,        \* [Users -> Account]
    did_change,     \* User::did_change: the players have not been sent this account yet
    link,           \* the connection a server has to a user: "none", "open" or "broken"
    current,        \* US_Client::current_transaction_exists and ::current_transaction
    to_us,          \* packets from a server, not read yet
    from_us,        \* votes, not read yet
    aborted         \* an Assert has failed

accountVars == <<account, did_change>>
netVars     == <<link, to_us, from_us>>
usVars      == <<account, did_change, link, current, to_us, from_us, aborted>>

NoCurrent == [exists |-> FALSE, transaction |-> <<>>]

Prepare(t)  == [message |-> "PREPARE", transaction |-> t]
Decision(c) == [message |-> IF c THEN "COMMIT" ELSE "ABORT"]

\* Mutant: one is added to a slot that counts from one already.
VoteCommit_SlotPlusOne(t, a) ==
    [vote |-> "COMMIT", num_operations |-> Len(t),
     item |-> IF t[1].type \in {"ITEM_TO_SERVER", "ITEM_RESERVE"} THEN t[1].item ELSE BlankItem,
     slot |-> IF t[1].type = "SLOT_RESERVE" THEN Min(EmptySlots(a)) + 1 ELSE 1]

\* A vote, with what the coordinators read of its UCB_Transaction_Commit_Vote_Payload:
\* the number of operations, and the first operation's payload.  That payload is a
\* union.  Read as the wrong member it gives a blank item, or slot_ix 0: the low half
\* of Item_ID::origin, which create_item sets to 0.
VoteAbort == [vote |-> "ABORT"]
VoteCommit(t, a) ==
    [vote |-> "COMMIT",
     num_operations |-> Len(t),
     item |-> IF t[1].type \in {"ITEM_TO_SERVER", "ITEM_RESERVE"} THEN t[1].item ELSE BlankItem,
     slot |-> IF t[1].type = "SLOT_RESERVE" THEN Min(EmptySlots(a)) ELSE 1]

ToUsMessages ==
         [message : {"PREPARE"}, transaction : Transactions \ {<<>>}]
    \cup [message : {"COMMIT", "ABORT"}]
FromUsMessages ==
         [vote : {"ABORT"}]
    \cup [vote : {"COMMIT"}, num_operations : 1..MAX_US_TRANSACTION_OPERATIONS,
          item : Item, slot : Slots]

-----------------------------------------------------------------------------
UserServerInit ==
    /\ account \in InitialAccounts
    /\ did_change = [u \in Users |-> FALSE]
    /\ link    = [u \in Users |-> [s \in Servers |-> "none"]]
    /\ current = [u \in Users |-> [s \in Servers |-> NoCurrent]]
    /\ to_us   = [u \in Users |-> [s \in Servers |-> <<>>]]
    /\ from_us = [u \in Users |-> [s \in Servers |-> <<>>]]
    /\ aborted = FALSE

\* The packet server s has sent about user u that is read next.  The main loop takes the
\* users one after the other, and sends a user's update before it goes on to the next.
Arrived(u, s, kinds) ==
    /\ ~aborted
    /\ \A v \in Users \ {u} : ~did_change[v]
    /\ to_us[u][s] # <<>>
    /\ Head(to_us[u][s]).message \in kinds

ReadPacket(u, s) == to_us' = [to_us EXCEPT ![u][s] = Tail(@)]

\* TRANSACTION_PREPARE: remember the transaction, and vote.
HandlePrepare(u, s) ==
    /\ Arrived(u, s, {"PREPARE"})
    /\ ~current[u][s].exists
    /\ ReadPacket(u, s)
    /\ LET t == Head(to_us[u][s]).transaction
           vote == IF transaction_possible(t, account[u], s) THEN VoteCommit(t, account[u]) ELSE VoteAbort
       IN  IF VoteAssertFails(t, account[u], s)
           THEN aborted' = TRUE /\ UNCHANGED <<current, from_us>>
           ELSE /\ current' = [current EXCEPT ![u][s] = [exists |-> TRUE, transaction |-> t]]
                /\ from_us' = [from_us EXCEPT ![u][s] = Append(@, vote)]
                /\ UNCHANGED aborted
    /\ UNCHANGED <<accountVars, link>>

\* Mutant: the last operation alone decides.
SetsDidChange_Last(t) == t[Len(t)].type \notin {"MONEY_TRANSFER", "MONEY_RESERVE", "MONEY_UNRESERVE"}
\* All the operations but the MONEY ones set did_change.
SetsDidChange(t) ==
    \E i \in DOMAIN t : t[i].type \notin {"MONEY_TRANSFER", "MONEY_RESERVE", "MONEY_UNRESERVE"}

\* TRANSACTION_COMMAND_COMMIT for the current transaction.
HandleCommit(u, s) ==
    /\ Arrived(u, s, {"COMMIT"})
    /\ current[u][s].exists
    /\ ReadPacket(u, s)
    /\ LET t      == current[u][s].transaction
           result == commit_transaction(t, account[u], s)
       IN  IF result.ok
           THEN /\ account' = [account EXCEPT ![u] = result.account]
                /\ did_change' = [did_change EXCEPT ![u] = @ \/ SetsDidChange(t)]
                /\ current' = [current EXCEPT ![u][s] = NoCurrent]
                /\ UNCHANGED aborted
           ELSE aborted' = TRUE /\ UNCHANGED <<accountVars, current>>
    /\ UNCHANGED <<link, from_us>>

\* TRANSACTION_COMMAND_ABORT: an update is sent all the same, so that the game
\* client stops showing what it expected the transaction to do.
HandleAbort(u, s) ==
    /\ Arrived(u, s, {"ABORT"})
    /\ current[u][s].exists
    /\ ReadPacket(u, s)
    /\ did_change' = [did_change EXCEPT ![u] = TRUE]
    /\ current' = [current EXCEPT ![u][s] = NoCurrent]
    /\ UNCHANGED <<account, link, from_us, aborted>>

\* The two "default: Assert(false)": a PREPARE while a transaction is prepared,
\* a decision while none is.
HandleUnexpected(u, s) ==
    /\ \/ Arrived(u, s, {"PREPARE"}) /\ current[u][s].exists
       \/ Arrived(u, s, {"COMMIT", "ABORT"}) /\ ~current[u][s].exists
    /\ ReadPacket(u, s)
    /\ aborted' = TRUE
    /\ UNCHANGED <<accountVars, link, current, from_us>>

\* The main loop sends USER_UPDATE to the players of a user that changed.
SendUserUpdate(u) ==
    /\ ~aborted
    /\ did_change[u]
    /\ did_change' = [did_change EXCEPT ![u] = FALSE]
    /\ UNCHANGED <<account, netVars, current, aborted>>

\* Mutant: the US_Client's slot keeps the transaction it had prepared.
LoseConnection_KeepsTransaction(u, s) ==
    /\ ~aborted
    /\ link[u][s] = "open"
    /\ link'    = [link    EXCEPT ![u][s] = "broken"]
    /\ to_us'   = [to_us   EXCEPT ![u][s] = <<>>]
    /\ from_us' = [from_us EXCEPT ![u][s] = <<>>]
    /\ UNCHANGED <<accountVars, current, aborted>>

\* The connection is lost; disconnect_user_client drops the US_Client, and with
\* it the transaction it had prepared.
LoseConnection(u, s) ==
    /\ ~aborted
    /\ link[u][s] = "open"
    /\ link'    = [link    EXCEPT ![u][s] = "broken"]
    /\ to_us'   = [to_us   EXCEPT ![u][s] = <<>>]
    /\ from_us' = [from_us EXCEPT ![u][s] = <<>>]
    /\ current' = [current EXCEPT ![u][s] = NoCurrent]
    /\ UNCHANGED <<accountVars, aborted>>

HandlePacket(u, s) ==
    HandlePrepare(u, s) \/ HandleCommit(u, s) \/ HandleAbort(u, s) \/ HandleUnexpected(u, s)

UserServerStep ==
    \/ \E u \in Users, s \in Servers : HandlePacket(u, s)
    \/ \E u \in Users : SendUserUpdate(u)

-----------------------------------------------------------------------------
UserServerTypeOK ==
    /\ account \in [Users -> Account]
    /\ did_change \in [Users -> BOOLEAN]
    /\ link \in [Users -> [Servers -> {"none", "open", "broken"}]]
    /\ current \in [Users -> [Servers -> [exists : BOOLEAN, transaction : Transactions]]]
    /\ to_us \in [Users -> [Servers -> Seq(ToUsMessages)]]
    /\ from_us \in [Users -> [Servers -> Seq(FromUsMessages)]]
    /\ aborted \in BOOLEAN
=============================================================================
