----------------------------- MODULE ChatServer -----------------------------
(***************************************************************************)
(* biosec/program/chat_server.c: main accepts, asks for a name, enters the *)
(* client into a table and starts a thread for it; the threads pass on     *)
(* what their clients say.  The table is used under a mutex.  What is not: *)
(* the entry find_by_name returned, and the descriptor numbers, which the  *)
(* system gives out again as soon as they are closed.                      *)
(*                                                                         *)
(* An entry has the name of its client, and so does the client's thread;   *)
(* names are distinct.  cli->sock is read in the step that uses it.        *)
(* chat_client.c is one of the clients.                                    *)
(***************************************************************************)
EXTENDS Naturals, Sequences

CONSTANTS
    N,          \* clients, numbered in the order they connect in, once each
    Idle,       \* those that may stop reading
    Speakers,   \* those that say more than their names
    Leavers,    \* those that may hang up
    Slots,      \* MAX_CLIENTS
    Numbers     \* descriptor numbers, enough for all

Clients == 1..N
None == 0

ASSUME ChatAssumption == /\ N \in Nat /\ Slots \in Nat \ {0} /\ Numbers \in Nat
                         /\ {Idle, Speakers, Leavers} \subseteq SUBSET Clients

VARIABLES
    alive,      \* no SIGPIPE has ended the program
    peer,       \* the clients' ends of their connections
    backlog,    \* connections not accepted yet
    file,       \* the connection behind each descriptor number
    mpc, conn, cli, \* main, its variable conn, and the client behind it or in the entry
    table,      \* clients[]
    mutex,      \* the holder of clients_mutex
    mem,        \* the block of memory malloc gave a client_t
    block,      \* the client whose entry is in each block
    sock,       \* the field of that name
    pc,         \* the threads
    then,       \* where send_to_all returns to
    at,         \* the index i of send_to_all, or the connection recv waits on
    to,         \* the entry find_by_name returned
    unlisted,   \* history: entered when the table was full
    reused,     \* history: a number was given out between its close and the removal
    wronged,    \* history: clients whose socket or entry another's thread took away
    strayed     \* history: addressees of private messages others have got

main == <<mpc, conn, cli>>
net == <<peer, backlog>>
threads == <<pc, then, at, to>>
memory == <<table, mem, block, sock>>
history == <<unlisted, reused, wronged, strayed>>
vars == <<alive, net, file, main, mutex, memory, threads, history>>

Indices == 1..Slots
Nowhere == 0                      \* a number no descriptor has

Init ==
    /\ alive = TRUE
    /\ peer = [c \in Clients |-> "away"]
    /\ backlog = <<>>
    /\ file = [n \in 1..Numbers |-> None]
    /\ mpc = "accept" /\ conn = Nowhere /\ cli = None
    /\ table = [i \in Indices |-> None]
    /\ mutex = None
    /\ mem = [c \in Clients |-> Nowhere]
    /\ block = [b \in 1..N |-> None]
    /\ sock = [c \in Clients |-> Nowhere]
    /\ pc = [c \in Clients |-> "none"]
    /\ then = [c \in Clients |-> "loop"]
    /\ at = [c \in Clients |-> None]
    /\ to = [c \in Clients |-> None]
    /\ unlisted = {} /\ reused = FALSE /\ wronged = {} /\ strayed = {}

-----------------------------------------------------------------------------
(* Descriptors and memory.                                                 *)

Range(s) == {s[i] : i \in DOMAIN s}
FirstIndex(S) == CHOOSE i \in S : \A j \in S : i <= j
Behind(n) == IF n = Nowhere THEN None ELSE file[n]
Here == {c \in Clients : peer[c] \in {"up", "full"}}
FreeNumbers == {n \in 1..Numbers : file[n] = None}

\* Reading the field sock of an entry.  A block that was freed holds no number,
\* or an entry that was put there since.
Sock(c) == IF block[mem[c]] = None THEN Nowhere ELSE sock[block[mem[c]]]

\* send to a number: waits while the client does not read, is lost on a bad
\* number, and on the connection of a client that is gone may raise SIGPIPE.
Waits(n) == Behind(n) \in {c \in Clients : peer[c] = "full"}
Send(n) ==
    /\ ~Waits(n)
    /\ \/ alive' = TRUE
       \/ Behind(n) \in Clients \ Here /\ alive' = FALSE

-----------------------------------------------------------------------------
(* The clients.                                                            *)

Connect(c) ==
    /\ peer[c] = "away" /\ \A d \in 1..c-1 : peer[d] # "away"
    /\ peer' = [peer EXCEPT ![c] = "up"]
    /\ backlog' = Append(backlog, c)
    /\ UNCHANGED <<alive, file, main, mutex, memory, threads, history>>

\* The client stops reading, and what it has not read fills the buffers.
Fill(c) ==
    /\ c \in Idle /\ peer[c] = "up"
    /\ peer' = [peer EXCEPT ![c] = "full"]
    /\ UNCHANGED <<alive, backlog, file, main, mutex, memory, threads, history>>

HangUp(c) ==
    /\ c \in Leavers /\ peer[c] \in {"up", "full"}
    /\ peer' = [peer EXCEPT ![c] = "down"]
    /\ UNCHANGED <<alive, backlog, file, main, mutex, memory, threads, history>>

-----------------------------------------------------------------------------
(* main.                                                                   *)

\* The prompt is the first thing sent on the connection and cannot block.
Accept ==
    /\ mpc = "accept" /\ backlog # <<>> /\ FreeNumbers # {}
    /\ LET n == FirstIndex(FreeNumbers)
       IN  /\ file' = [file EXCEPT ![n] = Head(backlog)]
           /\ conn' = n /\ cli' = Head(backlog)
           /\ reused' = (reused \/ \E c \in Clients : pc[c] = "remove" /\ sock[c] = n)
    /\ backlog' = Tail(backlog)
    /\ mpc' = "name"
    /\ UNCHANGED <<alive, peer, mutex, memory, threads, unlisted, wronged, strayed>>

\* recv returns the name; or that the client has gone, or the number is closed.
Name ==
    /\ mpc = "name" /\ cli \in Here
    /\ mpc' = "add"
    /\ UNCHANGED <<alive, net, file, conn, cli, mutex, memory, threads, history>>

NoName ==
    /\ mpc = "name" /\ (cli \notin Here \/ Behind(conn) # cli)
    /\ file' = [file EXCEPT ![conn] = None]
    /\ mpc' = "accept"
    /\ UNCHANGED <<alive, net, conn, cli, mutex, memory, threads, history>>

EmptySlots == {i \in Indices : table[i] = None}

\* malloc gives a block that was freed or a new one.
Blocks ==
    LET given == Range(mem)
    IN  {b \in 1..N : block[b] = None /\ (b \in given \/ \A a \in 1..b-1 : a \in given)}
Malloc(c) ==
    /\ \E b \in Blocks : mem' = [mem EXCEPT ![c] = b] /\ block' = [block EXCEPT ![b] = c]
    /\ sock' = [sock EXCEPT ![c] = conn]

\* Variant: the loop runs over the end and the last slot is taken again.
AddOver ==
    /\ mpc = "add" /\ mutex = None
    /\ Malloc(cli)
    /\ table' = [table EXCEPT ![FirstIndex(EmptySlots \cup {Slots})] = cli]
    /\ pc' = [pc EXCEPT ![cli] = "say"]
    /\ mpc' = "accept"
    /\ UNCHANGED <<alive, net, file, conn, cli, mutex, then, at, to, history>>

\* malloc, add_client and the new thread: with no empty slot the entry is in no
\* table.
Add ==
    /\ mpc = "add" /\ mutex = None
    /\ Malloc(cli)
    /\ IF EmptySlots = {}
       THEN /\ unlisted' = unlisted \cup {cli}
            /\ UNCHANGED table
       ELSE /\ table' = [table EXCEPT ![FirstIndex(EmptySlots)] = cli]
            /\ UNCHANGED unlisted
    /\ pc' = [pc EXCEPT ![cli] = "say"]
    /\ mpc' = "accept"
    /\ UNCHANGED <<alive, net, file, conn, cli, mutex, then, at, to, reused, wronged, strayed>>

MainStep == Accept \/ NoName \/ Add

-----------------------------------------------------------------------------
(* handle_client.                                                          *)

Step(c, from, next) == pc[c] = from /\ pc' = [pc EXCEPT ![c] = next]

\* recv is called on the connection the number stands for now, and stays with it.
Listen(c) == pc' = [pc EXCEPT ![c] = "recv"] /\ at' = [at EXCEPT ![c] = Behind(Sock(c))]

Return(c) == IF then[c] = "loop" THEN Listen(c)
             ELSE pc' = [pc EXCEPT ![c] = "close"] /\ at' = [at EXCEPT ![c] = None]

\* The entries for send_to_all from index i on.
Others(c, i) == {j \in i..Slots : IF table[j] = None THEN FALSE ELSE Sock(c) # Sock(table[j])}

\* A call of send_to_all, with the welcome, a line for everybody, or the farewell.
Say(c) ==
    /\ pc[c] = "say" /\ mutex = None
    /\ IF Others(c, 1) = {}
       THEN Return(c) /\ UNCHANGED mutex
       ELSE /\ mutex' = c
            /\ at' = [at EXCEPT ![c] = 1]
            /\ pc' = [pc EXCEPT ![c] = "walk"]
    /\ UNCHANGED <<alive, net, file, main, memory, then, to, history>>

SendTo(c) ==
    /\ pc[c] = "walk"
    /\ LET j == FirstIndex(Others(c, at[c]))
       IN  /\ Send(Sock(table[j]))
           /\ IF Others(c, j + 1) = {}
              THEN Return(c) /\ mutex' = None
              ELSE /\ at' = [at EXCEPT ![c] = j + 1]
                   /\ UNCHANGED <<pc, mutex>>
    /\ UNCHANGED <<net, file, main, memory, then, to, history>>

\* The client says something to everybody.  An empty line is passed over.
Talk(c) ==
    /\ at[c] \in Here \cap Speakers
    /\ Step(c, "recv", "say")
    /\ then' = [then EXCEPT ![c] = "loop"]
    /\ at' = [at EXCEPT ![c] = None]
    /\ UNCHANGED <<alive, net, file, main, mutex, memory, to, history>>

\* "@username message".
Address(c) ==
    /\ at[c] \in Here \cap Speakers
    /\ Step(c, "recv", "find")
    /\ \E t \in Clients : to' = [to EXCEPT ![c] = t]
    /\ at' = [at EXCEPT ![c] = None]
    /\ UNCHANGED <<alive, net, file, main, mutex, memory, then, history>>

\* Variant: an empty line ends the loop.
NoMoreBlank(c) ==
    /\ Step(c, "recv", "say")
    /\ then' = [then EXCEPT ![c] = "close"]
    /\ at' = [at EXCEPT ![c] = None]
    /\ UNCHANGED <<alive, net, file, main, mutex, memory, to, history>>

NoMore(c) ==
    /\ at[c] \notin Here
    /\ Step(c, "recv", "say")
    /\ then' = [then EXCEPT ![c] = "close"]
    /\ at' = [at EXCEPT ![c] = None]
    /\ UNCHANGED <<alive, net, file, main, mutex, memory, to, history>>

Listed(c) == \E i \in Indices : table[i] = c

\* Variant: the name is found and the function left inside the loop.
FindHolds(c) ==
    /\ mutex = None
    /\ Step(c, "find", IF Listed(to[c]) THEN "tell" ELSE "deny")
    /\ mutex' = IF Listed(to[c]) THEN c ELSE None
    /\ UNCHANGED <<alive, net, file, main, memory, then, at, to, history>>

\* find_by_name: the entry is found under the mutex and used without it.
Find(c) ==
    /\ mutex = None
    /\ Step(c, "find", IF Listed(to[c]) THEN "tell" ELSE "deny")
    /\ UNCHANGED <<alive, net, file, main, mutex, memory, then, at, to, history>>

Tell(c) ==
    /\ pc[c] = "tell" /\ Listen(c)
    /\ Send(Sock(to[c]))
    /\ strayed' = IF Behind(Sock(to[c])) \in Here \ {to[c]}
                  THEN strayed \cup {to[c]} ELSE strayed
    /\ to' = [to EXCEPT ![c] = None]
    /\ UNCHANGED <<net, file, main, mutex, memory, then, unlisted, reused, wronged>>

Deny(c) ==
    /\ pc[c] = "deny" /\ Listen(c)
    /\ Send(Sock(c))
    /\ to' = [to EXCEPT ![c] = None]
    /\ UNCHANGED <<net, file, main, mutex, memory, then, history>>

\* What a thread takes away from another's client.
Wrong(c, taken) == wronged' = wronged \cup (taken \ {c, None})

Close(c) ==
    /\ Step(c, "close", "remove")
    /\ file' = IF Sock(c) = Nowhere THEN file ELSE [file EXCEPT ![Sock(c)] = None]
    /\ Wrong(c, {Behind(Sock(c))})
    /\ UNCHANGED <<alive, net, main, mutex, memory, then, at, to, unlisted, reused, strayed>>

Named(n) == {i \in Indices : table[i] # None /\ Sock(table[i]) = n}

FirstNamed(n) == {table[i] : i \in {j \in Named(n) : \A k \in Named(n) : j <= k}}

\* Variant: the slot is not cleared.
RemoveKeeps(c) ==
    /\ mutex = None
    /\ Step(c, "remove", "done")
    /\ block' = [b \in 1..N |-> IF block[b] \in FirstNamed(Sock(c)) THEN None ELSE block[b]]
    /\ Wrong(c, FirstNamed(Sock(c)))
    /\ UNCHANGED <<alive, net, file, main, mutex, table, mem, sock, then, at, to, unlisted, reused, strayed>>

\* remove_client: the first entry with the number is freed.
Remove(c) ==
    /\ mutex = None
    /\ Step(c, "remove", "done")
    /\ LET gone == FirstNamed(Sock(c))
       IN  /\ block' = [b \in 1..N |-> IF block[b] \in gone THEN None ELSE block[b]]
           /\ table' = [i \in Indices |-> IF table[i] \in gone THEN None ELSE table[i]]
           /\ Wrong(c, gone)
    /\ UNCHANGED <<alive, net, file, main, mutex, mem, sock, then, at, to, unlisted, reused, strayed>>

Thread(c) ==
    \/ Say(c) \/ SendTo(c) \/ NoMore(c) \/ Find(c) \/ Tell(c) \/ Deny(c) \/ Close(c) \/ Remove(c)

-----------------------------------------------------------------------------
Next ==
    /\ alive
    /\ \/ MainStep \/ Name
       \/ \E c \in Clients : Thread(c) \/ Talk(c) \/ Address(c) \/ Connect(c) \/ Fill(c) \/ HangUp(c)

\* The scheduler runs every thread that can run.  Strong fairness is for the
\* mutex: a thread that keeps taking it waits for its client in between, and
\* so cannot keep it from the others for ever.  No client has to say anything,
\* to read, or to hang up.
Spec ==
    /\ Init /\ [][Next]_vars
    /\ SF_vars(alive /\ MainStep)
    /\ \A c \in Clients : SF_vars(alive /\ Thread(c))

-----------------------------------------------------------------------------
(* Properties.                                                             *)

\* The type of every variable; and the table holds only memory that has not
\* been freed, and no entry twice, whatever descriptors are mixed up: an entry
\* is freed and its slot cleared in one hold of the mutex (remove_client).
TypeOK ==
    /\ alive \in BOOLEAN /\ reused \in BOOLEAN
    /\ peer \in [Clients -> {"away", "up", "full", "down"}]
    /\ backlog \in Seq(Clients)
    /\ file \in [1..Numbers -> Clients \cup {None}]
    /\ mpc \in {"accept", "name", "add"} /\ conn \in 0..Numbers /\ cli \in 0..N
    /\ mutex \in Clients \cup {None}
    /\ mem \in [Clients -> 0..N] /\ block \in [1..N -> Clients \cup {None}] /\ sock \in [Clients -> 0..Numbers]
    /\ pc \in [Clients -> {"none", "say", "walk", "recv", "find", "tell", "deny", "close",
                           "remove", "done"}]
    /\ then \in [Clients -> {"loop", "close"}]
    /\ at \in [Clients -> Nat] /\ to \in [Clients -> Clients \cup {None}]
    /\ unlisted \cup wronged \subseteq Clients /\ strayed \subseteq Clients
    /\ table \in [Indices -> Clients \cup {None}]
    /\ \A i \in Indices : table[i] # None => block[mem[table[i]]] = table[i]
    /\ \A i, j \in Indices : table[i] = table[j] /\ table[i] # None => i = j

InService(c) == pc[c] \notin {"none", "remove", "done"}

\* A client in service is in the table and can be talked to, unless the table
\* was full when it came (add_client says nothing of that), or another's thread
\* has freed its entry: remove_client goes by the number and takes the first
\* entry that has it (chat_server.c:59).  That begins with a number given out
\* again between close and remove_client (lines 112, 113).
ListedWhileServed ==
    \A c \in Clients : InService(c) => Listed(c) \/ c \in unlisted \/ (reused /\ c \in wronged)

\* A private message reaches another client than the one it names only if that
\* one has hung up, or has lost its entry or its socket to another's thread:
\* between find_by_name and send the number can be given out again, and so can
\* the memory.
StrayedOnlyLeft == \A c \in strayed : peer[c] = "down" \/ c \in wronged

Silent == mpc = "name" /\ cli \in Here
Stuck == mutex # None /\ \E d \in Idle : peer[d] = "full"

\* Everyone who connects is accepted and entered, unless main waits for ever for
\* the name of a client that says nothing (chat_server.c:131 has no time-out), or
\* the mutex is never released, its holder sending to a client that does not read
\* (line 27), or a hang-up has ended the program.
Waiting == backlog # <<>> \/ mpc = "add"
Admitted == <>[](Waiting /\ alive) => <>[]Silent \/ <>[]Stuck
=============================================================================
