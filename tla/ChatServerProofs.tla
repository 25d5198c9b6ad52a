-------------------------- MODULE ChatServerProofs --------------------------
(***************************************************************************)
(* The chat server, for every number of clients, slots and descriptors:    *)
(* type correctness, with a table that holds each live entry once; that    *)
(* who is served is in the table unless a descriptor number was mixed up;  *)
(* and that a private message goes astray only when its addressee has left *)
(* or was wronged.                                                         *)
(***************************************************************************)
EXTENDS ChatServer, WellFoundedInduction, TLAPS

Serving == {"say", "walk", "recv", "find", "tell", "deny", "close"}
Entered(c) == pc[c] # "none"

\* main has a client who is not in the table yet.
Busy == mpc \in {"name", "add"}

LEMMA NoneIsNoClient == None \notin Clients /\ Nowhere \notin 1..Numbers /\ Nowhere = None
BY ChatAssumption DEF None, Nowhere, Clients

LEMMA ServingIs ==
  ASSUME NEW c \in Clients, TypeOK
  PROVE  InService(c) <=> pc[c] \in Serving
<1>1. pc[c] \in {"none", "say", "walk", "recv", "find", "tell", "deny", "close", "remove",
                 "done"}
  BY DEF TypeOK
<1>2. QED
  BY <1>1 DEF InService, Serving

\* The first of a set of numbers is in it, and no other comes before it.
LEMMA FirstOf ==
  ASSUME NEW S \in SUBSET Nat, S # {}
  PROVE  FirstIndex(S) \in S /\ \A j \in S : FirstIndex(S) <= j
<1> DEFINE R == OpToRel(<, Nat)
<1>1. PICK x \in S : \A y \in S : ~(<<y, x>> \in R)
  <2>1. IsWellFoundedOn(R, Nat)
    BY NatLessThanWellFounded, Zenon
  <2> HIDE DEF R
  <2>2. QED
    BY <2>1, WFMin
<1>2. \A y \in S : ~(y < x)
  BY <1>1 DEF OpToRel
<1>3. \A y \in S : x <= y
  BY <1>2
<1>4. QED
  BY <1>3 DEF FirstIndex

-----------------------------------------------------------------------------
(***************************************************************************)
(* The life of a client: it is in the backlog, with main, or has a thread. *)
(* Each comes once, so that the memory an entry is in never changes.       *)
(***************************************************************************)
WithMain ==
  Busy => /\ cli \in Clients /\ conn \in 1..Numbers /\ pc[cli] = "none"
          /\ peer[cli] # "away" /\ file[conn] \in {cli, None}

InBacklog ==
  /\ \A i \in 1..Len(backlog) : /\ pc[backlog[i]] = "none" /\ peer[backlog[i]] # "away"
                                /\ Busy => backlog[i] # cli
  /\ \A i, j \in 1..Len(backlog) : backlog[i] = backlog[j] => i = j

LifeInv ==
  /\ WithMain /\ InBacklog
  /\ \A c \in Clients : Entered(c) => peer[c] # "away"

\* Who has a thread has got memory and a number; a block is of one who has.
MemInv ==
  /\ \A c \in Clients : Entered(c) => mem[c] \in 1..N /\ sock[c] \in 1..Numbers
  /\ \A b \in 1..N : block[b] # None => Entered(block[b]) /\ mem[block[b]] = b
  /\ \A i \in Indices : table[i] # None => Entered(table[i])

\* A private message is to somebody who has been in the table.
ToldInv == \A c \in Clients : /\ pc[c] \in {"find", "tell"} => to[c] \in Clients
                              /\ pc[c] = "tell" => Entered(to[c])

\* send_to_all holds the mutex while it sends, and has an entry to send to.
WalkInv == \A c \in Clients : pc[c] = "walk" => mutex = c /\ Others(c, at[c]) # {}

Inv == TypeOK /\ LifeInv /\ MemInv /\ ToldInv /\ WalkInv

\* The number in an entry: of whom it is, or of whoever has the memory now.
LEMMA SockOf ==
  ASSUME TypeOK, MemInv, NEW c \in Clients, Entered(c)
  PROVE  /\ Sock(c) \in 0..Numbers
         /\ block[mem[c]] = c => Sock(c) = sock[c] /\ Sock(c) \in 1..Numbers
         /\ Behind(Sock(c)) \in Clients \cup {None}
<1>1. mem[c] \in 1..N /\ sock[c] \in 1..Numbers
  BY DEF MemInv
<1>2. block[mem[c]] \in Clients \cup {None}
  BY <1>1 DEF TypeOK
<1>3. block[mem[c]] # None => sock[block[mem[c]]] \in 1..Numbers
  BY <1>1, <1>2 DEF MemInv
<1>4. Sock(c) \in 0..Numbers
  BY <1>2, <1>3, ChatAssumption DEF Sock, Nowhere
<1>5. block[mem[c]] = c => Sock(c) = sock[c] /\ Sock(c) \in 1..Numbers
  BY <1>1, NoneIsNoClient DEF Sock
<1>6. Behind(Sock(c)) \in Clients \cup {None}
  <2>1. Sock(c) # Nowhere => Sock(c) \in 1..Numbers
    BY <1>2, <1>3, NoneIsNoClient DEF Sock
  <2>2. QED
    BY <2>1 DEF Behind, TypeOK
<1>7. QED
  BY <1>4, <1>5, <1>6

\* An entry in the table has its own number.
LEMMA TableOf ==
  ASSUME TypeOK, MemInv, NEW i \in Indices, table[i] # None
  PROVE  /\ table[i] \in Clients /\ Entered(table[i])
         /\ Sock(table[i]) = sock[table[i]] /\ Sock(table[i]) \in 1..Numbers
<1>1. table[i] \in Clients /\ Entered(table[i]) /\ block[mem[table[i]]] = table[i]
  BY DEF TypeOK, MemInv
<1>2. QED
  BY <1>1, SockOf

\* remove_client takes at most entries of the table that have the number.
LEMMA FirstNamedOf ==
  ASSUME TypeOK, MemInv, NEW n, NEW t \in FirstNamed(n)
  PROVE  /\ t \in Clients /\ Listed(t) /\ Sock(t) = n /\ n \in 1..Numbers
         /\ Sock(t) = sock[t] /\ Entered(t)
<1>1. PICK i \in Named(n) : t = table[i]
  BY DEF FirstNamed
<1>2. i \in Indices /\ table[i] # None /\ Sock(table[i]) = n
  BY <1>1 DEF Named
<1>3. QED
  BY <1>1, <1>2, TableOf DEF Listed
-----------------------------------------------------------------------------
(***************************************************************************)
(* What a step of a thread that stays in service changes: nothing of main, *)
(* of the descriptors or of the memory, and no other thread.               *)
(***************************************************************************)
Going(c) ==
  Say(c) \/ SendTo(c) \/ NoMore(c) \/ Find(c) \/ Tell(c) \/ Deny(c) \/ Talk(c) \/ Address(c)

LEMMA GoingKeeps ==
  ASSUME TypeOK, NEW c \in Clients, Going(c)
  PROVE  /\ UNCHANGED <<file, mpc, conn, cli, table, mem, block, sock>>
         /\ UNCHANGED <<peer, backlog, unlisted, reused, wronged>>
         /\ pc[c] \in Serving /\ pc'[c] \in Serving
         /\ pc' = [pc EXCEPT ![c] = pc'[c]]
<1>1. UNCHANGED <<file, mpc, conn, cli, table, mem, block, sock>>
  BY DEF Going, Say, SendTo, NoMore, Find, Tell, Deny, Talk, Address, main, memory
<1>2. UNCHANGED <<peer, backlog, unlisted, reused, wronged>>
  BY DEF Going, Say, SendTo, NoMore, Find, Tell, Deny, Talk, Address, net, history
<1>3. pc[c] \in Serving
  BY DEF Going, Say, SendTo, NoMore, Find, Tell, Deny, Talk, Address, Step, Serving
<1>4. pc' = pc \/ \E p \in Serving : pc' = [pc EXCEPT ![c] = p]
  <2>1. "say" \in Serving /\ "recv" \in Serving /\ "close" \in Serving /\ "walk" \in Serving
        /\ "find" \in Serving /\ "tell" \in Serving /\ "deny" \in Serving
    BY DEF Serving
  <2>2. CASE Say(c)
    BY <2>1, <2>2 DEF Say, Return, Listen
  <2>3. CASE SendTo(c)
    BY <2>1, <2>3 DEF SendTo, Return, Listen
  <2>4. CASE NoMore(c) \/ Talk(c) \/ Address(c) \/ Find(c)
    BY <2>1, <2>4 DEF NoMore, Talk, Address, Find, Step
  <2>5. CASE Tell(c) \/ Deny(c)
    BY <2>1, <2>5 DEF Tell, Deny, Listen
  <2>6. QED
    BY <2>2, <2>3, <2>4, <2>5 DEF Going
<1>5. pc'[c] \in Serving /\ pc' = [pc EXCEPT ![c] = pc'[c]]
  <2>1. pc = [d \in Clients |-> pc[d]]
    BY DEF TypeOK
  <2>2. CASE pc' = pc
    BY <1>3, <2>1, <2>2
  <2>3. ASSUME NEW p \in Serving, pc' = [pc EXCEPT ![c] = p]
        PROVE  pc'[c] = p
    BY <2>1, <2>3
  <2>4. QED
    BY <1>4, <2>2, <2>3
<1>6. QED
  BY <1>1, <1>2, <1>3, <1>5

\* A client does no more than connect, stop reading, or hang up.
Client(c) == Connect(c) \/ Fill(c) \/ HangUp(c)

LEMMA ClientKeeps ==
  ASSUME TypeOK, NEW c \in Clients, Client(c)
  PROVE  /\ UNCHANGED <<alive, file, mpc, conn, cli, mutex, table, mem, block, sock>>
         /\ UNCHANGED <<pc, then, at, to, unlisted, reused, wronged, strayed>>
         /\ peer'[c] \in {"up", "full", "down"}
         /\ peer' = [peer EXCEPT ![c] = peer'[c]] /\ peer[c] # "down"
         /\ \/ backlog' = backlog /\ peer[c] # "away"
            \/ backlog' = Append(backlog, c) /\ peer[c] = "away"
<1>1. UNCHANGED <<alive, file, mpc, conn, cli, mutex, table, mem, block, sock>>
  BY DEF Client, Connect, Fill, HangUp, main, memory
<1>2. UNCHANGED <<pc, then, at, to, unlisted, reused, wronged, strayed>>
  BY DEF Client, Connect, Fill, HangUp, threads, history
<1>3. /\ peer'[c] \in {"up", "full", "down"}
      /\ peer' = [peer EXCEPT ![c] = peer'[c]]
  <2>1. PICK p \in {"up", "full", "down"} : peer' = [peer EXCEPT ![c] = p]
    BY DEF Client, Connect, Fill, HangUp
  <2>2. QED
    BY <2>1 DEF TypeOK
<1>4. /\ peer[c] # "down"
      /\ \/ backlog' = backlog /\ peer[c] # "away"
         \/ backlog' = Append(backlog, c) /\ peer[c] = "away"
  BY DEF Client, Connect, Fill, HangUp
<1>5. QED
  BY <1>1, <1>2, <1>3, <1>4

\* The next state, by what is changed.
LEMMA NextIs ==
  ASSUME Next
  PROVE  \/ Accept \/ NoName \/ Add \/ Name
         \/ \E c \in Clients : Going(c) \/ Client(c) \/ Close(c) \/ Remove(c)
BY DEF Next, MainStep, Thread, Going, Client
-----------------------------------------------------------------------------
(***************************************************************************)
(* Type correctness.                                                       *)
(***************************************************************************)
LEMMA InitInv == Init => Inv
<1> SUFFICES ASSUME Init PROVE Inv
  OBVIOUS
<1> USE DEF Init
<1>1. 0 \in 0..N /\ 0 \in 0..Numbers
  BY ChatAssumption
<1>2. TypeOK
  <2>0. alive \in BOOLEAN /\ reused \in BOOLEAN
    <3>1. alive = TRUE /\ reused = FALSE
      OBVIOUS
    <3> HIDE DEF Init
    <3>2. QED
      BY <3>1
  <2>1. /\ mutex \in Clients \cup {None}
        /\ backlog \in Seq(Clients) /\ mpc \in {"accept", "name", "add"}
        /\ unlisted \cup wronged \subseteq Clients /\ strayed \subseteq Clients
    OBVIOUS
  <2>2. /\ peer \in [Clients -> {"away", "up", "full", "down"}]
        /\ file \in [1..Numbers -> Clients \cup {None}]
        /\ mem \in [Clients -> 0..N] /\ block \in [1..N -> Clients \cup {None}]
        /\ sock \in [Clients -> 0..Numbers] /\ to \in [Clients -> Clients \cup {None}]
        /\ at \in [Clients -> Nat]
    BY <1>1 DEF Nowhere, None
  <2>3. /\ pc \in [Clients -> {"none", "say", "walk", "recv", "find", "tell", "deny",
                               "close", "remove", "done"}]
        /\ then \in [Clients -> {"loop", "close"}]
        /\ table \in [Indices -> Clients \cup {None}]
        /\ \A i \in Indices : table[i] = None
    OBVIOUS
  <2>4. conn \in 0..Numbers /\ cli \in 0..N
    BY <1>1 DEF Nowhere, None
  <2>5. QED
    BY <2>0, <2>1, <2>2, <2>3, <2>4 DEF TypeOK
<1>3. LifeInv
  BY DEF LifeInv, WithMain, InBacklog, Busy, Entered
<1>4. MemInv
  BY DEF MemInv, Entered
<1>5. ToldInv /\ WalkInv
  BY DEF ToldInv, WalkInv
<1>6. QED
  BY <1>2, <1>3, <1>4, <1>5 DEF Inv

LEMMA GoingTypes ==
  ASSUME Inv, NEW c \in Clients, Going(c)
  PROVE  /\ alive' \in BOOLEAN /\ mutex' \in Clients \cup {None} /\ strayed' \subseteq Clients
         /\ then' \in [Clients -> {"loop", "close"}] /\ to' \in [Clients -> Clients \cup {None}]
         /\ at' \in [Clients -> Nat]
<1> USE DEF Inv, TypeOK
<1>1. alive' \in BOOLEAN
  <2>1. CASE Say(c) \/ NoMore(c) \/ Find(c) \/ Talk(c) \/ Address(c)
    <3>1. alive' = alive
      BY <2>1 DEF Say, NoMore, Find, Talk, Address
    <3>2. QED
      BY <3>1
  <2>2. CASE SendTo(c) \/ Tell(c) \/ Deny(c)
    <3>1. alive' = TRUE \/ alive' = FALSE
      BY <2>2 DEF SendTo, Tell, Deny, Send
    <3>2. QED
      BY <3>1
  <2>3. QED
    BY <2>1, <2>2 DEF Going
<1>2. mutex' \in Clients \cup {None}
  BY DEF Going, Say, SendTo, NoMore, Find, Tell, Deny, Talk, Address
<1>3. strayed' \subseteq Clients
  <2>1. CASE Tell(c)
    <3>1. to[c] \in Clients
      BY <2>1 DEF Tell, ToldInv
    <3>2. strayed' \subseteq strayed \cup {to[c]}
      BY <2>1 DEF Tell
    <3>3. QED
      BY <3>1, <3>2
  <2>2. CASE ~Tell(c)
    <3>1. strayed' = strayed
      BY <2>2 DEF Going, Say, SendTo, NoMore, Find, Deny, Talk, Address, history
    <3>2. QED
      BY <3>1
  <2>3. QED
    BY <2>1, <2>2
<1>4. then' \in [Clients -> {"loop", "close"}]
  BY DEF Going, Say, SendTo, NoMore, Find, Tell, Deny, Talk, Address, threads
<1>5. to' \in [Clients -> Clients \cup {None}]
  BY ZenonT(30) DEF Going, Say, SendTo, NoMore, Find, Tell, Deny, Talk, Address
<1>6. at' \in [Clients -> Nat]
  <2>1. Behind(Sock(c)) \in Nat /\ None \in Nat /\ 1 \in Nat
    <3>1. Clients \subseteq Nat /\ None \in Nat
      BY ChatAssumption DEF Clients, None
    <3>2. Entered(c)
      BY GoingKeeps DEF Entered, Serving
    <3>3. QED
      BY <3>1, <3>2, SockOf
  <2>2. CASE Say(c)
    BY <2>1, <2>2 DEF Say, Return, Listen
  <2>3. CASE SendTo(c)
    <3>1. FirstIndex(Others(c, at[c])) + 1 \in Nat
      <4>1. Others(c, at[c]) \in SUBSET Nat /\ Others(c, at[c]) # {}
        <5>1. Others(c, at[c]) \subseteq at[c]..Slots /\ at[c] \in Nat /\ Slots \in Nat
          BY ChatAssumption DEF Others
        <5>2. at[c]..Slots \subseteq Nat
          BY <5>1
        <5>3. pc[c] = "walk" /\ WalkInv
          BY <2>3 DEF SendTo
        <5>4. Others(c, at[c]) # {}
          BY <5>3, Zenon DEF WalkInv
        <5>5. QED
          BY <5>1, <5>2, <5>4, Zenon
      <4>2. FirstIndex(Others(c, at[c])) \in Others(c, at[c])
        BY <4>1, FirstOf, Zenon
      <4>3. FirstIndex(Others(c, at[c])) \in Nat
        BY <4>1, <4>2, Zenon
      <4>4. QED
        BY <4>3
    <3>2. \/ at' = at \/ at' = [at EXCEPT ![c] = FirstIndex(Others(c, at[c])) + 1]
          \/ at' = [at EXCEPT ![c] = Behind(Sock(c))] \/ at' = [at EXCEPT ![c] = None]
      BY <2>3 DEF SendTo, Return, Listen
    <3>3. QED
      BY <2>1, <3>1, <3>2
  <2>4. CASE NoMore(c) \/ Talk(c) \/ Address(c) \/ Find(c)
    BY <2>1, <2>4 DEF NoMore, Talk, Address, Find
  <2>5. CASE Tell(c) \/ Deny(c)
    BY <2>1, <2>5, ZenonT(30) DEF Tell, Deny, Listen
  <2>6. QED
    BY <2>2, <2>3, <2>4, <2>5 DEF Going
<1>7. QED
  BY <1>1, <1>2, <1>3, <1>4, <1>5, <1>6

\* One entry more: in a block that was free, with a slot or without.
LEMMA AddDoes ==
  ASSUME Inv, Add
  PROVE  /\ mpc = "add" /\ mpc' = "accept" /\ mutex = None
         /\ UNCHANGED <<alive, peer, backlog, file, conn, cli, mutex, then, at, to>>
         /\ UNCHANGED <<reused, wronged, strayed>>
         /\ pc' = [pc EXCEPT ![cli] = "say"] /\ sock' = [sock EXCEPT ![cli] = conn]
         /\ \E b \in 1..N : /\ block[b] = None /\ mem' = [mem EXCEPT ![cli] = b]
                            /\ block' = [block EXCEPT ![b] = cli]
         /\ \/ \E i \in Indices : /\ table[i] = None /\ table' = [table EXCEPT ![i] = cli]
                                  /\ unlisted' = unlisted
            \/ table' = table /\ unlisted' = unlisted \cup {cli}
<1>1. /\ mpc = "add" /\ mpc' = "accept" /\ mutex = None
      /\ UNCHANGED <<alive, peer, backlog, file, conn, cli, mutex, then, at, to>>
      /\ UNCHANGED <<reused, wronged, strayed>>
      /\ pc' = [pc EXCEPT ![cli] = "say"] /\ sock' = [sock EXCEPT ![cli] = conn]
  BY DEF Add, Malloc, net
<1>2. \E b \in 1..N : /\ block[b] = None /\ mem' = [mem EXCEPT ![cli] = b]
                      /\ block' = [block EXCEPT ![b] = cli]
  BY DEF Add, Malloc, Blocks
<1>3. \/ \E i \in Indices : /\ table[i] = None /\ table' = [table EXCEPT ![i] = cli]
                            /\ unlisted' = unlisted
      \/ table' = table /\ unlisted' = unlisted \cup {cli}
  <2>1. CASE EmptySlots = {}
    BY <2>1 DEF Add
  <2>2. CASE EmptySlots # {}
    <3>1. EmptySlots \in SUBSET Nat
      BY ChatAssumption DEF EmptySlots, Indices
    <3>2. FirstIndex(EmptySlots) \in EmptySlots
      BY <2>2, <3>1, FirstOf
    <3>3. table' = [table EXCEPT ![FirstIndex(EmptySlots)] = cli] /\ unlisted' = unlisted
      BY <2>2 DEF Add
    <3>4. QED
      BY <3>2, <3>3 DEF EmptySlots
  <2>3. QED
    BY <2>1, <2>2
<1>4. QED
  BY <1>1, <1>2, <1>3

\* A free number, and the first of the backlog.
LEMMA AcceptDoes ==
  ASSUME Inv, Accept
  PROVE  /\ mpc = "accept" /\ mpc' = "name" /\ conn' \in 1..Numbers /\ file[conn'] = None
         /\ Len(backlog) > 0 /\ cli' = backlog[1] /\ cli' \in Clients
         /\ backlog' = Tail(backlog)
         /\ file' = [file EXCEPT ![conn'] = cli']
         /\ reused' = (reused \/ \E c \in Clients : pc[c] = "remove" /\ sock[c] = conn')
         /\ UNCHANGED <<alive, peer, mutex, table, mem, block, sock, pc, then, at, to>>
         /\ UNCHANGED <<unlisted, wronged, strayed>>
<1>1. FirstIndex(FreeNumbers) \in FreeNumbers
  <2>1. FreeNumbers \in SUBSET Nat
    BY ChatAssumption DEF FreeNumbers
  <2>2. QED
    BY <2>1, FirstOf DEF Accept
<1>2. conn' = FirstIndex(FreeNumbers) /\ conn' \in 1..Numbers /\ file[conn'] = None
  BY <1>1 DEF Accept, FreeNumbers
<1>3. backlog \in Seq(Clients) /\ backlog # <<>>
  BY DEF Inv, TypeOK, Accept
<1>4. Len(backlog) > 0 /\ Head(backlog) = backlog[1] /\ Head(backlog) \in Clients
  BY <1>3
<1>5. /\ mpc = "accept" /\ mpc' = "name" /\ cli' = Head(backlog) /\ backlog' = Tail(backlog)
      /\ file' = [file EXCEPT ![conn'] = cli']
      /\ reused' = (reused \/ \E c \in Clients : pc[c] = "remove" /\ sock[c] = conn')
      /\ UNCHANGED <<alive, peer, mutex, unlisted, wronged, strayed>>
  BY <1>2 DEF Accept
<1>6. UNCHANGED <<table, mem, block, sock, pc, then, at, to>>
  BY DEF Accept, memory, threads
<1>7. QED
  BY <1>2, <1>4, <1>5, <1>6
\* The number is closed, whoever has it.
LEMMA CloseDoes ==
  ASSUME Inv, NEW c \in Clients, Close(c)
  PROVE  /\ pc[c] = "close" /\ pc' = [pc EXCEPT ![c] = "remove"]
         /\ \/ Sock(c) = Nowhere /\ file' = file
            \/ Sock(c) \in 1..Numbers /\ file' = [file EXCEPT ![Sock(c)] = None]
         /\ wronged' = wronged \cup ({Behind(Sock(c))} \ {c, None})
         /\ UNCHANGED <<alive, peer, backlog, mpc, conn, cli, mutex, table, mem, block, sock>>
         /\ UNCHANGED <<then, at, to, unlisted, reused, strayed>>
<1>1. pc[c] = "close" /\ pc' = [pc EXCEPT ![c] = "remove"]
  BY DEF Close, Step
<1>2. Sock(c) \in 0..Numbers /\ Numbers \in Nat
  BY <1>1, SockOf, ChatAssumption DEF Inv, Entered
<1>3. Sock(c) = Nowhere \/ Sock(c) \in 1..Numbers
  BY <1>2 DEF Nowhere
<1>4. file' = IF Sock(c) = Nowhere THEN file ELSE [file EXCEPT ![Sock(c)] = None]
  BY DEF Close
<1>5. wronged' = wronged \cup ({Behind(Sock(c))} \ {c, None})
  BY DEF Close, Wrong
<1>6. UNCHANGED <<alive, peer, backlog, mpc, conn, cli, mutex, table, mem, block, sock>>
  BY DEF Close, net, main, memory
<1>7. UNCHANGED <<then, at, to, unlisted, reused, strayed>>
  BY DEF Close
<1>8. QED
  BY <1>1, <1>3, <1>4, <1>5, <1>6, <1>7

\* Some entries of the table are freed and taken out of it.
LEMMA RemoveDoes ==
  ASSUME Inv, NEW c \in Clients, Remove(c)
  PROVE  /\ pc[c] = "remove" /\ pc' = [pc EXCEPT ![c] = "done"]
         /\ FirstNamed(Sock(c)) \subseteq Clients
         /\ block' = [b \in 1..N |-> IF block[b] \in FirstNamed(Sock(c)) THEN None
                                                                       ELSE block[b]]
         /\ table' = [i \in Indices |-> IF table[i] \in FirstNamed(Sock(c)) THEN None
                                                                          ELSE table[i]]
         /\ wronged' = wronged \cup (FirstNamed(Sock(c)) \ {c})
         /\ UNCHANGED <<alive, peer, backlog, file, mpc, conn, cli, mutex, mem, sock>>
         /\ UNCHANGED <<then, at, to, unlisted, reused, strayed>>
<1>1. pc[c] = "remove" /\ pc' = [pc EXCEPT ![c] = "done"]
  BY DEF Remove, Step
<1>2. FirstNamed(Sock(c)) \subseteq Clients
  BY FirstNamedOf DEF Inv
<1>3. /\ block' = [b \in 1..N |-> IF block[b] \in FirstNamed(Sock(c)) THEN None
                                                                    ELSE block[b]]
      /\ table' = [i \in Indices |-> IF table[i] \in FirstNamed(Sock(c)) THEN None
                                                                       ELSE table[i]]
      /\ wronged' = wronged \cup (FirstNamed(Sock(c)) \ {c, None})
  BY DEF Remove, Wrong
<1>4. wronged' = wronged \cup (FirstNamed(Sock(c)) \ {c})
  BY <1>2, <1>3, NoneIsNoClient
<1>5. UNCHANGED <<alive, peer, backlog, file, mpc, conn, cli, mutex, mem, sock>>
  BY DEF Remove, net, main
<1>6. UNCHANGED <<then, at, to, unlisted, reused, strayed>>
  BY DEF Remove
<1>7. QED
  BY <1>1, <1>2, <1>3, <1>4, <1>5, <1>6

\* The table after a step: no entry twice, and none that was freed.
Sound ==
  /\ table \in [Indices -> Clients \cup {None}]
  /\ \A i \in Indices : table[i] # None => block[mem[table[i]]] = table[i]
  /\ \A i, j \in Indices : table[i] = table[j] /\ table[i] # None => i = j

LEMMA AddSound == ASSUME Inv, Add PROVE Sound'
<1> USE DEF Inv
<1>1. cli \in Clients /\ pc[cli] = "none" /\ cli # None
  BY AddDoes, NoneIsNoClient DEF LifeInv, WithMain, Busy
<1>2. PICK b \in 1..N : /\ block[b] = None /\ mem' = [mem EXCEPT ![cli] = b]
                        /\ block' = [block EXCEPT ![b] = cli]
  BY AddDoes
<1>3. \A i \in Indices : table[i] # None =>
        /\ table[i] \in Clients /\ Entered(table[i]) /\ block[mem[table[i]]] = table[i]
        /\ mem[table[i]] \in 1..N
  BY DEF TypeOK, MemInv
<1>4. \A i \in Indices : table[i] # cli
  BY <1>1, <1>3 DEF Entered
<1>5. mem'[cli] = b /\ \A d \in Clients \ {cli} : mem'[d] = mem[d]
  BY <1>1, <1>2 DEF TypeOK
<1>6. block'[b] = cli /\ \A a \in 1..N : block[a] # None => block'[a] = block[a]
  BY <1>2 DEF TypeOK
<1>7. \A i \in Indices : table[i] # None => block'[mem'[table[i]]] = table[i]
  BY <1>3, <1>4, <1>5, <1>6, NoneIsNoClient
<1>8. CASE table' = table
  BY <1>7, <1>8 DEF Sound, TypeOK
<1>9. ASSUME NEW k \in Indices, table[k] = None, table' = [table EXCEPT ![k] = cli]
      PROVE  Sound'
  <2>1. table'[k] = cli /\ \A i \in Indices \ {k} : table'[i] = table[i]
    BY <1>9 DEF TypeOK
  <2>2. table' \in [Indices -> Clients \cup {None}]
    BY <1>1, <1>9 DEF TypeOK
  <2>3. \A i \in Indices : table'[i] # None => block'[mem'[table'[i]]] = table'[i]
    BY <1>5, <1>6, <1>7, <2>1
  <2>4. \A i, j \in Indices : table'[i] = table'[j] /\ table'[i] # None => i = j
    BY <1>4, <2>1 DEF TypeOK
  <2>5. QED
    BY <2>2, <2>3, <2>4 DEF Sound
<1>10. QED
  BY <1>8, <1>9, AddDoes
LEMMA RemoveSound == ASSUME Inv, NEW c \in Clients, Remove(c) PROVE Sound'
<1> DEFINE G == FirstNamed(Sock(c))
<1>1. /\ table' = [i \in Indices |-> IF table[i] \in G THEN None ELSE table[i]]
      /\ block' = [b \in 1..N |-> IF block[b] \in G THEN None ELSE block[b]]
      /\ mem' = mem
  BY RemoveDoes
<1> HIDE DEF G
<1>2. \A i \in Indices : table'[i] # None => table'[i] = table[i] /\ table[i] \notin G
  BY <1>1
<1>3. \A i \in Indices : table[i] # None =>
         table[i] \in Clients /\ block[mem[table[i]]] = table[i] /\ mem[table[i]] \in 1..N
  BY DEF Inv, TypeOK, MemInv
<1>4. \A i \in Indices : table'[i] # None => block'[mem'[table'[i]]] = table'[i]
  BY <1>1, <1>2, <1>3
<1>5. \A i, j \in Indices : table'[i] = table'[j] /\ table'[i] # None => i = j
  BY <1>2 DEF Inv, TypeOK
<1>6. table' \in [Indices -> Clients \cup {None}]
  BY <1>1 DEF Inv, TypeOK
<1>7. QED
  BY <1>4, <1>5, <1>6 DEF Sound

LEMMA StepTypeOK == Inv /\ [Next]_vars => TypeOK'
<1> SUFFICES ASSUME Inv, [Next]_vars PROVE TypeOK'
  OBVIOUS
<1>0. TypeOK /\ LifeInv /\ Numbers \in Nat /\ N \in Nat
  BY ChatAssumption DEF Inv
<1>1. CASE UNCHANGED vars
  <2>1. /\ UNCHANGED <<alive, peer, backlog, file, mpc, conn, cli, mutex>>
        /\ UNCHANGED <<table, mem, block, sock, pc, then, at, to>>
        /\ UNCHANGED <<unlisted, reused, wronged, strayed>>
    BY <1>1 DEF vars, net, main, memory, threads, history
  <2>2. QED
    BY <1>0, <2>1 DEF TypeOK
<1>2. CASE Accept
  <2>1. conn' \in 0..Numbers /\ cli' \in 0..N
    BY <1>0, <1>2, AcceptDoes DEF Clients
  <2>2. reused' \in BOOLEAN
    BY <1>2, AcceptDoes
  <2>3. backlog' \in Seq(Clients)
    <3>1. backlog' = Tail(backlog) /\ Len(backlog) > 0
      BY <1>2, AcceptDoes
    <3>2. backlog \in Seq(Clients)
      BY <1>0 DEF TypeOK
    <3>3. QED
      BY <3>1, <3>2
  <2>4. file' \in [1..Numbers -> Clients \cup {None}]
    BY <1>0, <1>2, AcceptDoes DEF TypeOK
  <2>5. /\ UNCHANGED <<alive, peer, mutex, table, mem, block, sock, pc, then, at, to>>
        /\ UNCHANGED <<unlisted, wronged, strayed>> /\ mpc' = "name"
    BY <1>2, AcceptDoes
  <2>6. QED
    BY <1>0, <2>1, <2>2, <2>3, <2>4, <2>5 DEF TypeOK
<1>3. CASE NoName \/ Name
  <2>1. mpc' \in {"accept", "name", "add"}
    BY <1>3 DEF NoName, Name
  <2>2. file' \in [1..Numbers -> Clients \cup {None}]
    BY <1>0, <1>3 DEF TypeOK, NoName, Name
  <2>3. /\ UNCHANGED <<alive, peer, backlog, conn, cli, mutex, table, mem, block, sock>>
        /\ UNCHANGED <<pc, then, at, to, unlisted, reused, wronged, strayed>>
    BY <1>3 DEF NoName, Name, net, memory, threads, history
  <2>4. QED
    BY <1>0, <2>1, <2>2, <2>3 DEF TypeOK
<1>4. CASE Add
  <2>1. cli \in Clients /\ conn \in 1..Numbers
    BY <1>0, <1>4, AddDoes DEF LifeInv, WithMain, Busy
  <2>2. PICK b \in 1..N : /\ mem' = [mem EXCEPT ![cli] = b]
                          /\ block' = [block EXCEPT ![b] = cli]
    BY <1>4, AddDoes DEF Inv
  <2>3. mem' \in [Clients -> 0..N] /\ block' \in [1..N -> Clients \cup {None}]
    BY <1>0, <2>1, <2>2 DEF TypeOK
  <2>4. sock' \in [Clients -> 0..Numbers]
    BY <1>0, <1>4, <2>1, AddDoes DEF TypeOK
  <2>5. pc' \in [Clients -> {"none", "say", "walk", "recv", "find", "tell", "deny", "close",
                             "remove", "done"}]
    BY <1>0, <1>4, AddDoes DEF TypeOK
  <2>6. unlisted' \cup wronged' \subseteq Clients
    BY <1>0, <1>4, <2>1, AddDoes DEF TypeOK
  <2>7. /\ UNCHANGED <<alive, peer, backlog, file, conn, cli, mutex, then, at, to>>
        /\ UNCHANGED <<reused, strayed>>
        /\ mpc' = "accept" /\ Sound'
    BY <1>4, AddDoes, AddSound
  <2>8. QED
    BY <1>0, <2>3, <2>4, <2>5, <2>6, <2>7 DEF TypeOK, Sound
<1>5. ASSUME NEW c \in Clients, Going(c) PROVE TypeOK'
  <2>1. pc' \in [Clients -> {"none", "say", "walk", "recv", "find", "tell", "deny", "close",
                             "remove", "done"}]
    <3>1. PICK p \in Serving : pc' = [pc EXCEPT ![c] = p]
      BY <1>0, <1>5, GoingKeeps
    <3>2. pc \in [Clients -> {"none", "say", "walk", "recv", "find", "tell", "deny", "close",
                              "remove", "done"}]
      BY <1>0 DEF TypeOK
    <3>3. QED
      BY <3>1, <3>2 DEF Serving
  <2>2. /\ UNCHANGED <<file, mpc, conn, cli, table, mem, block, sock>>
        /\ UNCHANGED <<peer, backlog, unlisted, reused, wronged>>
    BY <1>0, <1>5, GoingKeeps
  <2>3. /\ alive' \in BOOLEAN /\ mutex' \in Clients \cup {None} /\ strayed' \subseteq Clients
        /\ then' \in [Clients -> {"loop", "close"}] /\ to' \in [Clients -> Clients \cup {None}]
        /\ at' \in [Clients -> Nat]
    BY <1>5, GoingTypes
  <2>4. QED
    BY <1>0, <2>1, <2>2, <2>3 DEF TypeOK
<1>6. ASSUME NEW c \in Clients, Client(c) PROVE TypeOK'
  <2>1. peer' \in [Clients -> {"away", "up", "full", "down"}]
    <3>1. PICK p \in {"up", "full", "down"} : peer' = [peer EXCEPT ![c] = p]
      BY <1>0, <1>6, ClientKeeps
    <3>2. QED
      BY <1>0, <3>1 DEF TypeOK
  <2>2. backlog' \in Seq(Clients)
    <3>1. backlog' = backlog \/ backlog' = Append(backlog, c)
      BY <1>0, <1>6, ClientKeeps
    <3>2. backlog \in Seq(Clients)
      BY <1>0 DEF TypeOK
    <3>3. QED
      BY <3>1, <3>2
  <2>3. /\ UNCHANGED <<alive, file, mpc, conn, cli, mutex, table, mem, block, sock>>
        /\ UNCHANGED <<pc, then, at, to, unlisted, reused, wronged, strayed>>
    BY <1>0, <1>6, ClientKeeps
  <2>4. QED
    BY <1>0, <2>1, <2>2, <2>3 DEF TypeOK
<1>7. ASSUME NEW c \in Clients, Close(c) PROVE TypeOK'
  <2>1. pc' \in [Clients -> {"none", "say", "walk", "recv", "find", "tell", "deny", "close",
                             "remove", "done"}]
    BY <1>0, <1>7, CloseDoes, ZenonT(30) DEF TypeOK
  <2>2. file' \in [1..Numbers -> Clients \cup {None}]
    <3>1. file' = file \/ file' = [file EXCEPT ![Sock(c)] = None]
      BY <1>7, CloseDoes
    <3>2. QED
      BY <1>0, <3>1 DEF TypeOK
  <2>3. unlisted' \cup wronged' \subseteq Clients
    <3>1. Behind(Sock(c)) \in Clients \cup {None}
      BY <1>7, CloseDoes, SockOf DEF Inv, Entered
    <3>2. QED
      BY <1>0, <1>7, <3>1, CloseDoes DEF TypeOK
  <2>4. /\ UNCHANGED <<alive, peer, backlog, mpc, conn, cli, mutex, table, mem, block, sock>>
        /\ UNCHANGED <<then, at, to, unlisted, reused, strayed>>
    BY <1>7, CloseDoes
  <2>5. QED
    BY <1>0, <2>1, <2>2, <2>3, <2>4 DEF TypeOK
<1>8. ASSUME NEW c \in Clients, Remove(c) PROVE TypeOK'
  <2>1. pc' \in [Clients -> {"none", "say", "walk", "recv", "find", "tell", "deny", "close",
                             "remove", "done"}]
    BY <1>0, <1>8, RemoveDoes, ZenonT(90) DEF TypeOK
  <2>2. block' \in [1..N -> Clients \cup {None}]
    BY <1>0, <1>8, RemoveDoes DEF TypeOK
  <2>3. unlisted' \cup wronged' \subseteq Clients
    BY <1>0, <1>8, RemoveDoes DEF TypeOK
  <2>4. /\ UNCHANGED <<alive, peer, backlog, file, mpc, conn, cli, mutex, mem, sock>>
        /\ UNCHANGED <<then, at, to, unlisted, reused, strayed>> /\ Sound'
    BY <1>8, RemoveDoes, RemoveSound
  <2>5. QED
    BY <1>0, <2>1, <2>2, <2>3, <2>4 DEF TypeOK, Sound
<1>9. QED
  BY <1>1, <1>2, <1>3, <1>4, <1>5, <1>6, <1>7, <1>8, NextIs
\* Threads start and end, but none starts twice.
LEMMA StepEntered ==
  ASSUME Inv, Next, NEW d \in Clients
  PROVE  /\ Entered(d) => pc'[d] # "none"
         /\ ~Entered(d) /\ pc'[d] # "none" => Add /\ d = cli
<1> USE DEF Entered
<1>0. TypeOK
  BY DEF Inv
<1>1. CASE Accept \/ NoName \/ Name
  BY <1>1, AcceptDoes DEF NoName, Name, threads
<1>2. CASE Add
  BY <1>0, <1>2, AddDoes DEF TypeOK
<1>3. ASSUME NEW c \in Clients, Going(c)
      PROVE  pc'[d] = pc[d] \/ (pc[d] # "none" /\ pc'[d] # "none")
  BY <1>0, <1>3, GoingKeeps DEF TypeOK, Serving
<1>4. ASSUME NEW c \in Clients, Client(c) PROVE pc'[d] = pc[d]
  BY <1>0, <1>4, ClientKeeps
<1>5. ASSUME NEW c \in Clients, Close(c)
      PROVE  pc'[d] = pc[d] \/ (pc[d] # "none" /\ pc'[d] # "none")
  BY <1>0, <1>5, CloseDoes DEF TypeOK
<1>6. ASSUME NEW c \in Clients, Remove(c)
      PROVE  pc'[d] = pc[d] \/ (pc[d] # "none" /\ pc'[d] # "none")
  BY <1>0, <1>6, RemoveDoes DEF TypeOK
<1>7. QED
  BY <1>1, <1>2, <1>3, <1>4, <1>5, <1>6, NextIs

\* Nobody who has connected is away again.
LEMMA StepPeer ==
  ASSUME Inv, Next, NEW d \in Clients
  PROVE  /\ peer[d] # "away" => peer'[d] # "away"
         /\ peer[d] = "down" => peer'[d] = "down"
         /\ peer'[d] # peer[d] => \E c \in Clients : Client(c)
<1>0. TypeOK
  BY DEF Inv
<1>1. CASE \A c \in Clients : ~Client(c)
  <2>1. peer' = peer
    BY <1>0, <1>1, NextIs, AcceptDoes, AddDoes, GoingKeeps, CloseDoes, RemoveDoes
       DEF NoName, Name, net
  <2>2. QED
    BY <2>1
<1>2. ASSUME NEW c \in Clients, Client(c)
      PROVE  /\ peer[d] # "away" => peer'[d] # "away"
             /\ peer[d] = "down" => peer'[d] = "down"
  <2>1. PICK p \in {"up", "full", "down"} : peer' = [peer EXCEPT ![c] = p] /\ peer[c] # "down"
    BY <1>0, <1>2, ClientKeeps
  <2>2. QED
    BY <1>0, <2>1 DEF TypeOK
<1>3. QED
  BY <1>1, <1>2

LEMMA StepLife == Inv /\ [Next]_vars => LifeInv'
<1> SUFFICES ASSUME Inv, [Next]_vars PROVE LifeInv'
  OBVIOUS
<1> USE DEF Entered
<1>0. TypeOK /\ WithMain /\ InBacklog
  BY DEF Inv, LifeInv
<1>t. ASSUME Next PROVE \A c \in Clients : pc'[c] # "none" => peer'[c] # "away"
  <2> SUFFICES ASSUME NEW c \in Clients, pc'[c] # "none" PROVE peer'[c] # "away"
    OBVIOUS
  <2>1. peer[c] # "away"
    BY <1>0, <1>t, StepEntered, AddDoes DEF Inv, LifeInv, WithMain, Busy
  <2>2. QED
    BY <1>t, <2>1, StepPeer
<1>b. backlog \in Seq(Clients) /\ \A i \in 1..Len(backlog) : backlog[i] \in Clients
  BY <1>0 DEF TypeOK
<1>1. CASE UNCHANGED vars
  <2>1. UNCHANGED <<backlog, mpc, conn, cli, pc, peer, file>>
    BY <1>1 DEF vars, net, main, threads
  <2>2. QED
    BY <2>1 DEF Inv, LifeInv, WithMain, InBacklog, Busy, Entered
<1>2. ASSUME Accept PROVE WithMain' /\ InBacklog'
  <2>1. /\ mpc = "accept" /\ mpc' = "name" /\ conn' \in 1..Numbers /\ backlog' = Tail(backlog)
        /\ Len(backlog) > 0 /\ cli' = backlog[1] /\ UNCHANGED <<pc, peer>>
        /\ file' = [file EXCEPT ![conn'] = cli']
    BY <1>2, AcceptDoes
  <2>2. \A i \in 1..Len(backlog') : i + 1 \in 1..Len(backlog) /\ backlog'[i] = backlog[i + 1]
    BY <1>b, <2>1
  <2>3. 1 \in 1..Len(backlog) /\ Len(backlog) \in Nat
    BY <1>b, <2>1
  <2>4. WithMain'
    <3>1. file'[conn'] = cli'
      BY <1>0, <2>1 DEF TypeOK
    <3>2. QED
      BY <1>0, <1>b, <2>1, <2>3, <3>1 DEF WithMain, InBacklog
  <2>5. ASSUME NEW i \in 1..Len(backlog')
        PROVE  pc'[backlog'[i]] = "none" /\ peer'[backlog'[i]] # "away" /\ backlog'[i] # cli'
    <3>1. i + 1 # 1
      OBVIOUS
    <3>2. QED
      BY <1>0, <2>1, <2>2, <2>3, <3>1 DEF InBacklog
  <2>6. ASSUME NEW i \in 1..Len(backlog'), NEW j \in 1..Len(backlog'), backlog'[i] = backlog'[j]
        PROVE  i = j
    <3>1. i + 1 = j + 1
      BY <1>0, <2>2, <2>6 DEF InBacklog
    <3>2. QED
      BY <3>1
  <2>7. QED
    BY <2>4, <2>5, <2>6 DEF InBacklog
<1>3. CASE NoName \/ Name
  <2>1. UNCHANGED <<backlog, conn, cli, pc, peer>> /\ Busy /\ (Busy' => file' = file)
    BY <1>3 DEF NoName, Name, net, threads, Busy
  <2>2. WithMain' /\ InBacklog'
    BY <1>0, <2>1 DEF WithMain, InBacklog
  <2>3. QED
    BY <2>1, <2>2 DEF Inv, LifeInv, Entered
<1>4. ASSUME Add PROVE WithMain' /\ InBacklog'
  <2>1. /\ mpc = "add" /\ mpc' = "accept" /\ UNCHANGED <<backlog, peer>>
        /\ pc' = [pc EXCEPT ![cli] = "say"]
    BY <1>4, AddDoes
  <2>2. WithMain'
    BY <2>1 DEF WithMain, Busy
  <2>3. InBacklog'
    <3>1. \A i \in 1..Len(backlog) : backlog[i] # cli
      BY <1>0, <2>1 DEF InBacklog, Busy
    <3>2. \A d \in Clients \ {cli} : pc'[d] = pc[d]
      BY <1>0, <2>1 DEF TypeOK
    <3>3. ~Busy'
      BY <2>1 DEF Busy
    <3>4. QED
      BY <1>0, <1>b, <2>1, <3>1, <3>2, <3>3 DEF InBacklog
  <2>4. QED
    BY <2>2, <2>3
<1>5. ASSUME NEW c \in Clients, pc[c] # "none", NEW p, pc' = [pc EXCEPT ![c] = p],
             UNCHANGED <<backlog, mpc, conn, cli, peer>>,
             \A n \in 1..Numbers : file'[n] \in {file[n], None}
      PROVE  WithMain' /\ InBacklog'
  <2>1. \A d \in Clients \ {c} : pc'[d] = pc[d]
    BY <1>0, <1>5 DEF TypeOK
  <2>2. Busy' = Busy
    BY <1>5 DEF Busy
  <2>3. WithMain'
    BY <1>0, <1>5, <2>1, <2>2 DEF WithMain
  <2>4. InBacklog'
    <3>1. \A i \in 1..Len(backlog) : backlog[i] \in Clients \ {c}
      BY <1>0, <1>b, <1>5 DEF InBacklog
    <3>2. QED
      BY <1>0, <1>5, <2>1, <2>2, <3>1 DEF InBacklog
  <2>5. QED
    BY <2>3, <2>4
<1>6. ASSUME NEW c \in Clients, Going(c) PROVE WithMain' /\ InBacklog'
  <2>1. pc[c] # "none" /\ pc' = [pc EXCEPT ![c] = pc'[c]]
        /\ UNCHANGED <<backlog, mpc, conn, cli, peer, file>>
    BY <1>0, <1>6, GoingKeeps DEF Serving
  <2>2. QED
    BY <1>5, <2>1
<1>7. ASSUME NEW c \in Clients, Close(c) PROVE WithMain' /\ InBacklog'
  <2>1. pc[c] # "none" /\ pc' = [pc EXCEPT ![c] = "remove"]
        /\ UNCHANGED <<backlog, mpc, conn, cli, peer>>
    BY <1>7, CloseDoes
  <2>2. \A n \in 1..Numbers : file'[n] \in {file[n], None}
    <3>1. file' = file \/ file' = [file EXCEPT ![Sock(c)] = None]
      BY <1>7, CloseDoes
    <3>2. QED
      BY <1>0, <3>1 DEF TypeOK
  <2>3. QED
    BY <1>5, <2>1, <2>2
<1>8. ASSUME NEW c \in Clients, Remove(c) PROVE WithMain' /\ InBacklog'
  <2>1. pc[c] # "none" /\ pc' = [pc EXCEPT ![c] = "done"]
        /\ UNCHANGED <<backlog, mpc, conn, cli, peer, file>>
    BY <1>8, RemoveDoes
  <2>2. QED
    BY <1>5, <2>1
<1>9. ASSUME NEW c \in Clients, Client(c), Next PROVE WithMain' /\ InBacklog'
  <2>1. UNCHANGED <<file, mpc, conn, cli, pc>>
    BY <1>0, <1>9, ClientKeeps
  <2>2. \A d \in Clients : peer[d] # "away" => peer'[d] # "away"
    BY <1>9, StepPeer
  <2>3. Busy' = Busy
    BY <2>1 DEF Busy
  <2>4. WithMain'
    BY <1>0, <2>1, <2>2, <2>3 DEF WithMain
  <2>5. CASE backlog' = backlog
    BY <1>0, <1>b, <2>1, <2>2, <2>3, <2>4, <2>5 DEF InBacklog
  <2>6. CASE backlog' = Append(backlog, c) /\ peer[c] = "away"
    <3>1. /\ Len(backlog') = Len(backlog) + 1 /\ Len(backlog) \in Nat
          /\ backlog'[Len(backlog) + 1] = c
          /\ \A i \in 1..Len(backlog) : backlog'[i] = backlog[i]
      BY <1>b, <2>6
    <3>2. \A i \in 1..Len(backlog') : i \in 1..Len(backlog) \/ i = Len(backlog) + 1
      BY <3>1
    <3>3. \A i \in 1..Len(backlog) : backlog[i] # c
      BY <1>0, <2>6 DEF InBacklog
    <3>4. pc[c] = "none" /\ peer'[c] # "away" /\ (Busy => c # cli)
      BY <1>0, <1>9, <2>6, ClientKeeps DEF Inv, LifeInv, WithMain, Entered
    <3>5. ASSUME NEW i \in 1..Len(backlog')
          PROVE  /\ pc'[backlog'[i]] = "none" /\ peer'[backlog'[i]] # "away"
                 /\ Busy' => backlog'[i] # cli'
      <4>1. CASE i \in 1..Len(backlog)
        BY <1>0, <1>b, <2>1, <2>2, <2>3, <3>1, <4>1 DEF InBacklog
      <4>2. CASE i = Len(backlog) + 1
        BY <2>1, <2>3, <3>1, <3>4, <4>2
      <4>3. QED
        BY <3>2, <4>1, <4>2
    <3>6. ASSUME NEW i \in 1..Len(backlog'), NEW j \in 1..Len(backlog'),
                 backlog'[i] = backlog'[j]
          PROVE  i = j
      <4>1. CASE i \in 1..Len(backlog) /\ j \in 1..Len(backlog)
        BY <1>0, <3>1, <3>6, <4>1 DEF InBacklog
      <4>2. CASE i = Len(backlog) + 1 \/ j = Len(backlog) + 1
        BY <3>1, <3>2, <3>3, <3>6, <4>2
      <4>3. QED
        BY <3>2, <4>1, <4>2
    <3>7. QED
      BY <2>4, <3>5, <3>6 DEF InBacklog
  <2>7. QED
    BY <1>0, <1>9, <2>4, <2>5, <2>6, ClientKeeps
<1>10. ASSUME Next, WithMain', InBacklog' PROVE LifeInv'
  BY <1>t, <1>10 DEF LifeInv
<1>11. QED
  BY <1>1, <1>2, <1>3, <1>4, <1>6, <1>7, <1>8, <1>9, <1>10, NextIs
LEMMA StepMem == Inv /\ [Next]_vars => MemInv'
<1> SUFFICES ASSUME Inv, [Next]_vars PROVE MemInv'
  OBVIOUS
<1> USE DEF Entered
<1>0. TypeOK /\ MemInv
  BY DEF Inv
<1>e. ASSUME Next PROVE \A d \in Clients : pc[d] # "none" => pc'[d] # "none"
  BY <1>e, StepEntered
<1>s. ASSUME UNCHANGED <<table, mem, block, sock>>, Next, ~Add PROVE MemInv'
  <2>1. \A d \in Clients : pc'[d] # "none" <=> pc[d] # "none"
    BY <1>s, <1>e, StepEntered
  <2>2. \A b \in 1..N : block[b] # None => block[b] \in Clients
    BY <1>0 DEF TypeOK
  <2>3. \A i \in Indices : table[i] # None => table[i] \in Clients
    BY <1>0 DEF TypeOK
  <2>4. QED
    BY <1>0, <1>s, <2>1, <2>2, <2>3 DEF MemInv
<1>1. CASE UNCHANGED vars
  <2>1. UNCHANGED <<table, mem, block, sock, pc>>
    BY <1>1 DEF vars, memory, threads
  <2>2. QED
    BY <1>0, <2>1 DEF MemInv, Entered
<1>2. ASSUME Add, Next PROVE MemInv'
  <2>1. cli \in Clients /\ conn \in 1..Numbers /\ pc[cli] = "none" /\ cli # None
    BY <1>2, AddDoes, NoneIsNoClient DEF Inv, LifeInv, WithMain, Busy
  <2>2. /\ pc' = [pc EXCEPT ![cli] = "say"] /\ sock' = [sock EXCEPT ![cli] = conn]
    BY <1>2, AddDoes
  <2>3. PICK b \in 1..N : /\ block[b] = None /\ mem' = [mem EXCEPT ![cli] = b]
                          /\ block' = [block EXCEPT ![b] = cli]
    BY <1>2, AddDoes
  <2>4. /\ mem'[cli] = b /\ sock'[cli] = conn /\ pc'[cli] # "none"
        /\ \A d \in Clients \ {cli} : /\ mem'[d] = mem[d] /\ sock'[d] = sock[d]
                                      /\ pc'[d] # "none" <=> pc[d] # "none"
    BY <1>0, <2>1, <2>2, <2>3 DEF TypeOK, Entered
  <2>5. block'[b] = cli /\ \A a \in 1..N \ {b} : block'[a] = block[a]
    BY <1>0, <2>3 DEF TypeOK
  <2>6. \A c \in Clients : pc'[c] # "none" => mem'[c] \in 1..N /\ sock'[c] \in 1..Numbers
    BY <1>0, <2>1, <2>4 DEF MemInv
  <2>7. ASSUME NEW a \in 1..N, block'[a] # None
        PROVE  pc'[block'[a]] # "none" /\ mem'[block'[a]] = a
    <3>1. CASE a = b
      BY <2>4, <2>5, <3>1
    <3>2. CASE a # b
      <4>0. block'[a] = block[a] /\ block[a] # None
        BY <2>5, <2>7, <3>2
      <4>1. pc[block[a]] # "none" /\ mem[block[a]] = a /\ block[a] \in Clients
        <5>1. block[a] \in Clients \cup {None}
          BY <1>0 DEF TypeOK
        <5>2. QED
          BY <1>0, <4>0, <5>1 DEF MemInv
      <4>2. block[a] # cli
        BY <2>1, <4>1
      <4>3. QED
        BY <2>4, <4>0, <4>1, <4>2
    <3>3. QED
      BY <3>1, <3>2
  <2>8. ASSUME NEW i \in Indices, table'[i] # None PROVE pc'[table'[i]] # "none"
    <3>1. table'[i] = cli \/ table'[i] = table[i]
      BY <1>0, <1>2, AddDoes DEF TypeOK
    <3>2. table[i] # None => table[i] \in Clients /\ Entered(table[i])
      BY <1>0 DEF MemInv, TypeOK
    <3>3. QED
      BY <1>e, <1>2, <2>4, <2>8, <3>1, <3>2
  <2>9. QED
    BY <2>6, <2>7, <2>8 DEF MemInv
<1>3. ASSUME NEW c \in Clients, Remove(c), Next PROVE MemInv'
  <2>1. /\ \A b \in 1..N : block'[b] # None => block'[b] = block[b]
        /\ \A i \in Indices : table'[i] # None => table'[i] = table[i]
        /\ mem' = mem /\ sock' = sock /\ pc[c] # "none"
    BY <1>3, RemoveDoes
  <2>2. pc' = [pc EXCEPT ![c] = "done"]
    BY <1>3, RemoveDoes
  <2>3. \A d \in Clients : pc'[d] # "none" <=> pc[d] # "none"
    BY <1>0, <2>1, <2>2 DEF TypeOK, Entered
  <2>4. \A b \in 1..N : block[b] # None => block[b] \in Clients
    BY <1>0 DEF TypeOK
  <2>5. \A i \in Indices : table[i] # None => table[i] \in Clients
    BY <1>0 DEF TypeOK
  <2>6. QED
    BY <1>0, <2>1, <2>3, <2>4, <2>5 DEF MemInv
<1>4. ASSUME Next, ~Add, \A c \in Clients : ~Remove(c) PROVE MemInv'
  <2>1. UNCHANGED <<table, mem, block, sock>>
    BY <1>0, <1>4, NextIs, AcceptDoes, GoingKeeps, ClientKeeps, CloseDoes
       DEF NoName, Name, memory
  <2>2. QED
    BY <1>s, <1>4, <2>1
<1>5. QED
  BY <1>1, <1>2, <1>3, <1>4

LEMMA StepTold == Inv /\ [Next]_vars => ToldInv'
<1> SUFFICES ASSUME Inv, [Next]_vars, NEW d \in Clients
             PROVE  /\ pc'[d] \in {"find", "tell"} => to'[d] \in Clients
                    /\ pc'[d] = "tell" => pc'[to'[d]] # "none"
  BY DEF ToldInv, Entered
<1> USE DEF Entered
<1>0. TypeOK /\ ToldInv
  BY DEF Inv
<1>s. ASSUME to'[d] = to[d], pc'[d] \in {"find", "tell"} => pc'[d] = pc[d], Next
      PROVE  /\ pc'[d] \in {"find", "tell"} => to'[d] \in Clients
             /\ pc'[d] = "tell" => pc'[to'[d]] # "none"
  BY <1>0, <1>s, StepEntered DEF ToldInv
<1>1. CASE UNCHANGED vars
  <2>1. UNCHANGED <<pc, to>>
    BY <1>1 DEF vars, threads
  <2>2. QED
    BY <1>0, <2>1 DEF ToldInv, Entered
<1>2. CASE Next /\ (Accept \/ NoName \/ Name)
  <2>1. UNCHANGED <<pc, to>>
    BY <1>2, AcceptDoes DEF NoName, Name, threads
  <2>2. QED
    BY <1>s, <1>2, <2>1
<1>3. CASE Next /\ Add
  <2>1. pc' = [pc EXCEPT ![cli] = "say"] /\ to' = to
    BY <1>3, AddDoes
  <2>2. QED
    BY <1>0, <1>s, <1>3, <2>1 DEF TypeOK
<1>4. ASSUME NEW c \in Clients, Client(c), Next
      PROVE  /\ pc'[d] \in {"find", "tell"} => to'[d] \in Clients
             /\ pc'[d] = "tell" => pc'[to'[d]] # "none"
  BY <1>0, <1>s, <1>4, ClientKeeps
<1>5. ASSUME NEW c \in Clients, Close(c) \/ Remove(c), Next
      PROVE  /\ pc'[d] \in {"find", "tell"} => to'[d] \in Clients
             /\ pc'[d] = "tell" => pc'[to'[d]] # "none"
  <2>1. to' = to /\ (pc' = [pc EXCEPT ![c] = "remove"] \/ pc' = [pc EXCEPT ![c] = "done"])
    BY <1>5, CloseDoes, RemoveDoes
  <2>2. QED
    BY <1>0, <1>s, <1>5, <2>1 DEF TypeOK
<1>6. ASSUME NEW c \in Clients, Going(c), Next
      PROVE  /\ pc'[d] \in {"find", "tell"} => to'[d] \in Clients
             /\ pc'[d] = "tell" => pc'[to'[d]] # "none"
  <2>1. CASE Address(c)
    <3>1. /\ pc' = [pc EXCEPT ![c] = "find"]
          /\ \E t \in Clients : to' = [to EXCEPT ![c] = t]
      BY <2>1 DEF Address, Step
    <3>2. CASE d = c
      BY <1>0, <3>1, <3>2 DEF TypeOK
    <3>3. CASE d # c
      <4>1. to'[d] = to[d] /\ pc'[d] = pc[d]
        BY <1>0, <3>1, <3>3 DEF TypeOK
      <4>2. QED
        BY <1>s, <1>6, <4>1
    <3>4. QED
      BY <3>2, <3>3
  <2>2. CASE Find(c)
    <3>1. /\ pc[c] = "find" /\ to' = to
          /\ pc' = [pc EXCEPT ![c] = IF Listed(to[c]) THEN "tell" ELSE "deny"]
      BY <2>2 DEF Find, Step
    <3>2. to[c] \in Clients
      BY <1>0, <3>1 DEF ToldInv
    <3>3. Listed(to[c]) => Entered(to[c])
      BY <3>2, NoneIsNoClient DEF Inv, MemInv, Listed
    <3>4. CASE d = c
      <4>1. pc'[c] = "tell" => Listed(to[c])
        BY <1>0, <3>1 DEF TypeOK
      <4>2. QED
        BY <1>6, <3>1, <3>2, <3>3, <3>4, <4>1, StepEntered
    <3>5. CASE d # c
      <4>1. to'[d] = to[d] /\ pc'[d] = pc[d]
        BY <1>0, <3>1, <3>5 DEF TypeOK
      <4>2. QED
        BY <1>s, <1>6, <4>1
    <3>6. QED
      BY <3>4, <3>5
  <2>3. CASE Say(c) \/ SendTo(c) \/ NoMore(c) \/ Talk(c)
    <3>1. to' = to
      BY <2>3 DEF Say, SendTo, NoMore, Talk
    <3>2. pc' = pc \/ \E p \in {"recv", "close", "say", "walk"} : pc' = [pc EXCEPT ![c] = p]
      BY <2>3 DEF Say, SendTo, NoMore, Talk, Return, Listen, Step
    <3>3. pc'[d] \in {"find", "tell"} => pc'[d] = pc[d]
      BY <1>0, <3>2 DEF TypeOK
    <3>4. QED
      BY <1>s, <1>6, <3>1, <3>3
  <2>4. CASE Tell(c) \/ Deny(c)
    <3>1. to' = [to EXCEPT ![c] = None] /\ pc' = [pc EXCEPT ![c] = "recv"]
      BY <2>4 DEF Tell, Deny, Listen
    <3>2. CASE d = c
      BY <1>0, <3>1, <3>2 DEF TypeOK
    <3>3. CASE d # c
      <4>1. to'[d] = to[d] /\ pc'[d] = pc[d]
        BY <1>0, <3>1, <3>3 DEF TypeOK
      <4>2. QED
        BY <1>s, <1>6, <4>1
    <3>4. QED
      BY <3>2, <3>3
  <2>5. QED
    BY <1>6, <2>1, <2>2, <2>3, <2>4 DEF Going
<1>7. QED
  BY <1>1, <1>2, <1>3, <1>4, <1>5, <1>6, NextIs

LEMMA StepWalk == Inv /\ [Next]_vars => WalkInv'
<1> SUFFICES ASSUME Inv, [Next]_vars, NEW d \in Clients, pc'[d] = "walk"
             PROVE  mutex' = d /\ Others(d, at[d])' # {}
  BY DEF WalkInv
<1>0. TypeOK /\ WalkInv
  BY DEF Inv
<1>s. ASSUME UNCHANGED <<mutex, table, mem, block, sock>>, at'[d] = at[d], pc[d] = "walk"
      PROVE  mutex' = d /\ Others(d, at[d])' # {}
  BY <1>0, <1>s DEF WalkInv, Others, Sock
<1>n. pc[d] = "walk" => mutex # None
  BY <1>0, NoneIsNoClient DEF WalkInv
<1>1. CASE UNCHANGED vars
  <2>1. UNCHANGED <<mutex, table, mem, block, sock, at, pc>>
    BY <1>1 DEF vars, memory, threads
  <2>2. QED
    BY <1>s, <2>1
<1>2. CASE Accept \/ NoName \/ Name
  <2>1. UNCHANGED <<mutex, table, mem, block, sock, at, pc>>
    BY <1>2, AcceptDoes DEF NoName, Name, memory, threads
  <2>2. QED
    BY <1>s, <2>1
<1>3. CASE Add
  BY <1>0, <1>3, <1>n, AddDoes DEF TypeOK
<1>4. ASSUME NEW c \in Clients, Client(c) PROVE mutex' = d /\ Others(d, at[d])' # {}
  BY <1>0, <1>s, <1>4, ClientKeeps
<1>5. ASSUME NEW c \in Clients, Close(c) PROVE mutex' = d /\ Others(d, at[d])' # {}
  <2>1. UNCHANGED <<mutex, table, mem, block, sock, at>> /\ pc' = [pc EXCEPT ![c] = "remove"]
    BY <1>5, CloseDoes
  <2>2. pc'[d] = pc[d]
    BY <1>0, <2>1 DEF TypeOK
  <2>3. QED
    BY <1>s, <2>1, <2>2
<1>6. ASSUME NEW c \in Clients, Remove(c) PROVE FALSE
  <2>1. mutex = None /\ pc' = [pc EXCEPT ![c] = "done"]
    BY <1>6, RemoveDoes DEF Remove
  <2>2. pc[d] = "walk"
    BY <1>0, <2>1 DEF TypeOK
  <2>3. QED
    BY <1>n, <2>1, <2>2
<1>7. ASSUME NEW c \in Clients, Going(c), c # d PROVE mutex' = d /\ Others(d, at[d])' # {}
  <2>1. UNCHANGED <<table, mem, block, sock>> /\ pc[d] = "walk"
    BY <1>0, <1>7, GoingKeeps DEF TypeOK
  <2>2. mutex = d /\ mutex # None
    BY <1>0, <1>n, <2>1 DEF WalkInv
  <2>3. ~Say(c) /\ ~Find(c) /\ ~SendTo(c)
    BY <1>0, <1>7, <2>2 DEF Say, Find, SendTo, WalkInv
  <2>4. mutex' = mutex /\ \E v : at' = [at EXCEPT ![c] = v]
    BY <1>7, <2>3 DEF Going, NoMore, Talk, Address, Tell, Deny, Listen
  <2>5. at'[d] = at[d]
    BY <1>0, <1>7, <2>4 DEF TypeOK
  <2>6. QED
    BY <1>s, <2>1, <2>4, <2>5
<1>8. CASE Going(d)
  <2>1. UNCHANGED <<table, mem, block, sock>>
    BY <1>0, <1>8, GoingKeeps
  <2>2. CASE Say(d)
    <3>1. Others(d, 1) # {} /\ mutex' = d /\ at' = [at EXCEPT ![d] = 1]
      BY <1>0, <2>2 DEF Say, Return, Listen, TypeOK
    <3>2. at'[d] = 1
      BY <1>0, <3>1 DEF TypeOK
    <3>3. QED
      BY <2>1, <3>1, <3>2 DEF Others, Sock
  <2>3. CASE SendTo(d)
    <3> DEFINE j == FirstIndex(Others(d, at[d])) + 1
    <3>1. Others(d, j) # {} /\ at' = [at EXCEPT ![d] = j] /\ mutex' = mutex /\ pc[d] = "walk"
      BY <1>0, <2>3 DEF SendTo, Return, Listen, TypeOK
    <3>2. at'[d] = j
      BY <1>0, <3>1 DEF TypeOK
    <3>3. mutex' = d
      BY <1>0, <3>1 DEF WalkInv
    <3> HIDE DEF j
    <3>4. QED
      BY <2>1, <3>1, <3>2, <3>3 DEF Others, Sock
  <2>4. ASSUME NoMore(d) \/ Talk(d) \/ Address(d) \/ Find(d) \/ Tell(d) \/ Deny(d)
        PROVE  FALSE
    <3>1. \E p \in {"say", "find", "tell", "deny", "recv"} : pc' = [pc EXCEPT ![d] = p]
      BY <2>4 DEF NoMore, Talk, Address, Find, Tell, Deny, Listen, Step
    <3>2. QED
      BY <1>0, <3>1 DEF TypeOK
  <2>5. QED
    BY <1>8, <2>2, <2>3, <2>4 DEF Going
<1>9. QED
  BY <1>1, <1>2, <1>3, <1>4, <1>5, <1>6, <1>7, <1>8, NextIs

LEMMA StepInv == Inv /\ [Next]_vars => Inv'
BY StepTypeOK, StepLife, StepMem, StepTold, StepWalk DEF Inv

\* Every variable of the chat server has its type, and the table holds each
\* entry once, in memory that has not been freed.
THEOREM TypeCorrect == Spec => []TypeOK
<1>1. Inv => TypeOK
  BY DEF Inv
<1>2. QED
  BY <1>1, InitInv, StepInv, PTL DEF Spec
-----------------------------------------------------------------------------
(***************************************************************************)
(* Whom no other thread has wronged keeps its entry and its connection as  *)
(* long as it is served, and has left when it is not served any more.      *)
(***************************************************************************)
Left(c) == \/ pc[c] \in {"close", "remove", "done"}
           \/ pc[c] \in {"say", "walk"} /\ then[c] = "close"

Kept(c) ==
  /\ InService(c) => block[mem[c]] = c /\ file[sock[c]] = c
  /\ pc[c] = "remove" => block[mem[c]] = c
  /\ Left(c) => peer[c] = "down"
  /\ pc[c] = "recv" => at[c] = c

KeptInv ==
  /\ Busy /\ cli \notin wronged => file[conn] = cli
  /\ \A c \in Clients : c \notin wronged => Kept(c)
  /\ \A c \in Clients : pc[c] = "none" => then[c] = "loop"
  /\ \A c \in strayed : peer[c] = "down" \/ c \in wronged

LEMMA InitKept == Init => KeptInv
BY DEF Init, KeptInv, Kept, Busy, InService, Left

LEMMA StepHistory ==
  ASSUME Inv, [Next]_vars
  PROVE  wronged \subseteq wronged' /\ (reused => reused') /\ unlisted \subseteq unlisted'
<1>0. TypeOK
  BY DEF Inv
<1>1. CASE UNCHANGED vars
  BY <1>1 DEF vars, history
<1>2. CASE Accept \/ NoName \/ Name \/ Add
  <2>1. CASE Accept
    <3>1. reused' = (reused \/ \E c \in Clients : pc[c] = "remove" /\ sock[c] = conn')
          /\ UNCHANGED <<unlisted, wronged>>
      BY <2>1, AcceptDoes
    <3>2. QED
      BY <3>1, Zenon
  <2>2. CASE NoName \/ Name
    BY <2>2 DEF NoName, Name, history
  <2>3. CASE Add
    BY <2>3, AddDoes
  <2>4. QED
    BY <1>2, <2>1, <2>2, <2>3
<1>3. ASSUME NEW c \in Clients, Going(c) \/ Client(c) \/ Close(c) \/ Remove(c)
      PROVE  wronged \subseteq wronged' /\ (reused => reused') /\ unlisted \subseteq unlisted'
  BY <1>0, <1>3, GoingKeeps, ClientKeeps, CloseDoes, RemoveDoes
<1>4. QED
  BY <1>1, <1>2, <1>3, NextIs

\* Who is wronged by neither is out of the reach of the threads of the others.
LEMMA OutOfReach ==
  ASSUME Inv, NEW c \in Clients, NEW d \in Clients, d # c, d \notin wronged'
  PROVE  /\ Close(c) => \A n \in 1..Numbers : file[n] = d => file'[n] = d
         /\ Remove(c) => \A b \in 1..N : block[b] = d => block'[b] = d
<1>1. ASSUME Close(c), NEW n \in 1..Numbers, file[n] = d PROVE file'[n] = d
  <2>1. Behind(Sock(c)) # d
    BY <1>1, CloseDoes, NoneIsNoClient
  <2>2. Sock(c) \in 1..Numbers => n # Sock(c)
    BY <1>1, <2>1, NoneIsNoClient DEF Behind
  <2>3. file \in [1..Numbers -> Clients \cup {None}]
    BY DEF Inv, TypeOK
  <2>4. QED
    BY <1>1, <2>2, <2>3, CloseDoes, ZenonT(30)
<1>2. ASSUME Remove(c), NEW b \in 1..N, block[b] = d PROVE block'[b] = d
  <2>1. d \notin FirstNamed(Sock(c))
    BY <1>2, RemoveDoes
  <2>2. QED
    BY <1>2, <2>1, RemoveDoes, ZenonT(90)
<1>3. QED
  BY <1>1, <1>2

\* main still has the connection of the client it serves.
LEMMA StepMainKept ==
  ASSUME Inv, KeptInv, [Next]_vars
  PROVE  Busy' /\ cli' \notin wronged' => file'[conn'] = cli'
<1> SUFFICES ASSUME Busy', cli' \notin wronged' PROVE file'[conn'] = cli'
  OBVIOUS
<1>0. TypeOK /\ WithMain
  BY DEF Inv, LifeInv
<1>h. wronged \subseteq wronged'
  BY StepHistory
<1>s. ASSUME UNCHANGED <<mpc, cli, conn, file>> PROVE file'[conn'] = cli'
  BY <1>s, <1>h DEF KeptInv, Busy
<1>1. CASE UNCHANGED vars
  BY <1>1, <1>s DEF vars, main
<1>2. CASE Accept
  BY <1>0, <1>2, AcceptDoes DEF TypeOK
<1>3. CASE NoName \/ Add
  BY <1>3, AddDoes DEF NoName, Busy
<1>4. CASE Name
  BY <1>4, <1>h DEF Name, KeptInv, Busy, history
<1>5. ASSUME NEW c \in Clients, Going(c) \/ Client(c) \/ Remove(c) PROVE file'[conn'] = cli'
  BY <1>0, <1>5, <1>s, GoingKeeps, ClientKeeps, RemoveDoes
<1>6. ASSUME NEW c \in Clients, Close(c) PROVE file'[conn'] = cli'
  <2>1. UNCHANGED <<mpc, cli, conn>> /\ pc[c] = "close"
    BY <1>6, CloseDoes
  <2>2. cli \in Clients /\ conn \in 1..Numbers /\ cli # c
    BY <1>0, <2>1 DEF WithMain, Busy
  <2>3. file[conn] = cli
    BY <1>h, <2>1 DEF KeptInv, Busy
  <2>4. QED
    BY <1>6, <2>1, <2>2, <2>3, OutOfReach
<1>7. QED
  BY <1>1, <1>2, <1>3, <1>4, <1>5, <1>6, NextIs
\* Who goes on being served, or leaves by itself, is not wronged by that.
LEMMA GoingKept ==
  ASSUME Inv, KeptInv, NEW c \in Clients, Going(c), c \notin wronged
  PROVE  /\ pc'[c] = "recv" => at'[c] = c
         /\ Left(c)' => peer[c] = "down"
<1>0. TypeOK /\ Kept(c) /\ pc[c] \in Serving
  BY GoingKeeps DEF Inv, KeptInv
<1>1. Entered(c) /\ InService(c) /\ peer[c] # "away"
  BY <1>0, ServingIs DEF Entered, Serving, Inv, LifeInv
<1>2. Behind(Sock(c)) = c
  <2>1. block[mem[c]] = c /\ file[sock[c]] = c
    BY <1>0, <1>1 DEF Kept
  <2>2. Sock(c) = sock[c] /\ Sock(c) \in 1..Numbers
    BY <1>1, <2>1, SockOf DEF Inv
  <2>3. QED
    BY <2>1, <2>2, NoneIsNoClient DEF Behind
<1>3. ASSUME pc' = [pc EXCEPT ![c] = "recv"], at' = [at EXCEPT ![c] = Behind(Sock(c))]
      PROVE  pc'[c] = "recv" /\ at'[c] = c
  BY <1>0, <1>2, <1>3 DEF TypeOK
<1>4. CASE Say(c) \/ SendTo(c)
  <2>1. then' = then /\ pc[c] \in {"say", "walk"}
    BY <1>4 DEF Say, SendTo
  <2>2. CASE then[c] = "loop" /\ pc' = [pc EXCEPT ![c] = "recv"]
             /\ at' = [at EXCEPT ![c] = Behind(Sock(c))]
    BY <1>3, <2>2 DEF Left
  <2>3. CASE then[c] # "loop" /\ pc' = [pc EXCEPT ![c] = "close"]
    <3>1. pc'[c] = "close" /\ then[c] = "close"
      BY <1>0, <2>3 DEF TypeOK
    <3>2. QED
      BY <1>0, <2>1, <3>1 DEF Kept, Left
  <2>4. CASE pc'[c] = "walk"
    BY <1>0, <2>1, <2>4 DEF Kept, Left
  <2>5. QED
    <3>1. \/ then[c] = "loop" /\ pc' = [pc EXCEPT ![c] = "recv"]
             /\ at' = [at EXCEPT ![c] = Behind(Sock(c))]
          \/ then[c] # "loop" /\ pc' = [pc EXCEPT ![c] = "close"]
          \/ pc' = [pc EXCEPT ![c] = "walk"]
          \/ pc[c] = "walk" /\ pc' = pc
      BY <1>4 DEF Say, SendTo, Return, Listen
    <3>2. QED
      BY <1>0, <2>2, <2>3, <2>4, <3>1 DEF TypeOK
<1>5. CASE NoMore(c)
  <2>1. pc[c] = "recv" /\ at[c] \notin Here /\ pc' = [pc EXCEPT ![c] = "say"]
    BY <1>5 DEF NoMore, Step
  <2>2. c \notin Here
    BY <1>0, <2>1 DEF Kept
  <2>3. peer[c] = "down"
    BY <1>0, <1>1, <2>2 DEF Here, TypeOK
  <2>4. pc'[c] = "say"
    BY <1>0, <2>1 DEF TypeOK
  <2>5. QED
    BY <2>3, <2>4
<1>6. CASE Talk(c)
  <2>1. pc' = [pc EXCEPT ![c] = "say"] /\ then' = [then EXCEPT ![c] = "loop"]
    BY <1>6 DEF Talk, Step
  <2>2. pc'[c] = "say" /\ then'[c] = "loop"
    BY <1>0, <2>1 DEF TypeOK
  <2>3. QED
    BY <2>2 DEF Left
<1>7. CASE Address(c) \/ Find(c)
  <2>1. \E p \in {"find", "tell", "deny"} : pc' = [pc EXCEPT ![c] = p]
    BY <1>7 DEF Address, Find, Step
  <2>2. pc'[c] \in {"find", "tell", "deny"}
    BY <1>0, <2>1 DEF TypeOK
  <2>3. QED
    BY <2>2 DEF Left
<1>8. CASE Tell(c) \/ Deny(c)
  BY <1>3, <1>8 DEF Tell, Deny, Listen, Left
<1>9. QED
  BY <1>4, <1>5, <1>6, <1>7, <1>8 DEF Going

\* What a thread does in service leaves the variables of the others alone.
LEMMA GoingLocal ==
  ASSUME Inv, NEW c \in Clients, Going(c), NEW d \in Clients, d # c
  PROVE  pc'[d] = pc[d] /\ then'[d] = then[d] /\ at'[d] = at[d]
<1>0. TypeOK
  BY DEF Inv
<1>1. pc'[d] = pc[d]
  BY <1>0, GoingKeeps DEF TypeOK
<1>2. then' = then \/ \E v : then' = [then EXCEPT ![c] = v]
  BY DEF Going, Say, SendTo, NoMore, Find, Tell, Deny, Talk, Address
<1>3. at' = at \/ \E v : at' = [at EXCEPT ![c] = v]
  <2>1. CASE Say(c) \/ SendTo(c)
    BY <2>1 DEF Say, SendTo, Return, Listen
  <2>2. CASE NoMore(c) \/ Talk(c) \/ Address(c) \/ Find(c)
    BY <2>2 DEF NoMore, Talk, Address, Find
  <2>3. CASE Tell(c) \/ Deny(c)
    BY <2>3 DEF Tell, Deny, Listen
  <2>4. QED
    BY <2>1, <2>2, <2>3 DEF Going
<1>4. then'[d] = then[d]
  BY <1>0, <1>2 DEF TypeOK
<1>5. at'[d] = at[d]
  BY <1>0, <1>3 DEF TypeOK
<1>6. QED
  BY <1>1, <1>4, <1>5
LEMMA StepKept ==
  ASSUME Inv, KeptInv, [Next]_vars, NEW d \in Clients, d \notin wronged'
  PROVE  Kept(d)'
<1>0. TypeOK /\ MemInv /\ WithMain /\ Kept(d) /\ d \notin wronged
  BY StepHistory DEF Inv, LifeInv, KeptInv
<1>m. InService(d) \/ pc[d] = "remove" => mem[d] \in 1..N /\ sock[d] \in 1..Numbers
  BY <1>0 DEF MemInv, Entered, InService
<1>n. d # None
  BY NoneIsNoClient
<1>p. peer[d] = "down" => peer'[d] = "down"
  <2>1. CASE UNCHANGED vars
    BY <2>1 DEF vars, net
  <2>2. CASE Next
    BY <2>2, StepPeer
  <2>3. QED
    BY <2>1, <2>2
<1>k. ASSUME UNCHANGED <<mem, sock>>, pc'[d] = pc[d], then'[d] = then[d], at'[d] = at[d],
             \A b \in 1..N : block[b] = d => block'[b] = d,
             \A n \in 1..Numbers : file[n] = d => file'[n] = d
      PROVE  Kept(d)'
  BY <1>0, <1>m, <1>p, <1>k DEF Kept, InService, Left
<1>1. CASE UNCHANGED vars
  <2>1. UNCHANGED <<mem, sock, pc, then, at, block, file>>
    BY <1>1 DEF vars, memory, threads
  <2>2. QED
    BY <1>k, <2>1
<1>2. CASE Accept
  <2>1. UNCHANGED <<mem, sock, pc, then, at, block>>
        /\ file' = [file EXCEPT ![conn'] = cli'] /\ conn' \in 1..Numbers /\ file[conn'] = None
    BY <1>2, AcceptDoes
  <2>2. \A n \in 1..Numbers : file[n] = d => file'[n] = d
    BY <1>0, <1>n, <2>1 DEF TypeOK
  <2>3. QED
    BY <1>k, <2>1, <2>2
<1>3. CASE NoName \/ Name
  <2>1. UNCHANGED <<mem, sock, pc, then, at, block>> /\ Busy
        /\ (file' = file \/ file' = [file EXCEPT ![conn] = None])
    BY <1>3 DEF NoName, Name, memory, threads, Busy
  <2>2. CASE d # cli
    <3>1. \A n \in 1..Numbers : file[n] = d => file'[n] = d
      BY <1>0, <1>n, <2>1, <2>2 DEF TypeOK, WithMain
    <3>2. QED
      BY <1>k, <2>1, <3>1
  <2>3. CASE d = cli
    <3>1. pc'[d] = "none"
      BY <1>0, <2>1, <2>3 DEF WithMain
    <3>2. QED
      BY <3>1 DEF Kept, InService, Left
  <2>4. QED
    BY <2>2, <2>3
<1>4. CASE Add
  <2>1. cli \in Clients /\ conn \in 1..Numbers /\ pc[cli] = "none" /\ Busy
    BY <1>0, <1>4, AddDoes DEF WithMain, Busy
  <2>2. /\ UNCHANGED <<then, at, file, wronged>>
        /\ pc' = [pc EXCEPT ![cli] = "say"] /\ sock' = [sock EXCEPT ![cli] = conn]
    BY <1>4, AddDoes
  <2>3. PICK b \in 1..N : /\ block[b] = None /\ mem' = [mem EXCEPT ![cli] = b]
                          /\ block' = [block EXCEPT ![b] = cli]
    BY <1>4, AddDoes
  <2>4. CASE d = cli
    <3>1. pc'[d] = "say" /\ then'[d] = "loop" /\ mem'[d] = b /\ sock'[d] = conn
          /\ block'[b] = d
      BY <1>0, <2>1, <2>2, <2>3, <2>4 DEF TypeOK, KeptInv
    <3>2. file'[conn] = d
      BY <1>0, <2>1, <2>2, <2>4 DEF KeptInv
    <3>3. QED
      BY <3>1, <3>2 DEF Kept, Left, InService
  <2>5. CASE d # cli
    <3>1. pc'[d] = pc[d] /\ mem'[d] = mem[d] /\ sock'[d] = sock[d]
      BY <1>0, <2>1, <2>2, <2>3, <2>5 DEF TypeOK
    <3>2. \A a \in 1..N : block[a] = d => block'[a] = d
      BY <1>0, <1>n, <2>3 DEF TypeOK
    <3>3. QED
      BY <1>0, <1>m, <1>p, <2>2, <3>1, <3>2 DEF Kept, InService, Left
  <2>6. QED
    BY <2>4, <2>5
<1>5. ASSUME NEW c \in Clients, Going(c), c # d PROVE Kept(d)'
  BY <1>0, <1>5, <1>k, GoingKeeps, GoingLocal
<1>6. CASE Going(d)
  <2>1. /\ UNCHANGED <<mem, sock, block, file>> /\ pc[d] \in Serving /\ pc'[d] \in Serving
    BY <1>0, <1>6, GoingKeeps
  <2>2. block[mem[d]] = d /\ file[sock[d]] = d
    BY <1>0, <2>1 DEF Kept, InService, Serving
  <2>3. pc'[d] # "remove"
    BY <2>1 DEF Serving
  <2>4. /\ pc'[d] = "recv" => at'[d] = d
        /\ Left(d)' => peer'[d] = "down"
    BY <1>0, <1>6, <1>p, GoingKept
  <2>5. QED
    BY <2>1, <2>2, <2>3, <2>4 DEF Kept
<1>7. ASSUME NEW c \in Clients, Client(c) PROVE Kept(d)'
  BY <1>0, <1>7, <1>k, ClientKeeps
<1>8. ASSUME NEW c \in Clients, Close(c) \/ Remove(c), c # d PROVE Kept(d)'
  <2>1. UNCHANGED <<mem, sock, then, at>>
    BY <1>8, CloseDoes, RemoveDoes
  <2>2. pc'[d] = pc[d]
    <3>1. \E p : pc' = [pc EXCEPT ![c] = p]
      BY <1>8, CloseDoes, RemoveDoes
    <3>2. QED
      BY <1>0, <1>8, <3>1 DEF TypeOK
  <2>3. \A b \in 1..N : block[b] = d => block'[b] = d
    BY <1>8, OutOfReach, CloseDoes
  <2>4. \A n \in 1..Numbers : file[n] = d => file'[n] = d
    BY <1>8, OutOfReach, RemoveDoes
  <2>5. QED
    BY <1>k, <2>1, <2>2, <2>3, <2>4
<1>9. CASE Close(d)
  <2>1. UNCHANGED <<mem, block>> /\ pc[d] = "close" /\ pc' = [pc EXCEPT ![d] = "remove"]
    BY <1>9, CloseDoes
  <2>2. pc'[d] = "remove"
    BY <1>0, <2>1 DEF TypeOK
  <2>3. block[mem[d]] = d /\ peer[d] = "down"
    BY <1>0, <2>1 DEF Kept, InService, Left
  <2>4. QED
    BY <1>p, <2>1, <2>2, <2>3 DEF Kept, InService
<1>10. CASE Remove(d)
  <2>1. pc[d] = "remove" /\ pc' = [pc EXCEPT ![d] = "done"]
    BY <1>10, RemoveDoes
  <2>2. pc'[d] = "done"
    BY <1>0, <2>1 DEF TypeOK
  <2>3. peer[d] = "down"
    BY <1>0, <2>1 DEF Kept, Left
  <2>4. QED
    BY <1>p, <2>2, <2>3 DEF Kept, InService
<1>11. QED
  BY <1>1, <1>2, <1>3, <1>4, <1>5, <1>6, <1>7, <1>8, <1>9, <1>10, NextIs
\* Until a client is entered, nothing has ended its service.
LEMMA StepFresh ==
  ASSUME Inv, KeptInv, [Next]_vars, NEW d \in Clients, pc'[d] = "none"
  PROVE  then'[d] = "loop"
<1>0. TypeOK
  BY DEF Inv
<1>s. pc[d] = "none" /\ then'[d] = then[d] => then'[d] = "loop"
  BY DEF KeptInv
<1>1. CASE UNCHANGED vars
  BY <1>1, <1>s DEF vars, threads
<1>2. CASE Accept \/ NoName \/ Name
  BY <1>2, <1>s, AcceptDoes DEF NoName, Name, threads
<1>3. CASE Add
  <2>1. then' = then /\ pc' = [pc EXCEPT ![cli] = "say"]
    BY <1>3, AddDoes
  <2>2. QED
    BY <1>0, <1>s, <2>1 DEF TypeOK
<1>4. ASSUME NEW c \in Clients, Going(c) PROVE then'[d] = "loop"
  <2>1. pc'[c] # "none"
    BY <1>0, <1>4, GoingKeeps DEF Serving
  <2>2. QED
    BY <1>4, <1>s, <2>1, GoingLocal
<1>5. ASSUME NEW c \in Clients, Client(c) PROVE then'[d] = "loop"
  BY <1>0, <1>5, <1>s, ClientKeeps
<1>6. ASSUME NEW c \in Clients, Close(c) \/ Remove(c) PROVE then'[d] = "loop"
  <2>1. then' = then /\ \E p \in {"remove", "done"} : pc' = [pc EXCEPT ![c] = p]
    BY <1>6, CloseDoes, RemoveDoes
  <2>2. pc'[d] = pc[d]
    BY <1>0, <2>1 DEF TypeOK
  <2>3. QED
    BY <1>s, <2>1, <2>2
<1>7. QED
  BY <1>1, <1>2, <1>3, <1>4, <1>5, <1>6, NextIs

\* Only a private message goes astray, and only one to who has left or was
\* wronged.
LEMMA StepStrayed ==
  ASSUME Inv, KeptInv, [Next]_vars, NEW d \in strayed'
  PROVE  peer'[d] = "down" \/ d \in wronged'
<1>0. TypeOK /\ MemInv /\ ToldInv
  BY DEF Inv
<1>s. ASSUME d \in Clients, peer[d] = "down" \/ d \in wronged
      PROVE  peer'[d] = "down" \/ d \in wronged'
  <2>1. wronged \subseteq wronged'
    BY StepHistory
  <2>2. peer[d] = "down" => peer'[d] = "down"
    BY <1>s, StepPeer DEF vars, net
  <2>3. QED
    BY <1>s, <2>1, <2>2
<1>1. CASE d \in strayed
  <2>1. d \in Clients
    BY <1>0, <1>1 DEF TypeOK
  <2>2. QED
    BY <1>1, <1>s, <2>1 DEF KeptInv
<1>2. CASE d \notin strayed
  <2>1. PICK c \in Clients : Tell(c)
    <3>1. CASE UNCHANGED vars \/ Accept \/ NoName \/ Name \/ Add
      BY <1>2, <3>1, AcceptDoes, AddDoes DEF vars, NoName, Name, history
    <3>2. ASSUME NEW c \in Clients, Client(c) \/ Close(c) \/ Remove(c) PROVE FALSE
      BY <1>0, <1>2, <3>2, ClientKeeps, CloseDoes, RemoveDoes
    <3>3. ASSUME NEW c \in Clients, Going(c) PROVE Tell(c)
      BY <1>2, <3>3 DEF Going, Say, SendTo, NoMore, Find, Deny, Talk, Address, history
    <3>4. QED
      BY <3>1, <3>2, <3>3, NextIs
  <2>2. pc[c] = "tell" /\ d = to[c] /\ Behind(Sock(d)) \in Here \ {d}
    BY <1>2, <2>1 DEF Tell
  <2>3. d \in Clients /\ Entered(d)
    BY <1>0, <2>2 DEF ToldInv
  <2>4. ASSUME d \notin wronged PROVE peer[d] = "down"
    <3>1. Kept(d)
      BY <2>3, <2>4 DEF KeptInv
    <3>2. ~InService(d)
      <4>1. SUFFICES ASSUME InService(d) PROVE FALSE
        OBVIOUS
      <4>2. block[mem[d]] = d /\ file[sock[d]] = d
        BY <3>1, <4>1 DEF Kept
      <4>3. Sock(d) = sock[d] /\ Sock(d) \in 1..Numbers
        BY <1>0, <2>3, <4>2, SockOf
      <4>4. Behind(Sock(d)) = d
        BY <4>2, <4>3, NoneIsNoClient DEF Behind
      <4>5. QED
        BY <2>2, <4>4
    <3>3. pc[d] \in {"remove", "done"}
      BY <2>3, <3>2 DEF InService, Entered
    <3>4. QED
      BY <3>1, <3>3 DEF Kept, Left
  <2>5. QED
    BY <1>s, <2>3, <2>4
<1>3. QED
  BY <1>1, <1>2

LEMMA StepKeptInv == Inv /\ KeptInv /\ [Next]_vars => KeptInv'
<1> SUFFICES ASSUME Inv, KeptInv, [Next]_vars PROVE KeptInv'
  OBVIOUS
<1>1. \A c \in Clients : c \notin wronged' => Kept(c)'
  BY StepKept
<1>2. \A c \in Clients : pc'[c] = "none" => then'[c] = "loop"
  BY StepFresh
<1>3. \A c \in strayed' : peer'[c] = "down" \/ c \in wronged'
  BY StepStrayed
<1>4. Busy' /\ cli' \notin wronged' => file'[conn'] = cli'
  BY StepMainKept
<1>5. QED
  BY <1>1, <1>2, <1>3, <1>4 DEF KeptInv

\* The invariant StrayedOnlyLeft: a private message reaches another client than
\* its addressee only if that one has hung up, or another's thread has taken its
\* socket or its entry away.
THEOREM StrayedHaveLeft == Spec => []StrayedOnlyLeft
<1>1. KeptInv => StrayedOnlyLeft
  BY DEF KeptInv, StrayedOnlyLeft
<1>2. QED
  BY <1>1, InitInv, StepInv, InitKept, StepKeptInv, PTL DEF Spec
-----------------------------------------------------------------------------
(***************************************************************************)
(* Until a number is given out between its close and the removal of the    *)
(* entry that has it, the numbers tell the clients apart.                  *)
(***************************************************************************)
Active(c) == pc[c] \notin {"none", "done"}

Apart == \A c, d \in Clients :
           pc[c] = "remove" /\ d # c /\ Active(d) => sock[d] # sock[c]

MainApart == \A c \in Clients : pc[c] = "remove" /\ Busy => conn # sock[c]

TableActive == \A i \in Indices : table[i] # None => Active(table[i])

NumberInv == ~reused => wronged = {} /\ Apart /\ MainApart /\ TableActive

\* Who is served is in the table, found it full, or lost its entry to another.
ServedInv == \A c \in Clients : InService(c) => Listed(c) \/ c \in unlisted \/ c \in wronged

LEMMA InitNumber == Init => NumberInv /\ ServedInv
BY DEF Init, NumberInv, Apart, MainApart, TableActive, ServedInv, Active, InService

\* Nobody wronged: every entry is its client's own, and every number of one in
\* service stands for its connection.
LEMMA AllOwn ==
  ASSUME Inv, KeptInv, wronged = {}, NEW c \in Clients, Active(c)
  PROVE  /\ Sock(c) = sock[c] /\ sock[c] \in 1..Numbers
         /\ InService(c) => file[sock[c]] = c
<1>1. Kept(c) /\ Entered(c) /\ (InService(c) \/ pc[c] = "remove")
  BY DEF KeptInv, Active, Entered, InService
<1>2. block[mem[c]] = c /\ (InService(c) => file[sock[c]] = c)
  BY <1>1 DEF Kept
<1>3. QED
  BY <1>1, <1>2, SockOf DEF Inv, MemInv

\* remove_client then finds the entry it is called for, if it is in the table.
LEMMA RemovesOwn ==
  ASSUME Inv, KeptInv, NumberInv, ~reused, NEW c \in Clients, Remove(c)
  PROVE  /\ FirstNamed(Sock(c)) \subseteq {c}
         /\ Listed(c) => FirstNamed(Sock(c)) = {c}
<1>0. /\ TypeOK /\ MemInv /\ wronged = {} /\ Apart /\ TableActive
      /\ pc[c] = "remove" /\ Active(c)
  BY RemoveDoes DEF Inv, NumberInv, Active
<1>1. Sock(c) = sock[c]
  BY <1>0, AllOwn
<1>2. ASSUME NEW i \in Named(Sock(c)) PROVE i \in Indices /\ table[i] = c
  <2>1. i \in Indices /\ table[i] # None /\ Sock(table[i]) = Sock(c)
    BY <1>2 DEF Named
  <2>2. table[i] \in Clients /\ Sock(table[i]) = sock[table[i]] /\ Active(table[i])
    BY <1>0, <2>1, TableOf DEF TableActive
  <2>3. QED
    BY <1>0, <1>1, <2>1, <2>2 DEF Apart
<1>3. FirstNamed(Sock(c)) \subseteq {c}
  BY <1>2 DEF FirstNamed
<1>4. ASSUME Listed(c) PROVE c \in FirstNamed(Sock(c))
  <2>1. PICK i \in Indices : table[i] = c
    BY <1>4 DEF Listed
  <2>2. i \in Named(Sock(c))
    BY <2>1, NoneIsNoClient DEF Named
  <2>3. \A k \in Named(Sock(c)) : k = i
    <3>1. \A k \in Named(Sock(c)) : k \in Indices /\ table[k] = table[i]
      BY <1>2, <2>1
    <3>2. table[i] # None
      BY <2>1, NoneIsNoClient
    <3>3. QED
      BY <1>0, <2>1, <3>1, <3>2 DEF TypeOK
  <2>4. i <= i
    BY <2>1, ChatAssumption DEF Indices
  <2>5. QED
    BY <2>1, <2>2, <2>3, <2>4 DEF FirstNamed
<1>5. QED
  BY <1>3, <1>4

LEMMA StepUnwronged ==
  ASSUME Inv, KeptInv, NumberInv, [Next]_vars, ~reused
  PROVE  wronged' = {}
<1>0. TypeOK /\ wronged = {}
  BY DEF Inv, NumberInv
<1>1. CASE UNCHANGED vars \/ Accept \/ NoName \/ Name \/ Add
  BY <1>0, <1>1, AcceptDoes, AddDoes DEF vars, NoName, Name, history
<1>2. ASSUME NEW c \in Clients, Going(c) \/ Client(c) PROVE wronged' = {}
  BY <1>0, <1>2, GoingKeeps, ClientKeeps
<1>3. ASSUME NEW c \in Clients, Close(c) PROVE wronged' = {}
  <2>1. pc[c] = "close" /\ wronged' = wronged \cup ({Behind(Sock(c))} \ {c, None})
    BY <1>3, CloseDoes
  <2>2. Active(c) /\ InService(c)
    BY <2>1 DEF Active, InService
  <2>3. Behind(Sock(c)) = c
    BY <1>0, <2>2, AllOwn, NoneIsNoClient DEF Behind
  <2>4. QED
    BY <1>0, <2>1, <2>3
<1>4. ASSUME NEW c \in Clients, Remove(c) PROVE wronged' = {}
  BY <1>0, <1>4, RemoveDoes, RemovesOwn
<1>5. QED
  BY <1>1, <1>2, <1>3, <1>4, NextIs
\* What can become of a thread in one step.
LEMMA StepPc ==
  ASSUME Inv, [Next]_vars, NEW d \in Clients
  PROVE  /\ pc'[d] = "remove" => pc[d] = "remove" \/ Close(d)
         /\ pc'[d] = "done" => pc[d] = "done" \/ Remove(d)
         /\ pc'[d] \notin {"none", "done"} => Active(d) \/ (Add /\ d = cli)
         /\ InService(d)' => InService(d) \/ (Add /\ d = cli)
         /\ sock'[d] = sock[d] \/ (Add /\ d = cli)
<1> USE DEF Active, InService
<1>0. TypeOK
  BY DEF Inv
<1>s. ASSUME pc'[d] = pc[d], sock' = sock
      PROVE  /\ pc'[d] = "remove" => pc[d] = "remove"
             /\ pc'[d] = "done" => pc[d] = "done"
             /\ pc'[d] \notin {"none", "done"} => Active(d)
             /\ InService(d)' => InService(d)
             /\ sock'[d] = sock[d]
  BY <1>s
<1>1. CASE UNCHANGED vars \/ Accept \/ NoName \/ Name
  <2>1. UNCHANGED <<pc, sock>>
    BY <1>1, AcceptDoes DEF vars, NoName, Name, memory, threads
  <2>2. QED
    BY <1>s, <2>1
<1>2. CASE Add
  <2>1. pc' = [pc EXCEPT ![cli] = "say"] /\ sock' = [sock EXCEPT ![cli] = conn]
    BY <1>2, AddDoes
  <2>2. d = cli => pc'[d] = "say"
    BY <1>0, <2>1 DEF TypeOK
  <2>3. d # cli => pc'[d] = pc[d] /\ sock'[d] = sock[d]
    BY <1>0, <2>1 DEF TypeOK
  <2>4. QED
    BY <1>2, <2>2, <2>3
<1>3. ASSUME NEW c \in Clients, Client(c) PROVE pc'[d] = pc[d] /\ sock' = sock
  BY <1>0, <1>3, ClientKeeps
<1>4. ASSUME NEW c \in Clients, c # d, Going(c) \/ Close(c) \/ Remove(c)
      PROVE  pc'[d] = pc[d] /\ sock' = sock
  <2>1. sock' = sock
    BY <1>0, <1>4, GoingKeeps, CloseDoes, RemoveDoes
  <2>2. \E p : pc' = [pc EXCEPT ![c] = p]
    BY <1>0, <1>4, GoingKeeps, CloseDoes, RemoveDoes
  <2>3. pc'[d] = pc[d]
    BY <1>0, <1>4, <2>2 DEF TypeOK
  <2>4. QED
    BY <2>1, <2>3
<1>5. CASE Going(d)
  <2>1. sock' = sock /\ pc[d] \in Serving /\ pc'[d] \in Serving
    BY <1>0, <1>5, GoingKeeps
  <2>2. QED
    BY <2>1 DEF Serving
<1>6. CASE Close(d)
  <2>1. sock' = sock /\ pc[d] = "close" /\ pc' = [pc EXCEPT ![d] = "remove"]
    BY <1>6, CloseDoes
  <2>2. pc'[d] = "remove"
    BY <1>0, <2>1 DEF TypeOK
  <2>3. QED
    BY <1>6, <2>1, <2>2
<1>7. CASE Remove(d)
  <2>1. sock' = sock /\ pc' = [pc EXCEPT ![d] = "done"]
    BY <1>7, RemoveDoes
  <2>2. pc'[d] = "done"
    BY <1>0, <2>1 DEF TypeOK
  <2>3. QED
    BY <1>7, <2>1, <2>2
<1>8. QED
  BY <1>1, <1>2, <1>3, <1>4, <1>5, <1>6, <1>7, <1>s, NextIs

LEMMA StepApart ==
  ASSUME Inv, KeptInv, NumberInv, [Next]_vars, ~reused
  PROVE  Apart'
<1> SUFFICES ASSUME NEW c \in Clients, NEW d \in Clients, d # c,
                    pc'[c] = "remove", pc'[d] \notin {"none", "done"}
             PROVE  sock'[d] # sock'[c]
  BY DEF Apart, Active
<1>0. /\ TypeOK /\ wronged = {} /\ Apart /\ MainApart
      /\ Active(c) /\ sock'[c] = sock[c]
  <2>1. TypeOK /\ wronged = {} /\ Apart /\ MainApart
    BY DEF Inv, NumberInv
  <2>2. pc[c] = "remove" \/ Close(c)
    BY StepPc
  <2>3. Active(c)
    BY <2>2, CloseDoes DEF Active
  <2>4. ~(Add /\ c = cli)
    BY <2>3, AddDoes DEF Active, Inv, LifeInv, WithMain, Busy
  <2>5. QED
    BY <2>1, <2>3, <2>4, StepPc
<1>1. CASE Add /\ d = cli
  <2>1. mpc = "add" /\ sock' = [sock EXCEPT ![cli] = conn] /\ pc' = [pc EXCEPT ![cli] = "say"]
    BY <1>1, AddDoes
  <2>2. sock'[d] = conn /\ pc[c] = "remove"
    BY <1>0, <1>1, <2>1 DEF TypeOK
  <2>3. QED
    BY <1>0, <2>1, <2>2 DEF MainApart, Busy
<1>2. CASE ~(Add /\ d = cli)
  <2>1. Active(d) /\ sock'[d] = sock[d]
    BY <1>2, StepPc
  <2>2. CASE pc[c] = "remove"
    BY <1>0, <2>1, <2>2 DEF Apart
  <2>3. CASE Close(c)
    <3>1. pc[c] = "close" /\ InService(c)
      BY <2>3, CloseDoes DEF InService
    <3>2. CASE InService(d)
      BY <1>0, <2>1, <3>1, <3>2, AllOwn
    <3>3. CASE pc[d] = "remove"
      BY <1>0, <2>1, <3>3 DEF Apart
    <3>4. QED
      BY <2>1, <3>2, <3>3 DEF Active, InService
  <2>4. QED
    BY <2>2, <2>3, StepPc
<1>3. QED
  BY <1>1, <1>2

\* A new connection gets a number nobody's entry is still removed by.
LEMMA StepMainApart ==
  ASSUME Inv, KeptInv, NumberInv, [Next]_vars, ~reused, ~reused'
  PROVE  MainApart'
<1> SUFFICES ASSUME NEW c \in Clients, pc'[c] = "remove", Busy'
             PROVE  conn' # sock'[c]
  BY DEF MainApart
<1>0. TypeOK /\ WithMain /\ wronged = {} /\ MainApart
  BY DEF Inv, LifeInv, NumberInv
<1>1. CASE Accept
  <2>1. /\ reused' = (reused \/ \E d \in Clients : pc[d] = "remove" /\ sock[d] = conn')
        /\ UNCHANGED <<sock, pc>>
    BY <1>1, AcceptDoes
  <2>2. \A d \in Clients : ~(pc[d] = "remove" /\ sock[d] = conn')
    BY <2>1, Zenon
  <2>3. QED
    BY <2>1, <2>2
<1>2. CASE NoName \/ Add
  BY <1>2, AddDoes DEF NoName, Busy
<1>3. CASE ~Accept /\ ~NoName /\ ~Add
  <2>1. Busy /\ UNCHANGED <<conn, cli>>
    <3>1. CASE UNCHANGED vars \/ Name
      BY <3>1 DEF vars, main, Name, Busy
    <3>2. ASSUME NEW x \in Clients, Going(x) \/ Client(x) \/ Close(x) \/ Remove(x)
          PROVE  UNCHANGED <<mpc, conn, cli>>
      BY <1>0, <3>2, GoingKeeps, ClientKeeps, CloseDoes, RemoveDoes
    <3>3. QED
      BY <1>3, <3>1, <3>2, NextIs DEF Busy
  <2>2. sock'[c] = sock[c] /\ (pc[c] = "remove" \/ Close(c))
    BY <1>3, StepPc
  <2>3. CASE pc[c] = "remove"
    BY <1>0, <2>1, <2>2, <2>3 DEF MainApart
  <2>4. CASE Close(c)
    <3>1. pc[c] = "close"
      BY <2>4, CloseDoes
    <3>2. file[sock[c]] = c
      BY <1>0, <3>1, AllOwn DEF Active, InService
    <3>3. file[conn] = cli /\ cli # c
      BY <1>0, <2>1, <3>1 DEF KeptInv, WithMain
    <3>4. QED
      BY <2>1, <2>2, <3>2, <3>3
  <2>5. QED
    BY <2>2, <2>3, <2>4
<1>4. QED
  BY <1>1, <1>2, <1>3
\* A step leaves the table as it was, enters the client of main, or removes.
LEMMA StepTable ==
  ASSUME Inv, [Next]_vars
  PROVE  \/ table' = table
         \/ Add
         \/ \E c \in Clients : Remove(c)
<1>0. TypeOK
  BY DEF Inv
<1>1. CASE UNCHANGED vars \/ Accept \/ NoName \/ Name
  BY <1>1, AcceptDoes DEF vars, NoName, Name, memory
<1>2. ASSUME NEW c \in Clients, Going(c) \/ Client(c) \/ Close(c) PROVE table' = table
  BY <1>0, <1>2, GoingKeeps, ClientKeeps, CloseDoes
<1>3. QED
  BY <1>1, <1>2, NextIs

LEMMA StepTableActive ==
  ASSUME Inv, KeptInv, NumberInv, [Next]_vars, ~reused
  PROVE  TableActive'
<1> SUFFICES ASSUME NEW i \in Indices, table'[i] # None
             PROVE  pc'[table'[i]] \notin {"none", "done"}
  BY DEF TableActive, Active
<1>0. TypeOK /\ MemInv /\ TableActive
  BY DEF Inv, NumberInv
<1>1. CASE Add
  <2>1. pc' = [pc EXCEPT ![cli] = "say"]
    BY <1>1, AddDoes
  <2>2. table'[i] = cli \/ table'[i] = table[i]
    BY <1>0, <1>1, AddDoes DEF TypeOK
  <2>3. cli \in Clients /\ (table[i] # None => table[i] \in Clients)
    BY <1>0, <1>1, AddDoes DEF TypeOK, Inv, LifeInv, WithMain, Busy
  <2>4. pc'[cli] = "say" /\ \A d \in Clients \ {cli} : pc'[d] = pc[d]
    BY <1>0, <2>1, <2>3 DEF TypeOK
  <2>5. QED
    BY <1>0, <2>2, <2>3, <2>4 DEF TableActive, Active
<1>2. ASSUME table'[i] = table[i], ~Remove(table[i])
      PROVE  pc'[table'[i]] \notin {"none", "done"}
  <2>1. table[i] \in Clients /\ Active(table[i])
    BY <1>0, <1>2 DEF TypeOK, TableActive
  <2>2. pc'[table[i]] # "done"
    BY <1>2, <2>1, StepPc DEF Active
  <2>3. pc'[table[i]] # "none"
    <3>1. CASE UNCHANGED vars
      BY <2>1, <3>1 DEF vars, threads, Active
    <3>2. CASE Next
      BY <2>1, <3>2, StepEntered DEF Entered, Active
    <3>3. QED
      BY <3>1, <3>2
  <2>4. QED
    BY <1>2, <2>2, <2>3
<1>3. ASSUME NEW c \in Clients, Remove(c)
      PROVE  table'[i] = table[i] /\ ~Remove(table[i])
  <2>1. table'[i] = table[i] /\ table[i] \notin FirstNamed(Sock(c))
    BY <1>3, RemoveDoes
  <2>2. table[i] # c
    <3>1. table[i] = c => c \in FirstNamed(Sock(c))
      BY <1>3, RemovesOwn DEF Listed
    <3>2. QED
      BY <2>1, <3>1
  <2>3. table[i] \in Clients /\ pc' = [pc EXCEPT ![c] = "done"]
    BY <1>0, <1>3, <2>1, RemoveDoes DEF TypeOK
  <2>4. pc'[table[i]] = pc[table[i]]
    BY <1>0, <2>2, <2>3 DEF TypeOK
  <2>5. ~Remove(table[i])
    <3>1. ASSUME Remove(table[i]) PROVE FALSE
      <4>1. pc[table[i]] = "remove" /\ pc' = [pc EXCEPT ![table[i]] = "done"]
        BY <2>3, <3>1, RemoveDoes
      <4>2. pc'[table[i]] = "done"
        BY <1>0, <2>3, <4>1 DEF TypeOK
      <4>3. QED
        BY <2>4, <4>1, <4>2
    <3>2. QED
      BY <3>1
  <2>6. QED
    BY <2>1, <2>5
<1>4. CASE ~Add /\ \A c \in Clients : ~Remove(c)
  <2>1. table' = table
    BY <1>4, StepTable
  <2>2. table[i] \in Clients
    BY <1>0, <2>1 DEF TypeOK
  <2>3. QED
    BY <1>2, <1>4, <2>1, <2>2
<1>5. QED
  BY <1>1, <1>2, <1>3, <1>4
LEMMA StepNumber == Inv /\ KeptInv /\ NumberInv /\ [Next]_vars => NumberInv'
<1> SUFFICES ASSUME Inv, KeptInv, NumberInv, [Next]_vars, ~reused'
             PROVE  wronged' = {} /\ Apart' /\ MainApart' /\ TableActive'
  BY DEF NumberInv
<1>1. ~reused
  BY StepHistory
<1>2. QED
  BY <1>1, StepUnwronged, StepApart, StepMainApart, StepTableActive

LEMMA StepServed == Inv /\ ServedInv /\ [Next]_vars => ServedInv'
<1> SUFFICES ASSUME Inv, ServedInv, [Next]_vars, NEW d \in Clients, InService(d)'
             PROVE  Listed(d)' \/ d \in unlisted' \/ d \in wronged'
  BY DEF ServedInv
<1>0. TypeOK
  BY DEF Inv
<1>1. CASE Add /\ d = cli
  <2>1. ASSUME NEW i \in Indices, table' = [table EXCEPT ![i] = cli] PROVE Listed(d)'
    <3>1. table'[i] = d
      BY <1>0, <1>1, <2>1 DEF TypeOK
    <3>2. QED
      BY <3>1 DEF Listed
  <2>2. QED
    BY <1>1, <2>1, AddDoes
<1>2. CASE ~(Add /\ d = cli)
  <2>1. Listed(d) \/ d \in unlisted' \/ d \in wronged'
    BY <1>2, StepPc, StepHistory DEF ServedInv
  <2>2. ASSUME NEW i \in Indices, table[i] = d PROVE Listed(d)' \/ d \in wronged'
    <3>1. table[i] # None
      BY <2>2, NoneIsNoClient
    <3>2. CASE table' = table
      BY <2>2, <3>2 DEF Listed
    <3>3. CASE Add
      <4>1. \/ table' = table
            \/ \E k \in Indices : table[k] = None /\ table' = [table EXCEPT ![k] = cli]
        BY <3>3, AddDoes
      <4>2. table'[i] = d
        BY <1>0, <2>2, <3>1, <4>1 DEF TypeOK
      <4>3. QED
        BY <4>2 DEF Listed
    <3>4. ASSUME NEW c \in Clients, Remove(c) PROVE Listed(d)' \/ d \in wronged'
      <4>1. CASE d \in FirstNamed(Sock(c))
        <5>1. d # c
          <6>1. pc' = [pc EXCEPT ![c] = "done"]
            BY <3>4, RemoveDoes
          <6>2. pc'[c] = "done"
            BY <1>0, <6>1 DEF TypeOK
          <6>3. QED
            BY <6>2 DEF InService
        <5>2. QED
          BY <3>4, <4>1, <5>1, RemoveDoes
      <4>2. CASE d \notin FirstNamed(Sock(c))
        <5>1. table'[i] = d
          BY <2>2, <3>4, <4>2, RemoveDoes
        <5>2. QED
          BY <5>1 DEF Listed
      <4>3. QED
        BY <4>1, <4>2
    <3>5. QED
      BY <3>2, <3>3, <3>4, StepTable
  <2>3. QED
    BY <2>1, <2>2 DEF Listed
<1>3. QED
  BY <1>1, <1>2

\* The invariant ListedWhileServed: a client in service is in the table, unless
\* it found the table full, or a number was given out too early and another's
\* thread has freed its entry.
THEOREM ServedListed == Spec => []ListedWhileServed
<1>1. NumberInv /\ ServedInv => ListedWhileServed
  BY DEF NumberInv, ServedInv, ListedWhileServed
<1>2. QED
  BY <1>1, InitInv, StepInv, InitKept, StepKeptInv, InitNumber, StepNumber, StepServed,
     PTL DEF Spec
=============================================================================
