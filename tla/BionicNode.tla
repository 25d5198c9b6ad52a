----------------------------- MODULE BionicNode -----------------------------
(***************************************************************************)
(* bionicbit: a node that forks a process for each connection, the miners, *)
(* wallets and other peers that connect to it, the chain file the forked   *)
(* processes append to, and the tool that starts the file anew.            *)
(*                                                                         *)
(* A forked process serves one request and ends.  Nobody waits for it, so  *)
(* it stays in the process table; when that is full, fork fails and the    *)
(* node closes the connection unserved.                                    *)
(***************************************************************************)
EXTENDS Naturals, Sequences, FiniteSets

CONSTANTS
  Miner, Wallet,  \* the programs of the directory
  Peer,           \* other programs, which send one request of their own
  Tools,          \* bound of the model: runs of the chain tool
  MaxProcs        \* process table: children of the node, ended or not

Client  == Miner \cup Wallet \cup Peer

ASSUME NodeAssumption ==
  /\ MaxProcs \in Nat \ {0} /\ Tools \in Nat
  /\ IsFiniteSet(Client)

Genesis == "genesis"

VARIABLES
  chain,     \* chain.dat: its headers, each named for the client that sent it
  conn,      \* of each client's socket: "none", "queued" behind accept, "open"
             \* to a forked process, "closed" by it, "reset"
  request,   \* what waits to be read from the socket
  reply,     \* what the client has not read yet
  cpc,       \* the client
  hpc, size, \* the process that serves it; the headers it counted
  zombies,   \* processes that have ended
  tool, runs,\* the chain tool, and how often it may still run
  acked,     \* ghost: clients whose header was answered "ok"
  failed,    \* ghost: clients whose header could not be appended
  counts     \* ghost: clients whose headers were in the file, surely, when
             \* the height was read

file    == <<chain, tool, runs>>
ghosts  == <<acked, failed, counts>>
socket  == <<conn, request, reply>>
server  == <<hpc, size, zombies>>
vars    == <<chain, conn, request, reply, cpc, hpc, size, zombies, tool, runs,
             acked, failed, counts>>

None    == "none"
Request == {"getheight", "submit", "bad"}

Init ==
  /\ chain \in {<<>>, <<Genesis>>}
  /\ conn = [c \in Client |-> "none"]
  /\ request = [c \in Client |-> None] /\ reply = [c \in Client |-> None]
  /\ cpc = [c \in Client |-> "start"]
  /\ hpc = [c \in Client |-> "none"] /\ size = [c \in Client |-> 0]
  /\ zombies = 0
  /\ tool = "idle" /\ runs = Tools
  /\ acked = {} /\ failed = {} /\ counts = [c \in Client |-> {}]

Procs == zombies + Cardinality({c \in Client : hpc[c] # "none"})

Go(c, where) == cpc' = [cpc EXCEPT ![c] = where]

\* Closing a socket with a request unread resets the connection.
Hangup(c) ==
  conn' = [conn EXCEPT ![c] = IF request[c] = None THEN "closed" ELSE "reset"]

-----------------------------------------------------------------------------
\* Clients.

Connect(c) ==
  /\ cpc[c] = "start" /\ conn[c] = "none"
  /\ conn' = [conn EXCEPT ![c] = "queued"]
  /\ Go(c, "head1")
  /\ UNCHANGED <<request, reply, server, file, ghosts>>

\* write to a socket the other side has closed: it is answered with a reset,
\* before the next call of the client or after.  Once it is reset, SIGPIPE.
Wrote(c) == IF conn[c] = "closed" THEN {"closed", "reset"} ELSE {conn[c]}

\* send_msg writes the length first, and then the message.
SendHead(c) ==
  /\ \/ cpc[c] = "head1" /\ Go(c, IF conn[c] = "reset" THEN "killed" ELSE "body1")
     \/ cpc[c] = "head2" /\ Go(c, IF conn[c] = "reset" THEN "killed" ELSE "body2")
  /\ \E w \in Wrote(c) : conn' = [conn EXCEPT ![c] = w]
  /\ UNCHANGED <<request, reply, server, file, ghosts>>

Asks(c) ==
  CASE cpc[c] = "body2" -> {"submit"}
    [] c \in Peer       -> Request
    [] OTHER            -> {"getheight"}

SendBody(c) ==
  /\ \/ cpc[c] = "body1" /\ Go(c, IF conn[c] = "reset" THEN "killed" ELSE "wait1")
     \/ cpc[c] = "body2" /\ Go(c, IF conn[c] = "reset" THEN "killed" ELSE "wait2")
  /\ \E w \in Wrote(c) : conn' = [conn EXCEPT ![c] = w]
  /\ IF conn[c] \in {"queued", "open"}
       THEN \E r \in Asks(c) : request' = [request EXCEPT ![c] = r]
       ELSE UNCHANGED request
  /\ UNCHANGED <<reply, server, file, ghosts>>

\* recv_msg: a message, the end of the stream, or an error.
Receive(c) ==
  /\ \/ cpc[c] = "wait1" /\ Go(c, IF c \in Miner THEN "mine" ELSE "done")
     \/ cpc[c] = "wait2" /\ Go(c, "mine")
  /\ reply[c] # None \/ conn[c] \in {"closed", "reset"}
  /\ reply' = [reply EXCEPT ![c] = None]
  /\ UNCHANGED <<conn, request, server, file, ghosts>>

\* The miner finds a header whose hash begins with two zero bytes.
Mine(c) ==
  /\ cpc[c] = "mine" /\ Go(c, "head2")
  /\ UNCHANGED <<socket, server, file, ghosts>>

\* A peer may go away without a word, or in the middle of one.
Vanish(c) ==
  /\ c \in Peer /\ cpc[c] \in {"head1", "body1", "wait1"} /\ Go(c, "done")
  /\ UNCHANGED <<socket, server, file, ghosts>>

\* A wallet or a miner is started again, once its last connection is gone.
Again(c) ==
  /\ c \notin Peer /\ cpc[c] \in {"done", "killed"} /\ hpc[c] = "none"
  /\ conn[c] \in {"closed", "reset"}
  /\ Go(c, "start")
  /\ conn' = [conn EXCEPT ![c] = "none"]
  /\ request' = [request EXCEPT ![c] = None]
  /\ reply' = [reply EXCEPT ![c] = None]
  /\ UNCHANGED <<server, file, ghosts>>

ClientStep(c) ==
  \/ Connect(c) \/ SendHead(c) \/ SendBody(c) \/ Receive(c) \/ Mine(c)

-----------------------------------------------------------------------------
\* The node.

\* Variant: a fork that fails is the time to wait for the children.
AcceptReaps(c) ==
  /\ conn[c] = "queued"
  /\ IF Procs < MaxProcs
       THEN /\ conn' = [conn EXCEPT ![c] = "open"]
            /\ hpc' = [hpc EXCEPT ![c] = "recv"]
            /\ UNCHANGED zombies
       ELSE Hangup(c) /\ zombies' = 0 /\ UNCHANGED hpc
  /\ UNCHANGED <<request, reply, cpc, size, file, ghosts>>

Accept(c) ==
  /\ conn[c] = "queued"
  /\ IF Procs < MaxProcs
       THEN /\ conn' = [conn EXCEPT ![c] = "open"]
            /\ hpc' = [hpc EXCEPT ![c] = "recv"]
       ELSE Hangup(c) /\ UNCHANGED hpc
  /\ UNCHANGED <<request, reply, cpc, size, zombies, file, ghosts>>

\* Variant: a message that is not understood is not answered.
RecvAgain(c) ==
  /\ hpc[c] = "recv" /\ request[c] # None
  /\ hpc' = [hpc EXCEPT ![c] =
               CASE request[c] = "getheight" -> "load"
                 [] request[c] = "submit"    -> "open"
                 [] OTHER                    -> "recv"]
  /\ request' = [request EXCEPT ![c] = None]
  /\ UNCHANGED <<conn, reply, cpc, size, zombies, file, ghosts>>

\* handle_peer: what the message asks for.
Recv(c) ==
  /\ hpc[c] = "recv" /\ request[c] # None
  /\ hpc' = [hpc EXCEPT ![c] =
               CASE request[c] = "getheight" -> "load"
                 [] request[c] = "submit"    -> "open"
                 [] OTHER                    -> "other"]
  /\ request' = [request EXCEPT ![c] = None]
  /\ UNCHANGED <<conn, reply, cpc, size, zombies, file, ghosts>>

\* The client has gone before it had sent all of a message.
RecvNothing(c) ==
  /\ hpc[c] = "recv" /\ request[c] = None /\ cpc[c] = "done"
  /\ hpc' = [hpc EXCEPT ![c] = "close"]
  /\ UNCHANGED <<socket, cpc, size, zombies, file, ghosts>>

\* Variant: the height does not count the header written last.
LoadOneLess(c) ==
  /\ hpc[c] = "load"
  /\ size' = [size EXCEPT ![c] = IF chain = <<>> THEN 0 ELSE Len(chain) - 1]
  /\ hpc' = [hpc EXCEPT ![c] = "answer"]
  /\ counts' = [counts EXCEPT ![c] = acked \ failed]
  /\ UNCHANGED <<socket, cpc, zombies, file, acked, failed>>

\* load_chain: the size of the file, and zero if it does not open, whatever it
\* holds.  Both are answered as a height.
Load(c) ==
  /\ hpc[c] = "load"
  /\ \/ hpc' = [hpc EXCEPT ![c] = "answer"] /\ size' = [size EXCEPT ![c] = Len(chain)]
     \/ hpc' = [hpc EXCEPT ![c] = "unread"] /\ size' = [size EXCEPT ![c] = 0]
  /\ counts' = [counts EXCEPT ![c] = acked \ failed]
  /\ UNCHANGED <<socket, cpc, zombies, file, acked, failed>>

\* append_block_header: the file may not open; nobody looks at the result.
OpenFile(c) ==
  /\ hpc[c] = "open"
  /\ \/ hpc' = [hpc EXCEPT ![c] = "append"] /\ UNCHANGED failed
     \/ hpc' = [hpc EXCEPT ![c] = "ok"] /\ failed' = failed \cup {c}
  /\ size' = [size EXCEPT ![c] = Len(chain)]
  /\ UNCHANGED <<socket, cpc, zombies, file, acked, counts>>

\* Variant: the place to write at is the end of the file when it was opened.
AppendAtSeen(c) ==
  /\ hpc[c] = "append"
  /\ chain' = IF size[c] < Len(chain) THEN [chain EXCEPT ![size[c] + 1] = c]
              ELSE Append(chain, c)
  /\ hpc' = [hpc EXCEPT ![c] = "ok"]
  /\ UNCHANGED <<socket, cpc, size, zombies, tool, runs, ghosts>>

\* Mode "ab": the header goes behind whatever is in the file by now, or nowhere
\* when fwrite and fclose fail, which nobody looks at.
AppendHeader(c) ==
  /\ hpc[c] = "append"
  /\ \/ chain' = Append(chain, c) /\ UNCHANGED failed
     \/ failed' = failed \cup {c} /\ UNCHANGED chain
  /\ hpc' = [hpc EXCEPT ![c] = "ok"]
  /\ UNCHANGED <<socket, cpc, size, zombies, tool, runs, acked, counts>>

\* The answer; a client that has gone makes it end the process instead.
Answer(c) ==
  /\ hpc[c] \in {"answer", "unread", "ok", "other"}
  /\ IF cpc[c] \in {"done", "killed"} THEN UNCHANGED <<reply, acked>>
     ELSE /\ reply' = [reply EXCEPT ![c] =
                         IF hpc[c] \in {"answer", "unread"} THEN "height" ELSE hpc[c]]
          /\ acked' = IF hpc[c] = "ok" THEN acked \cup {c} ELSE acked
  /\ hpc' = [hpc EXCEPT ![c] = "close"]
  /\ size' = [size EXCEPT ![c] = 0] /\ counts' = [counts EXCEPT ![c] = {}]
  /\ UNCHANGED <<conn, request, cpc, zombies, file, failed>>

\* The forked process ends, and nobody waits for it.
Close(c) ==
  /\ hpc[c] = "close"
  /\ Hangup(c)
  /\ hpc' = [hpc EXCEPT ![c] = "none"]
  /\ zombies' = zombies + 1
  /\ UNCHANGED <<request, reply, cpc, size, file, ghosts>>

Serve(c) ==
  \/ Recv(c) \/ RecvNothing(c) \/ Load(c) \/ OpenFile(c) \/ AppendHeader(c)
  \/ Answer(c) \/ Close(c)

-----------------------------------------------------------------------------
\* The chain tool: opening the file empties it, closing it writes the genesis
\* header at its beginning, over whatever was appended in between.
ToolOpen ==
  /\ tool = "idle" /\ runs > 0
  /\ tool' = "opened" /\ runs' = runs - 1
  /\ chain' = <<>>
  /\ UNCHANGED <<socket, cpc, server, ghosts>>

ToolWrite ==
  /\ tool = "opened" /\ tool' = "idle"
  /\ chain' = <<Genesis>> \o SubSeq(chain, 2, Len(chain))
  /\ UNCHANGED <<socket, cpc, server, runs, ghosts>>

Next ==
  \/ \E c \in Client : ClientStep(c) \/ Vanish(c) \/ Again(c) \/ Accept(c) \/ Serve(c)
  \/ ToolOpen \/ ToolWrite

\* Every process runs; a peer that has connected may still say nothing.
Fairness ==
  \A c \in Client : /\ WF_vars(Accept(c)) /\ WF_vars(Serve(c))
                    /\ c \notin Peer => WF_vars(ClientStep(c))
                    /\ c \in Peer => WF_vars(Receive(c))

Spec == Init /\ [][Next]_vars /\ Fairness

-----------------------------------------------------------------------------
TypeOK ==
  /\ chain \in Seq(Client \cup {Genesis})
  /\ conn \in [Client -> {"none", "queued", "open", "closed", "reset"}]
  /\ request \in [Client -> Request \cup {None}]
  /\ reply \in [Client -> {"height", "ok", "other", None}]
  /\ cpc \in [Client -> {"start", "head1", "body1", "wait1", "mine", "head2",
                         "body2", "wait2", "done", "killed"}]
  /\ hpc \in [Client -> {"none", "recv", "load", "open", "append", "answer",
                         "unread", "ok", "other", "close"}]
  /\ size \in [Client -> Nat]
  /\ Procs <= MaxProcs
  /\ \A c \in Client : conn[c] = "open" <=> hpc[c] # "none"
  /\ tool \in {"idle", "opened"} /\ runs \in 0..Tools
  /\ acked \subseteq Client /\ failed \subseteq Client
  /\ counts \in [Client -> SUBSET Client]

Stored == {chain[i] : i \in DOMAIN chain}
Intact == tool = "idle" /\ runs = Tools

\* A header that was answered "ok" stays in the file, whichever processes
\* append to it at the same time, as long as the chain tool is not run and the
\* file could be opened and written.
AckedKept == Intact => acked \ failed \subseteq Stored

\* The height a client is told counts every header acknowledged before the file
\* was read.  A height that does not is the zero of a file that did not open.
HeightCounts ==
  Intact => \A c \in Client : hpc[c] \in {"answer", "unread"} =>
              \/ Cardinality(counts[c]) <= size[c]
              \/ hpc[c] = "unread" /\ size[c] = 0

\* The process table is never emptied: once every place of it holds a process
\* that has ended, no connection is served any more.
FullForGood == [][zombies = MaxProcs => zombies' = zombies /\ hpc' = hpc]_vars

\* Nobody waits for an answer for ever: it comes, or the connection is closed,
\* also when the node cannot fork.
NobodyWaits ==
  \A c \in Client : []<>(cpc[c] \notin {"wait1", "wait2"})

\* "requests height, ..., mines PoW, submits", and the node "just appends
\* headers": what a miner has sent off is appended.
MinedAppended ==
  \A c \in Miner : cpc[c] = "wait2" ~> c \in Stored
=============================================================================
