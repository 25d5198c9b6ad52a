--------------------------- MODULE BionicNodeProofs ---------------------------
(***************************************************************************)
(* The process table and the chain file of the node, for any number of     *)
(* clients and any size of the table.                                      *)
(***************************************************************************)
EXTENDS BionicNode, FiniteSetTheorems, SequenceTheorems, TLAPS

Alive(h) == {c \in Client : h[c] # "none"}

CPC == {"start", "head1", "body1", "wait1", "mine", "head2", "body2", "wait2",
        "done", "killed"}
HPC == {"none", "recv", "load", "open", "append", "answer", "unread", "ok", "other",
        "close"}
Conn == {"none", "queued", "open", "closed", "reset"}

-----------------------------------------------------------------------------
\* A process more and a process less.
LEMMA AliveFinite ==
  ASSUME NEW h
  PROVE  IsFiniteSet(Alive(h)) /\ Cardinality(Alive(h)) \in Nat
<1>1. Alive(h) \subseteq Client /\ IsFiniteSet(Client)
  BY NodeAssumption DEF Alive
<1>2. QED
  BY <1>1, FS_Subset, FS_CardinalityType

LEMMA OneMore ==
  ASSUME NEW h, NEW g, NEW c \in Client, h[c] = "none", g[c] # "none",
         \A d \in Client : d # c => g[d] = h[d]
  PROVE  Cardinality(Alive(g)) = Cardinality(Alive(h)) + 1
<1>1. Alive(g) = Alive(h) \cup {c} /\ c \notin Alive(h)
  BY DEF Alive
<1>2. QED
  BY <1>1, AliveFinite, FS_AddElement

LEMMA SameAlive ==
  ASSUME NEW h, NEW g, \A d \in Client : (g[d] = "none") <=> (h[d] = "none")
  PROVE  Alive(g) = Alive(h)
BY DEF Alive

\* The sockets and the processes that serve them.
Table == zombies + Cardinality(Alive(hpc))

LEMMA TableIsProcs == Procs = Table
BY DEF Procs, Table, Alive

\* TypeOK in two parts: what single variables hold, and the two facts that
\* relate several of them.
Shapes ==
  /\ chain \in Seq(Client \cup {Genesis})
  /\ conn \in [Client -> Conn] /\ request \in [Client -> Request \cup {None}]
  /\ reply \in [Client -> {"height", "ok", "other", None}]
  /\ cpc \in [Client -> CPC] /\ hpc \in [Client -> HPC]
  /\ size \in [Client -> Nat] /\ zombies \in Nat
  /\ tool \in {"idle", "opened"} /\ runs \in 0..Tools
  /\ acked \subseteq Client /\ failed \subseteq Client
  /\ counts \in [Client -> SUBSET Client]

Served == \A c \in Client : conn[c] = "open" <=> hpc[c] # "none"

Types == Shapes /\ Served /\ Table <= MaxProcs

LEMMA TypesGiveTypeOK == Types => TypeOK
BY TableIsProcs DEF Types, Shapes, Served, TypeOK, Conn, CPC, HPC

LEMMA InitTypes == Init => Types
<1> SUFFICES ASSUME Init PROVE Types
  OBVIOUS
<1>1. chain \in Seq(Client \cup {Genesis})
  <2>1. <<>> \in Seq(Client \cup {Genesis})
    BY EmptySeq
  <2>2. <<Genesis>> \in Seq(Client \cup {Genesis})
    OBVIOUS
  <2>3. QED
    BY <2>1, <2>2 DEF Init
<1>2. Shapes
  <2>1. conn \in [Client -> Conn] /\ cpc \in [Client -> CPC] /\ hpc \in [Client -> HPC]
    BY DEF Init, Conn, CPC, HPC
  <2>2. /\ request \in [Client -> Request \cup {None}]
        /\ reply \in [Client -> {"height", "ok", "other", None}]
    BY DEF Init
  <2>3. size \in [Client -> Nat] /\ counts \in [Client -> SUBSET Client]
    BY DEF Init
  <2>4. runs \in 0..Tools
    BY NodeAssumption DEF Init
  <2>5. QED
    BY <1>1, <2>1, <2>2, <2>3, <2>4 DEF Init, Shapes
<1>3. Served
  BY DEF Init, Served
<1>4. Alive(hpc) = {}
  BY DEF Init, Alive
<1>5. Table = 0
  <2>1. zombies = 0 /\ Cardinality(Alive(hpc)) = 0
    BY <1>4, FS_EmptySet DEF Init
  <2>2. QED
    BY <2>1 DEF Table
<1>6. QED
  BY <1>2, <1>3, <1>5, NodeAssumption DEF Types

\* A step that starts and ends no process leaves the table as it is.
LEMMA TableKept ==
  ASSUME Types, zombies' = zombies,
         \A d \in Client : (hpc'[d] = "none") <=> (hpc[d] = "none")
  PROVE  Table' <= MaxProcs
<1>1. Alive(hpc') = Alive(hpc)
  BY SameAlive
<1>2. Table' = zombies' + Cardinality(Alive(hpc'))
  BY DEF Table, Alive
<1>3. QED
  BY <1>1, <1>2 DEF Types, Table

LEMMA ClientTypes ==
  ASSUME Types, NEW c \in Client, ClientStep(c) \/ Vanish(c) \/ Again(c)
  PROVE  Types'
<1> USE DEF file, ghosts, socket, server
<1>1. UNCHANGED <<chain, tool, runs, acked, failed, counts, hpc, size, zombies>>
  BY DEF ClientStep, Connect, SendHead, SendBody, Receive, Mine, Vanish, Again
<1>2. Table' <= MaxProcs
  BY <1>1, TableKept
<1>3. cpc' \in [Client -> CPC]
  BY DEF ClientStep, Connect, SendHead, SendBody, Receive, Mine, Vanish, Again,
         Go, Types, Shapes, CPC
<1>4. conn' \in [Client -> Conn] /\ Served'
  <2>1. CASE Connect(c)
    BY <1>1, <2>1 DEF Connect, Types, Shapes, Served, Conn
  <2>2. CASE SendHead(c) \/ SendBody(c)
    <3>1. PICK w \in Wrote(c) : conn' = [conn EXCEPT ![c] = w]
      BY <2>2 DEF SendHead, SendBody
    <3>2. w \in Conn /\ (w = "open" <=> conn[c] = "open")
      BY <3>1 DEF Wrote, Types, Shapes, Conn
    <3>3. QED
      BY <1>1, <3>1, <3>2 DEF Types, Shapes, Served
  <2>3. CASE Receive(c) \/ Mine(c) \/ Vanish(c)
    BY <1>1, <2>3 DEF Receive, Mine, Vanish, Types, Shapes, Served
  <2>4. CASE Again(c)
    BY <1>1, <2>4 DEF Again, Types, Shapes, Served, Conn
  <2>5. QED
    BY <2>1, <2>2, <2>3, <2>4 DEF ClientStep
<1>5. request' \in [Client -> Request \cup {None}]
  <2>1. CASE SendBody(c)
    <3>1. Asks(c) \subseteq Request
      BY DEF Asks, Request
    <3>2. QED
      BY <2>1, <3>1 DEF SendBody, Types, Shapes
  <2>2. CASE ~SendBody(c)
    BY <2>2 DEF ClientStep, Connect, SendHead, Receive, Mine, Vanish, Again, Types, Shapes
  <2>3. QED
    BY <2>1, <2>2
<1>6. reply' \in [Client -> {"height", "ok", "other", None}]
  BY DEF ClientStep, Connect, SendHead, SendBody, Receive, Mine, Vanish, Again,
         Types, Shapes
<1>7. QED
  BY <1>1, <1>2, <1>3, <1>4, <1>5, <1>6 DEF Types, Shapes

LEMMA HangupConn ==
  ASSUME Shapes, NEW c \in Client, Hangup(c)
  PROVE  /\ conn' \in [Client -> Conn] /\ conn'[c] # "open"
         /\ \A d \in Client : d # c => conn'[d] = conn[d]
BY DEF Shapes, Hangup, Conn

LEMMA AcceptTypes == ASSUME Types, NEW c \in Client, Accept(c) PROVE Types'
<1> USE DEF file, ghosts
<1>1. UNCHANGED <<request, reply, cpc, size, zombies, chain, tool, runs, acked,
                  failed, counts>>
  BY DEF Accept
<1>2. conn[c] = "queued" /\ hpc[c] = "none"
  BY DEF Accept, Types, Served
<1>3. CASE Procs < MaxProcs
  <2>1. /\ conn' = [conn EXCEPT ![c] = "open"] /\ hpc' = [hpc EXCEPT ![c] = "recv"]
    BY <1>3 DEF Accept
  <2>2. conn' \in [Client -> Conn] /\ hpc' \in [Client -> HPC]
    BY <2>1 DEF Types, Shapes, Conn, HPC
  <2>3. /\ hpc'[c] = "recv" /\ conn'[c] = "open"
        /\ \A d \in Client : d # c => hpc'[d] = hpc[d] /\ conn'[d] = conn[d]
    BY <2>1 DEF Types, Shapes
  <2>4. Cardinality(Alive(hpc')) = Cardinality(Alive(hpc)) + 1
    BY <1>2, <2>3, OneMore
  <2>5. Table' = Table + 1
    <3>1. Table' = zombies' + Cardinality(Alive(hpc'))
      BY DEF Table, Alive
    <3>2. Cardinality(Alive(hpc)) \in Nat /\ zombies \in Nat
      BY AliveFinite DEF Types, Shapes
    <3>3. QED
      BY <1>1, <2>4, <3>1, <3>2 DEF Table
  <2>6. Table' <= MaxProcs
    <3>1. Table \in Nat /\ MaxProcs \in Nat
      BY AliveFinite, NodeAssumption DEF Table, Types, Shapes
    <3>2. QED
      BY <1>3, <2>5, <3>1, TableIsProcs
  <2>7. Served'
    BY <2>3 DEF Types, Served
  <2>8. QED
    BY <1>1, <2>2, <2>6, <2>7 DEF Types, Shapes
<1>4. CASE ~(Procs < MaxProcs)
  <2>1. Hangup(c) /\ hpc' = hpc
    BY <1>4 DEF Accept
  <2>2. /\ conn' \in [Client -> Conn] /\ conn'[c] # "open"
        /\ \A d \in Client : d # c => conn'[d] = conn[d]
    BY <2>1, HangupConn DEF Types
  <2>3. Served'
    BY <1>2, <2>1, <2>2 DEF Types, Served
  <2>4. QED
    BY <1>1, <2>1, <2>2, <2>3, TableKept DEF Types, Shapes
<1>5. QED
  BY <1>3, <1>4

LEMMA CloseTypes == ASSUME Types, NEW c \in Client, Close(c) PROVE Types'
<1> USE DEF file, ghosts
<1>1. UNCHANGED <<request, reply, cpc, size, chain, tool, runs, acked, failed,
                  counts>>
  BY DEF Close
<1>2. /\ hpc[c] = "close" /\ hpc' = [hpc EXCEPT ![c] = "none"]
      /\ zombies' = zombies + 1 /\ Hangup(c)
  BY DEF Close
<1>3. /\ conn' \in [Client -> Conn] /\ conn'[c] # "open"
      /\ \A d \in Client : d # c => conn'[d] = conn[d]
  BY <1>2, HangupConn DEF Types
<1>4. hpc' \in [Client -> HPC] /\ zombies' \in Nat
  BY <1>2 DEF Types, Shapes, HPC
<1>5. hpc'[c] = "none" /\ \A d \in Client : d # c => hpc'[d] = hpc[d]
  BY <1>2 DEF Types, Shapes
<1>6. Cardinality(Alive(hpc)) = Cardinality(Alive(hpc')) + 1
  BY <1>2, <1>5, OneMore
<1>7. Table' = Table
  <2>1. Table' = zombies' + Cardinality(Alive(hpc'))
    BY DEF Table, Alive
  <2>2. Cardinality(Alive(hpc')) \in Nat /\ zombies \in Nat
    BY AliveFinite DEF Types, Shapes
  <2>3. QED
    BY <1>2, <1>6, <2>1, <2>2 DEF Table
<1>8. Served'
  BY <1>3, <1>5 DEF Types, Served
<1>9. QED
  BY <1>1, <1>3, <1>4, <1>7, <1>8 DEF Types, Shapes

\* A process in the middle of a request.
LEMMA WorkTypes ==
  ASSUME Types, NEW c \in Client,
         Recv(c) \/ RecvNothing(c) \/ Load(c) \/ OpenFile(c) \/ AppendHeader(c)
           \/ Answer(c)
  PROVE  /\ Types'
         /\ \A d \in Client : d # c => hpc'[d] = hpc[d]
<1> USE DEF file, ghosts, socket
<1>1. UNCHANGED <<conn, cpc, zombies, tool, runs>>
  BY DEF Recv, RecvNothing, Load, OpenFile, AppendHeader, Answer
<1>2. PICK h \in HPC \ {"none"} : hpc' = [hpc EXCEPT ![c] = h]
  <2>1. CASE Recv(c)
    BY <2>1 DEF Recv, HPC
  <2>2. CASE RecvNothing(c) \/ Load(c) \/ AppendHeader(c) \/ Answer(c)
    BY <2>2 DEF RecvNothing, Load, AppendHeader, Answer, HPC
  <2>3. CASE OpenFile(c)
    BY <2>3 DEF OpenFile, HPC
  <2>4. QED
    BY <2>1, <2>2, <2>3
<1>3. hpc[c] # "none"
  BY DEF Recv, RecvNothing, Load, OpenFile, AppendHeader, Answer
<1>4. /\ hpc' \in [Client -> HPC] /\ hpc'[c] = h
      /\ \A d \in Client : d # c => hpc'[d] = hpc[d]
  BY <1>2 DEF Types, Shapes
<1>5. \A d \in Client : (hpc'[d] = "none") <=> (hpc[d] = "none")
  BY <1>2, <1>3, <1>4
<1>6. Served'
  BY <1>1, <1>5 DEF Types, Served
<1>7. Table' <= MaxProcs
  BY <1>1, <1>5, TableKept
<1>8. chain' \in Seq(Client \cup {Genesis})
  <2>1. CASE chain' = Append(chain, c)
    BY <2>1 DEF Types, Shapes
  <2>2. CASE chain' = chain
    BY <2>2 DEF Types, Shapes
  <2>3. QED
    BY <2>1, <2>2 DEF Recv, RecvNothing, Load, OpenFile, AppendHeader, Answer
<1>9. size' \in [Client -> Nat]
  <2>1. Len(chain) \in Nat
    BY DEF Types, Shapes
  <2>2. QED
    BY <2>1 DEF Recv, RecvNothing, Load, OpenFile, AppendHeader, Answer, Types, Shapes
<1>10. request' \in [Client -> Request \cup {None}]
  BY DEF Recv, RecvNothing, Load, OpenFile, AppendHeader, Answer, Types, Shapes
<1>11. /\ acked' \subseteq Client /\ failed' \subseteq Client
       /\ counts' \in [Client -> SUBSET Client]
  <2>1. acked \ failed \in SUBSET Client /\ {} \in SUBSET Client
    BY DEF Types, Shapes
  <2>2. CASE Load(c)
    BY <2>1, <2>2 DEF Load, Types, Shapes
  <2>3. CASE OpenFile(c)
    BY <2>3 DEF OpenFile, Types, Shapes
  <2>4. CASE Answer(c)
    BY <2>1, <2>4 DEF Answer, Types, Shapes
  <2>5. CASE Recv(c) \/ RecvNothing(c) \/ AppendHeader(c)
    BY <2>1, <2>5 DEF Recv, RecvNothing, AppendHeader, Types, Shapes
  <2>6. QED
    BY <2>2, <2>3, <2>4, <2>5
<1>12. reply' \in [Client -> {"height", "ok", "other", None}]
  <2>1. CASE Answer(c)
    <3>1. (IF hpc[c] \in {"answer", "unread"} THEN "height" ELSE hpc[c])
            \in {"height", "ok", "other"}
      BY <2>1 DEF Answer
    <3>2. QED
      BY <2>1, <3>1 DEF Answer, Types, Shapes
  <2>2. CASE ~Answer(c)
    BY <2>2 DEF Recv, RecvNothing, Load, OpenFile, AppendHeader, Types, Shapes
  <2>3. QED
    BY <2>1, <2>2
<1>13. QED
  BY <1>1, <1>4, <1>6, <1>7, <1>8, <1>9, <1>10, <1>11, <1>12 DEF Types, Shapes

LEMMA ToolTypes == ASSUME Types, ToolOpen \/ ToolWrite PROVE Types'
<1> USE DEF ghosts, socket, server
<1>1. UNCHANGED <<conn, request, reply, cpc, hpc, size, zombies, acked, failed, counts>>
  BY DEF ToolOpen, ToolWrite
<1>2. chain' \in Seq(Client \cup {Genesis})
  <2>1. CASE ToolOpen
    BY <2>1, EmptySeq DEF ToolOpen
  <2>2. CASE ToolWrite
    <3>1. chain \in Seq(Client \cup {Genesis}) /\ Len(chain) \in Nat
      BY DEF Types, Shapes
    <3>2. \A i \in 2..Len(chain) : chain[i] \in Client \cup {Genesis}
      BY <3>1
    <3>3. SubSeq(chain, 2, Len(chain)) \in Seq(Client \cup {Genesis})
      BY <3>1, <3>2, SubSeqProperties
    <3>4. <<Genesis>> \in Seq(Client \cup {Genesis})
      OBVIOUS
    <3>5. QED
      BY <2>2, <3>3, <3>4, ConcatProperties DEF ToolWrite
  <2>3. QED
    BY <2>1, <2>2
<1>3. tool' \in {"idle", "opened"} /\ runs' \in 0..Tools
  BY NodeAssumption DEF ToolOpen, ToolWrite, Types, Shapes
<1>4. Served'
  BY <1>1 DEF Types, Served
<1>5. Table' <= MaxProcs
  BY <1>1, TableKept
<1>6. QED
  BY <1>1, <1>2, <1>3, <1>4, <1>5 DEF Types, Shapes

LEMMA StepTypes == Types /\ [Next]_vars => Types'
<1> SUFFICES ASSUME Types, [Next]_vars PROVE Types'
  OBVIOUS
<1>1. CASE UNCHANGED vars
  <2>1. UNCHANGED <<chain, conn, request, reply, cpc, hpc, size, zombies, tool,
                    runs, acked, failed, counts>>
    BY <1>1 DEF vars
  <2>2. QED
    BY <2>1, TableKept DEF Types, Shapes, Served
<1>2. ASSUME NEW c \in Client,
             ClientStep(c) \/ Vanish(c) \/ Again(c) \/ Accept(c) \/ Serve(c)
      PROVE  Types'
  BY <1>2, ClientTypes, AcceptTypes, CloseTypes, WorkTypes DEF Serve
<1>3. CASE ToolOpen \/ ToolWrite
  BY <1>3, ToolTypes
<1>4. QED
  BY <1>1, <1>2, <1>3 DEF Next

\* Every variable of the node has its type; the process table never holds more
\* than it has places; and a socket is open exactly while a process serves it.
THEOREM TypeCorrect == Spec => []TypeOK
BY InitTypes, StepTypes, TypesGiveTypeOK, PTL DEF Spec

-----------------------------------------------------------------------------
\* A table full of ended processes has no place for one that serves.
LEMMA FullServesNone ==
  ASSUME Types, zombies = MaxProcs
  PROVE  /\ \A c \in Client : hpc[c] = "none"
         /\ ~(Procs < MaxProcs)
<1>1. IsFiniteSet(Alive(hpc)) /\ Cardinality(Alive(hpc)) \in Nat /\ MaxProcs \in Nat
  BY AliveFinite, NodeAssumption
<1>2. Cardinality(Alive(hpc)) = 0
  BY <1>1 DEF Types, Table
<1>3. Alive(hpc) = {}
  BY <1>1, <1>2, FS_EmptySet
<1>4. \A c \in Client : hpc[c] = "none"
  BY <1>3 DEF Alive
<1>5. ~(Procs < MaxProcs)
  BY <1>1, <1>2, TableIsProcs DEF Table
<1>6. QED
  BY <1>4, <1>5

LEMMA StepFull ==
  Types /\ [Next]_vars =>
    [zombies = MaxProcs => zombies' = zombies /\ hpc' = hpc]_vars
<1> SUFFICES ASSUME Types, Next, zombies = MaxProcs
             PROVE  zombies' = zombies /\ hpc' = hpc
  OBVIOUS
<1> USE DEF server
<1>1. (\A c \in Client : hpc[c] = "none") /\ ~(Procs < MaxProcs)
  BY FullServesNone
<1>2. ASSUME NEW c \in Client, ClientStep(c) \/ Vanish(c) \/ Again(c)
      PROVE  zombies' = zombies /\ hpc' = hpc
  BY <1>2 DEF ClientStep, Connect, SendHead, SendBody, Receive, Mine, Vanish, Again
<1>3. ASSUME NEW c \in Client, Accept(c)
      PROVE  zombies' = zombies /\ hpc' = hpc
  BY <1>1, <1>3 DEF Accept
<1>4. ASSUME NEW c \in Client, Serve(c) PROVE FALSE
  BY <1>1, <1>4 DEF Serve, Recv, RecvNothing, Load, OpenFile, AppendHeader, Answer,
                    Close
<1>5. CASE ToolOpen \/ ToolWrite
  BY <1>5 DEF ToolOpen, ToolWrite
<1>6. QED
  BY <1>2, <1>3, <1>4, <1>5 DEF Next

\* Once every place of the process table holds a process that has ended, no
\* connection is served any more, whatever the clients do.
THEOREM FullStays == Spec => FullForGood
<1>1. Spec => []Types
  BY InitTypes, StepTypes, PTL DEF Spec
<1>2. QED
  BY <1>1, StepFull, PTL DEF Spec, FullForGood

-----------------------------------------------------------------------------
(***************************************************************************)
(* Between the append and the answer it is the process that knows of the   *)
(* header: AckedKept is inductive only with the clients whose process is   *)
(* about to say "ok" included.                                             *)
(***************************************************************************)
FileInv ==
  /\ tool = "opened" => runs < Tools
  /\ Intact => /\ \A c \in Client : hpc[c] = "ok" => c \in failed \cup Stored
               /\ acked \subseteq failed \cup Stored
               /\ HeightCounts

\* A file holds at most as many different headers as headers.
LEMMA StoredBound ==
  ASSUME Types
  PROVE  IsFiniteSet(Stored) /\ Cardinality(Stored) <= Len(chain)
<1>1. Len(chain) \in Nat /\ DOMAIN chain = 1..Len(chain)
      /\ chain \in [1..Len(chain) -> Client \cup {Genesis}]
  BY LenProperties DEF Types, Shapes
<1>2. IsFiniteSet(1..Len(chain)) /\ Cardinality(1..Len(chain)) = Len(chain)
  BY <1>1, FS_Interval
<1>3. chain \in Surjection(1..Len(chain), Stored)
  <2>1. \A i \in 1..Len(chain) : chain[i] \in Stored
    BY <1>1 DEF Stored
  <2>2. chain \in [1..Len(chain) -> Stored]
    BY <1>1, <2>1
  <2>3. \A h \in Stored : \E i \in 1..Len(chain) : chain[i] = h
    BY <1>1 DEF Stored
  <2>4. QED
    BY <2>2, <2>3 DEF Surjection
<1>4. QED
  BY <1>2, <1>3, FS_Surjection

LEMMA StoredAppend ==
  ASSUME Types, NEW c \in Client, chain' = Append(chain, c)
  PROVE  c \in Stored' /\ Stored \subseteq Stored'
<1>1. /\ chain'[Len(chain) + 1] = c /\ \A i \in DOMAIN chain : chain'[i] = chain[i]
      /\ DOMAIN chain = 1..Len(chain) /\ DOMAIN chain' = 1..(Len(chain) + 1)
      /\ Len(chain) \in Nat
  BY DEF Types, Shapes
<1>2. Len(chain) + 1 \in DOMAIN chain' /\ DOMAIN chain \subseteq DOMAIN chain'
  BY <1>1
<1>3. QED
  BY <1>1, <1>2 DEF Stored

LEMMA InitFileInv == Init => FileInv
BY DEF Init, FileInv, HeightCounts

\* A step that neither touches the file nor lets a process reach its answer.
LEMMA FileKept ==
  ASSUME FileInv, UNCHANGED <<chain, tool, runs, acked, failed, counts, size>>,
         \A d \in Client :
           hpc'[d] \in {"ok", "answer", "unread"} => hpc'[d] = hpc[d]
  PROVE  FileInv'
<1>1. Stored' = Stored /\ (Intact' <=> Intact)
  BY DEF Stored, Intact
<1>2. QED
  BY <1>1 DEF FileInv, HeightCounts

LEMMA ClientKeepsFile ==
  ASSUME FileInv, NEW c \in Client, ClientStep(c) \/ Vanish(c) \/ Again(c)
  PROVE  FileInv'
<1>1. UNCHANGED <<chain, tool, runs, acked, failed, counts, size, hpc>>
  BY DEF ClientStep, Connect, SendHead, SendBody, Receive, Mine, Vanish, Again,
         file, ghosts, server
<1>2. QED
  BY <1>1, FileKept

LEMMA QuietKeepsFile ==
  ASSUME Types, FileInv, NEW c \in Client,
         Accept(c) \/ Recv(c) \/ RecvNothing(c) \/ Close(c)
  PROVE  FileInv'
<1> USE DEF file, ghosts, socket
<1>1. UNCHANGED <<chain, tool, runs, acked, failed, counts, size>>
  BY DEF Accept, Recv, RecvNothing, Close
<1>2. hpc' = hpc \/ \E h \in {"recv", "load", "open", "other", "close", "none"} :
                       hpc' = [hpc EXCEPT ![c] = h]
  <2>1. CASE Accept(c)
    BY <2>1 DEF Accept
  <2>2. CASE Recv(c)
    BY <2>2 DEF Recv
  <2>3. CASE RecvNothing(c) \/ Close(c)
    BY <2>3 DEF RecvNothing, Close
  <2>4. QED
    BY <2>1, <2>2, <2>3
<1>3. \A d \in Client : hpc'[d] \in {"ok", "answer", "unread"} => hpc'[d] = hpc[d]
  BY <1>2 DEF Types, Shapes
<1>4. QED
  BY <1>1, <1>3, FileKept

LEMMA LoadKeepsFile ==
  ASSUME Types, FileInv, NEW c \in Client, Load(c)
  PROVE  FileInv'
<1> USE DEF file, socket
<1>1. /\ \/ /\ hpc' = [hpc EXCEPT ![c] = "answer"]
            /\ size' = [size EXCEPT ![c] = Len(chain)]
         \/ /\ hpc' = [hpc EXCEPT ![c] = "unread"]
            /\ size' = [size EXCEPT ![c] = 0]
      /\ counts' = [counts EXCEPT ![c] = acked \ failed]
      /\ UNCHANGED <<chain, tool, runs, acked, failed>>
  BY DEF Load
<1>2. Stored' = Stored /\ (Intact' <=> Intact)
  BY <1>1 DEF Stored, Intact
<1>3. /\ \/ size'[c] = Len(chain) /\ hpc'[c] = "answer"
         \/ size'[c] = 0 /\ hpc'[c] = "unread"
      /\ counts'[c] = acked \ failed
      /\ \A d \in Client : d # c => /\ size'[d] = size[d] /\ hpc'[d] = hpc[d]
                                    /\ counts'[d] = counts[d]
  BY <1>1 DEF Types, Shapes
<1>4. Intact => Cardinality(acked \ failed) <= Len(chain)
  <2> SUFFICES ASSUME Intact PROVE Cardinality(acked \ failed) <= Len(chain)
    OBVIOUS
  <2>1. acked \ failed \subseteq Stored
    BY DEF FileInv
  <2>2. IsFiniteSet(Stored) /\ Cardinality(Stored) <= Len(chain)
    BY StoredBound
  <2>3. IsFiniteSet(acked \ failed) /\ Cardinality(acked \ failed) <= Cardinality(Stored)
    BY <2>1, <2>2, FS_Subset
  <2>4. /\ Cardinality(acked \ failed) \in Nat /\ Cardinality(Stored) \in Nat
        /\ Len(chain) \in Nat
    BY <2>2, <2>3, FS_CardinalityType DEF Types, Shapes
  <2>5. QED
    BY <2>2, <2>3, <2>4
<1>5. Intact => HeightCounts'
  BY <1>1, <1>2, <1>3, <1>4 DEF FileInv, HeightCounts
<1>6. QED
  BY <1>1, <1>2, <1>3, <1>5 DEF FileInv

LEMMA AppendKeepsFile ==
  ASSUME Types, FileInv, NEW c \in Client, OpenFile(c) \/ AppendHeader(c)
  PROVE  FileInv'
<1> USE DEF ghosts, socket
<1>1. /\ UNCHANGED <<tool, runs, acked, counts>> /\ (Intact' <=> Intact)
      /\ hpc'[c] \notin {"answer", "unread"}
      /\ \A d \in Client : d # c => hpc'[d] = hpc[d] /\ size'[d] = size[d]
  BY DEF OpenFile, AppendHeader, file, Intact, Types, Shapes
<1>2. Stored \subseteq Stored' /\ failed \subseteq failed'
  <2>1. CASE OpenFile(c)
    BY <2>1 DEF OpenFile, file, Stored
  <2>2. CASE AppendHeader(c)
    <3>1. failed \subseteq failed'
      BY <2>2 DEF AppendHeader
    <3>2. Stored \subseteq Stored'
      <4>1. CASE chain' = Append(chain, c)
        BY <4>1, StoredAppend
      <4>2. CASE chain' = chain
        BY <4>2 DEF Stored
      <4>3. QED
        BY <2>2, <4>1, <4>2 DEF AppendHeader
    <3>3. QED
      BY <3>1, <3>2
  <2>3. QED
    BY <2>1, <2>2
<1>3. hpc'[c] = "ok" => c \in failed' \cup Stored'
  <2>1. CASE OpenFile(c)
    BY <2>1 DEF OpenFile, Types, Shapes
  <2>2. CASE AppendHeader(c)
    <3>1. CASE chain' = Append(chain, c)
      BY <3>1, StoredAppend
    <3>2. CASE failed' = failed \cup {c}
      BY <3>2
    <3>3. QED
      BY <2>2, <3>1, <3>2 DEF AppendHeader
  <2>3. QED
    BY <2>1, <2>2
<1>4. Intact => HeightCounts'
  BY <1>1 DEF FileInv, HeightCounts
<1>5. QED
  BY <1>1, <1>2, <1>3, <1>4 DEF FileInv

LEMMA AnswerKeepsFile ==
  ASSUME Types, FileInv, NEW c \in Client, Answer(c)
  PROVE  FileInv'
<1> USE DEF file
<1>1. /\ UNCHANGED <<chain, tool, runs, failed>>
      /\ acked' \subseteq acked \cup (IF hpc[c] = "ok" THEN {c} ELSE {})
      /\ hpc' = [hpc EXCEPT ![c] = "close"]
      /\ size' = [size EXCEPT ![c] = 0] /\ counts' = [counts EXCEPT ![c] = {}]
  BY DEF Answer
<1>2. Stored' = Stored /\ (Intact' <=> Intact)
  BY <1>1 DEF Stored, Intact
<1>3. /\ hpc'[c] = "close"
      /\ \A d \in Client : d # c => /\ size'[d] = size[d] /\ hpc'[d] = hpc[d]
                                    /\ counts'[d] = counts[d]
  BY <1>1 DEF Types, Shapes
<1>4. Intact => acked' \subseteq failed' \cup Stored'
  BY <1>1, <1>2 DEF FileInv
<1>5. Intact => HeightCounts'
  BY <1>2, <1>3 DEF FileInv, HeightCounts
<1>6. QED
  BY <1>1, <1>2, <1>3, <1>4, <1>5 DEF FileInv

LEMMA StepFileInv == Types /\ FileInv /\ [Next]_vars => FileInv'
<1> SUFFICES ASSUME Types, FileInv, [Next]_vars PROVE FileInv'
  OBVIOUS
<1>1. CASE UNCHANGED vars
  BY <1>1, FileKept DEF vars
<1>2. ASSUME NEW c \in Client,
             ClientStep(c) \/ Vanish(c) \/ Again(c) \/ Accept(c) \/ Serve(c)
      PROVE  FileInv'
  BY <1>2, ClientKeepsFile, QuietKeepsFile, LoadKeepsFile, AppendKeepsFile,
     AnswerKeepsFile DEF Serve
<1>3. CASE ToolOpen
  <2>1. tool' = "opened" /\ runs' = runs - 1 /\ runs \in 0..Tools
    BY <1>3 DEF ToolOpen, Types, Shapes
  <2>2. runs' < Tools
    BY <2>1, NodeAssumption
  <2>3. ~Intact'
    BY <2>1 DEF Intact
  <2>4. QED
    BY <2>2, <2>3 DEF FileInv
<1>4. CASE ToolWrite
  <2>1. runs' = runs /\ tool' = "idle" /\ runs < Tools /\ runs \in Nat /\ Tools \in Nat
    BY <1>4, NodeAssumption DEF ToolWrite, FileInv, Types, Shapes
  <2>2. ~Intact'
    BY <2>1 DEF Intact
  <2>3. QED
    BY <2>1, <2>2 DEF FileInv
<1>5. QED
  BY <1>1, <1>2, <1>3, <1>4 DEF Next

LEMMA FileInvariant == Spec => []FileInv
<1>1. Init => Types /\ FileInv
  BY InitTypes, InitFileInv
<1>2. (Types /\ FileInv) /\ [Next]_vars => (Types /\ FileInv)'
  BY StepTypes, StepFileInv
<1>3. QED
  BY <1>1, <1>2, PTL DEF Spec

\* An acknowledged header stays in the file, however many processes append at
\* the same time, unless the file could not be opened or written, or the tool was run.
THEOREM AckedStay == Spec => []AckedKept
<1>1. FileInv => AckedKept
  BY DEF FileInv, AckedKept
<1>2. QED
  BY <1>1, FileInvariant, PTL

\* The height a client is told counts every header acknowledged before, or is
\* the zero of a file that did not open, for any number of clients.
THEOREM HeightsCount == Spec => []HeightCounts
<1>1. FileInv => HeightCounts
  BY DEF FileInv, HeightCounts
<1>2. QED
  BY <1>1, FileInvariant, PTL
=============================================================================
