----------------------------- MODULE WebServer -----------------------------
(***************************************************************************)
(* The web server of iserver-linux, in its plain mode (--server http).     *)
(* One thread accepts a connection, reads a request line and headers,      *)
(* looks for the file, lets the .htaccess script change the outcome,       *)
(* counts the file, writes a header and then the body, and shuts its side  *)
(* of the connection down.  It never closes a connection it has accepted.  *)
(*                                                                         *)
(* The client of the connection that is served, and an editor of the       *)
(* document root, act between any two steps.  What a client says before    *)
(* it is served is read only then, so its conversation starts with Accept. *)
(***************************************************************************)
EXTENDS Integers, Sequences, FiniteSets

CONSTANTS
  Clients,     \* one connection each
  Texts,       \* files with an ending of request_cflags' list
  Binaries,    \* all other files
  Folder,      \* a directory below the document root
  Stem,        \* a name that is no file, but is one with an ending added
  NoName,      \* no name at all, before a `?` or the HTTP version
  Page,        \* that file
  Index,       \* the first index document, in Folder
  ErrorPage,   \* the file the script names for what is missing
  MaxFds,      \* descriptors left for connections and files
  Usual,       \* size of the files that are there at the start
  MaxSize,     \* largest size of a file
  Window,      \* what the kernel takes of a body whose client does not read
  MaxEdits,    \* changes of the document root
  MaxAhead     \* lines sent and not yet read

Files   == Texts \cup Binaries
Targets == Files \cup {Folder, Stem, NoName}
Absent  == -1
Methods == {"GET", "POST", "HEAD", "unknown"}  \* HEAD: or one of five more

ASSUME NamesAssumption ==
  /\ Texts \cap Binaries = {}
  /\ {Folder, Stem, NoName} \cap Files = {}
  /\ Folder # Stem /\ NoName \notin {Folder, Stem}
  /\ {Page, Index, ErrorPage} \subseteq Texts
  /\ MaxFds \in Nat \ {0} /\ MaxSize \in Nat /\ Usual \in 1..MaxSize
  /\ Window \in Nat /\ MaxEdits \in Nat /\ MaxAhead \in Nat \ {0}

\* A line as cread delivers it: a request line or a header, an empty one, or
\* more bytes than the buffer takes.
\* An odd name has `//`, `/\` or `./` in it, and stands for the same file.
\* What a refused request asks for is not looked at: one target stands for all.
Requests == {r \in [method : Methods, http : BOOLEAN, target : Targets,
                    odd : BOOLEAN] :
               /\ (r.http /\ r.method # "unknown") \/ (r.target = Page /\ ~r.odd)
               /\ r.odd => r.target # NoName}
NoRequest == [method |-> "unknown", http |-> FALSE, target |-> Page,
              odd |-> FALSE]

Asking(r) == [kind |-> "request", of |-> r]
Other(k)  == [kind |-> k, of |-> NoRequest]
LastKinds == {"blank", "long"}
FirstLines == {Asking(r) : r \in Requests} \cup {Other(k) : k \in LastKinds}
MoreLines  == {Other(k) : k \in LastKinds \cup {"header"}}

VARIABLES
  up,          \* the process lives
  pc,          \* where its thread is
  conn,        \* conn[c]: "none", "queued", "open" or "shut"
  cur,         \* the client that is served
  begun,       \* it has sent a first byte
  wire,        \* its lines that have not been read
  over,        \* it has sent an empty line, or one too long
  closed,      \* it has hung up
  reads,       \* it takes what it is sent
  req,         \* the request the server has accepted
  status,      \* s->status
  path,        \* request->PathTranslated
  length,      \* request->ContentLength
  body,        \* what the buffer holds, and has been sent at the end
  head,        \* header lines have been sent
  size,        \* size[f]: of each file, or Absent
  edits,       \* changes so far
  found,       \* ghost: size of the file when it was located, or Absent
  moved,       \* ghost: the document root has changed since then
  scripted     \* the .htaccess of the document root

talk   == <<begun, wire, over, closed, reads>>
answer == <<req, status, path, length, body, head, found>>
root   == <<size, edits>>
vars   == <<up, pc, conn, cur, talk, answer, root, moved, scripted>>

\* No script, one with a 404 line (and an end of line), one without.
Scripts == {"none", "pages", "bare"}

Present(f) == f \in Files /\ size[f] # Absent
Exists(f)  == f = Folder \/ Present(f)

\* No descriptor is ever given back: connections are shut down, not closed.
Taken   == Cardinality({c \in Clients : conn[c] \in {"open", "shut"}})
Full    == Taken >= MaxFds
CanOpen == ~Full

Init ==
  /\ up = TRUE /\ pc = "accept" /\ conn = [c \in Clients |-> "none"]
  /\ cur \in Clients
  /\ begun = FALSE /\ wire = <<>> /\ over = FALSE /\ closed = FALSE
  /\ reads = TRUE
  /\ req = NoRequest /\ status = 503 /\ path = Stem /\ length = 0
  /\ body = "none" /\ head = FALSE /\ found = Absent /\ moved = FALSE
  /\ size \in [Files -> {Absent, Usual}] /\ edits = 0
  /\ scripted \in Scripts
-----------------------------------------------------------------------------
(***************************************************************************)
(* Clients and the editor.                                                 *)
(***************************************************************************)

Connect(c) ==
  /\ conn[c] = "none" /\ up
  /\ conn' = [conn EXCEPT ![c] = "queued"]
  /\ UNCHANGED <<up, pc, cur, talk, answer, root, moved, scripted>>

Talking == up /\ pc # "accept" /\ ~closed

\* Bytes, but not yet a line: only the wait for the first byte can tell.
Begin ==
  /\ Talking /\ pc = "select" /\ ~begun
  /\ begun' = TRUE
  /\ UNCHANGED <<up, pc, conn, cur, wire, over, closed, reads, answer, root,
                 moved, scripted>>

\* The next line.  The first is a request line, or what the server takes for
\* one: a text that is none is a request with an unknown method.
Say(l) ==
  /\ Talking /\ Len(wire) < MaxAhead /\ ~over
  /\ begun' = TRUE
  /\ wire' = Append(wire, l)
  /\ over' = (l.kind \in LastKinds)
  /\ UNCHANGED <<up, pc, conn, cur, closed, reads, answer, root, moved,
                 scripted>>

HangUp ==
  /\ Talking
  /\ closed' = TRUE
  /\ UNCHANGED <<up, pc, conn, cur, begun, wire, over, reads, answer, root,
                 moved, scripted>>

\* The client stops or goes on reading what it is sent; before a body is sent
\* nobody can tell.
TurnReader ==
  /\ Talking /\ pc = "send"
  /\ reads' = ~reads
  /\ UNCHANGED <<up, pc, conn, cur, begun, wire, over, closed, answer, root,
                 moved, scripted>>

Edit(f, n) ==
  /\ edits < MaxEdits /\ size[f] # n
  /\ size' = [size EXCEPT ![f] = n]
  /\ edits' = edits + 1
  /\ moved' = (pc # "accept")
  /\ UNCHANGED <<up, pc, conn, cur, talk, answer, scripted>>

Others ==
  \/ \E c \in Clients : Connect(c)
  \/ Begin \/ HangUp \/ TurnReader
  \/ \E l \in IF pc \in {"select", "first"} /\ wire = <<>> THEN FirstLines
                                                           ELSE MoreLines : Say(l)
  \/ \E f \in Files, n \in {Absent} \cup 0..MaxSize : Edit(f, n)
-----------------------------------------------------------------------------
(***************************************************************************)
(* The server: cmodule and onserver.                                       *)
(***************************************************************************)

\* accept fails, and is tried again, while no descriptor is left.
Accept(c) ==
  /\ pc = "accept" /\ conn[c] = "queued" /\ ~Full
  /\ conn' = [conn EXCEPT ![c] = "open"]
  /\ cur' = c /\ pc' = "select"
  /\ UNCHANGED <<up, talk, answer, root, moved, scripted>>

Goto(p) == pc' = p /\ UNCHANGED <<up, conn, cur, root, moved, scripted>>

Readable == begun \/ closed

\* Variant: the select has no time limit.
SelectPatiently ==
  /\ pc = "select" /\ Readable
  /\ Goto("first") /\ UNCHANGED <<talk, answer>>

\* ctimem: the only wait with a limit is the one for the first byte.
Select ==
  /\ pc = "select"
  /\ IF Readable THEN Goto("first") /\ UNCHANGED answer
     ELSE Goto("done") /\ status' = 504
          /\ UNCHANGED <<req, path, length, body, head, found>>
  /\ UNCHANGED talk

\* cread: a line; nothing for one that is empty or too long, or when the
\* client has hung up.  It waits for the rest of a line as long as it takes.
CanRead == wire # <<>> \/ closed
GotLine == wire # <<>> /\ Head(wire).kind \notin LastKinds
TakeLine ==
  /\ wire' = IF wire = <<>> THEN wire ELSE Tail(wire)
  /\ UNCHANGED <<begun, over, closed, reads>>

\* Variant: only the method is looked at.
AcceptableAnyVersion(r) == r.method # "unknown"

\* request_client.
Acceptable(r) == r.http /\ r.method # "unknown"

\* The first line: nothing at all is answered to one that is refused.
ReadRequest ==
  /\ pc = "first" /\ CanRead /\ TakeLine
  /\ LET r == IF GotLine THEN Head(wire).of ELSE NoRequest
         ok == GotLine /\ Acceptable(r)
     IN /\ Goto(IF ok THEN "lines" ELSE "done")
        /\ req' = IF ok THEN r ELSE NoRequest
        /\ status' = IF ok THEN 503 ELSE IF GotLine THEN 504 ELSE 403
  /\ UNCHANGED <<path, length, body, head, found>>

\* The headers, to the first that cread does not deliver.
ReadHeader ==
  /\ pc = "lines" /\ CanRead /\ TakeLine
  /\ Goto(IF GotLine THEN "lines" ELSE "path")
  /\ UNCHANGED answer

\* request_path: the file that is meant.  Opening succeeds for a directory as
\* well, so that its index document is searched for only when no descriptor is
\* left to open with.
Meant(t) ==
  CASE t = Folder /\ ~CanOpen /\ Present(Index) -> Index
    [] t = Stem /\ Present(Page)                -> Page
    [] OTHER                                    -> t

\* The status of it.  request_checkfile has the last word: what is not there is
\* not found, a NULL path among it, nor is what has an odd name.
StatusOf(r) ==
  IF ~Exists(Meant(r.target)) \/ r.odd THEN 404
  ELSE IF Meant(r.target) = Folder /\ ~CanOpen THEN 100 ELSE 200

Locate ==
  /\ pc = "path"
  /\ status' = StatusOf(req) /\ path' = Meant(req.target)
  /\ pc' = "script"
  /\ found' = IF path' \in Files THEN size[path'] ELSE Absent
  /\ moved' = FALSE
  /\ UNCHANGED <<up, conn, cur, talk, req, length, body, head, root, scripted>>

Dies ==
  /\ up' = FALSE /\ pc' = "dead"
  /\ UNCHANGED <<conn, cur, talk, answer, root, moved, scripted>>

\* script_search and script_run: the script of the document root is looked at
\* whatever the status is, unless a directory is to be listed.  It leaves what
\* exists alone - and finds it, whatever its name looks like - and sends the
\* rest to its error page, or turns it away.
Script ==
  /\ pc = "script" /\ path # NoName
  /\ \/ /\ scripted = "none" \/ status = 100
        /\ Goto("measure") /\ UNCHANGED answer
     \/ /\ scripted # "none" /\ status # 100 /\ Exists(path)
        /\ Goto("measure")
        /\ status' = 200
        /\ UNCHANGED <<req, path, length, body, head, found>>
     \/ /\ scripted = "pages" /\ status # 100 /\ ~Exists(path)
        /\ pc' = "measure"
        /\ IF Present(ErrorPage)
             THEN /\ status' = 200 /\ path' = ErrorPage
                  /\ found' = size[ErrorPage] /\ moved' = FALSE
             ELSE UNCHANGED <<status, path, found, moved>>
        /\ UNCHANGED <<up, conn, cur, req, length, body, head, root, scripted>>
     \/ /\ scripted = "bare" \/ (scripted = "pages" /\ Full)
        /\ status # 100 /\ ~Exists(path)
        /\ Goto("done")
        /\ head' = TRUE /\ body' = "denied"
        /\ UNCHANGED <<req, status, path, length, found>>
  /\ UNCHANGED talk

\* script_startup keeps a pointer in 32 bits and asks malloc for as many bytes:
\* if it has not that many, the script is read from address 0.
ScriptDies ==
  /\ pc = "script" /\ scripted # "none" /\ status # 100 /\ path # NoName
  /\ Dies

\* script_search asks for the length of the path first.  Without a file name
\* cstring_newadd has made none.
NameDies == pc = "script" /\ path = NoName /\ Dies

\* Variant: the last byte is not counted.
MeasureLess ==
  /\ pc = "measure"
  /\ length' = IF status = 200 /\ Present(path) /\ CanOpen /\ size[path] > 0
                 THEN size[path] - 1 ELSE 0
  /\ Goto("header")
  /\ UNCHANGED <<talk, req, status, path, body, head, found>>

\* request_contentLength.
Measure ==
  /\ pc = "measure"
  /\ length' = IF status = 200 /\ Present(path) /\ CanOpen THEN size[path] ELSE 0
  /\ Goto("header")
  /\ UNCHANGED <<talk, req, status, path, body, head, found>>

\* The header says 200 whatever the status is; a directory gets its own.
Header ==
  /\ pc = "header"
  /\ status' = IF path = Folder THEN 100 ELSE status
  /\ head' = TRUE
  /\ Goto("body")
  /\ UNCHANGED <<talk, req, path, length, body, found>>

\* Variant: request_read returns what it was asked for, also for texts.
ReadBackLength ==
  IF length = 0 THEN "none"
  ELSE IF ~Present(path) \/ size[path] < length THEN "junk"
  ELSE IF length = size[path] THEN "whole" ELSE "cut"

\* request_read: for a text the number of bytes read is sent, for any other
\* file the number counted before, whatever the buffer holds behind the file.
ReadBack ==
  IF length = 0 THEN "none"
  ELSE IF ~Present(path) THEN IF path \in Texts THEN "none" ELSE "junk"
  ELSE IF size[path] < length
         THEN IF path \in Binaries THEN "junk"
              ELSE IF size[path] = 0 THEN "none" ELSE "whole"
  ELSE IF length = size[path] THEN "whole" ELSE "cut"

\* GET and POST load the file; a status other than 200 and 100 has an empty
\* page; the remaining methods have no body.
Load ==
  /\ pc = "body"
  /\ IF req.method \in {"GET", "POST"} /\ status = 200
       THEN body' = ReadBack /\ Goto("send")
       ELSE body' = body /\ Goto("done")
  /\ ~(req.method = "GET" /\ status = 100)
  /\ UNCHANGED <<talk, req, status, path, length, head, found>>

\* The functions that would list a directory have no return statement: what
\* is sent, how much of it, and whether freeing it ends the process, is
\* anybody's guess.
List ==
  /\ pc = "body" /\ req.method = "GET" /\ status = 100
  /\ body' = "listing"
  /\ \E p \in {"send", "done"} : Goto(p)
  /\ UNCHANGED <<talk, req, status, path, length, head, found>>

ListDies == pc = "body" /\ req.method = "GET" /\ status = 100 /\ Dies

\* cwrite: a body that the kernel does not take at once waits for the client.
CanSend ==
  body = "none" \/ (body # "listing" /\ length <= Window) \/ reads \/ closed

Send ==
  /\ pc = "send" /\ CanSend
  /\ Goto("done") /\ UNCHANGED <<talk, answer>>

\* Nothing handles SIGPIPE: writing to a client that is gone ends the process,
\* unless the kernel has not heard of it yet.
PipeDies ==
  /\ closed /\ Dies
  /\ \/ pc \in {"header", "send"}
     \/ /\ pc = "script" /\ scripted # "none" /\ status # 100
        /\ path # NoName /\ ~Exists(path)

\* cdone, and the end of onserver: the request is freed and the server starts
\* over.
Done ==
  /\ pc = "done"
  /\ conn' = [conn EXCEPT ![cur] = "shut"]
  /\ pc' = "accept"
  /\ begun' = FALSE /\ wire' = <<>> /\ over' = FALSE /\ closed' = FALSE
  /\ reads' = TRUE
  /\ req' = NoRequest /\ status' = 503 /\ path' = Stem /\ length' = 0
  /\ body' = "none" /\ head' = FALSE /\ found' = Absent /\ moved' = FALSE
  /\ UNCHANGED <<up, cur, root, scripted>>

Serve ==
  \/ \E c \in Clients : Accept(c)
  \/ Select \/ ReadRequest \/ ReadHeader \/ Locate \/ Script \/ ScriptDies \/ NameDies
  \/ Measure \/ Header \/ Load \/ List \/ ListDies \/ Send \/ PipeDies \/ Done
-----------------------------------------------------------------------------
Next == Serve \/ Others

\* The server's thread runs, and a body is through at last if its client takes
\* some of it again and again.  No client has to connect, to go on with a line,
\* to read or to hang up.
Spec == Init /\ [][Next]_vars /\ WF_vars(Serve) /\ SF_vars(Send)
-----------------------------------------------------------------------------
Places == {"accept", "select", "first", "lines", "path", "script", "measure",
           "header", "body", "send", "done", "dead"}

TypeOK ==
  /\ up \in BOOLEAN /\ pc \in Places /\ cur \in Clients
  /\ conn \in [Clients -> {"none", "queued", "open", "shut"}]
  /\ begun \in BOOLEAN /\ over \in BOOLEAN /\ closed \in BOOLEAN /\ reads \in BOOLEAN
  /\ wire \in Seq(FirstLines \cup MoreLines)
  /\ req \in Requests /\ status \in {100, 200, 403, 404, 503, 504}
  /\ path \in Targets /\ length \in 0..MaxSize
  /\ body \in {"none", "denied", "listing", "junk", "whole", "cut"}
  /\ head \in BOOLEAN /\ moved \in BOOLEAN /\ scripted \in Scripts
  /\ size \in [Files -> {Absent} \cup 0..MaxSize] /\ edits \in 0..MaxEdits
  /\ found \in {Absent} \cup 0..MaxSize

\* A client that has said something keeps the server waiting: for the end of
\* its request, which may be line after line, or for it to take a body that is
\* too large for the kernel.
Held ==
  \/ pc \in {"first", "lines"} /\ ~over /\ ~closed
  \/ pc = "send" /\ ~CanSend

\* Everybody who connects is served and let go, in spite of clients that stay
\* silent (if they have said nothing), hang up, or send nonsense: unless one
\* holds the server for good, the process has died, or the descriptors are
\* used up, which they are for ever.
Served ==
  []<>~Held =>
    \A c \in Clients :
      []<>(conn[c] \in {"none", "shut"} \/ ~up \/ (conn[c] = "queued" /\ Full))

Finished == pc = "done" /\ up

\* Who asks for a file that is there, and is not changed while the server
\* works on it, gets all of it - except over the connection that took the
\* last descriptor, and except for a file with an odd name where no script
\* finds it again: these get the header and no body.
WholeFile ==
  Finished /\ head /\ body # "denied" /\ req.method \in {"GET", "POST"}
    /\ found > 0 /\ ~moved /\ ~Full
  => body = IF req.odd /\ scripted = "none" THEN "none" ELSE "whole"

\* What is sent is the file and nothing else, also when it shrinks or goes
\* between counting and reading - except for binaries, where what follows the
\* shorter file in memory is sent as well.
NoForeignBytes == body = "junk" => moved /\ path \in Binaries

\* Nothing is sent before the client has ended its request or hung up, nor to
\* one whose request line was refused; and the process dies of nothing but a
\* client that is gone, or a request it has accepted: for a directory, for no
\* file at all, or where there is a script.
AnswersOnlyAsked ==
  /\ head => req.http /\ req.method # "unknown" /\ (over \/ closed)
  /\ ~up => \/ closed
            \/ /\ Acceptable(req)
               /\ \/ scripted # "none" \/ req.target = NoName
                  \/ req.method = "GET" /\ path = Folder
=============================================================================
