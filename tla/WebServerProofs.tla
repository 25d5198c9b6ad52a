-------------------------- MODULE WebServerProofs --------------------------
(***************************************************************************)
(* The web server, for every document root, number of clients and sizes:   *)
(* type correctness, that only a request that has ended is answered, that  *)
(* a file that nobody touches is sent whole, and what else may be sent.    *)
(***************************************************************************)
EXTENDS WebServer, TLAPS

Lines == FirstLines \cup MoreLines

LEMMA LineOf == ASSUME NEW l \in Lines PROVE l.of \in Requests
<1>1. NoRequest \in Requests
  BY NamesAssumption DEF NoRequest, Requests, Methods, Targets, Files
<1>2. CASE \E r \in Requests : l = Asking(r)
  BY <1>2 DEF Asking
<1>3. CASE \E k \in LastKinds \cup {"header"} : l = Other(k)
  BY <1>1, <1>3 DEF Other
<1>4. QED
  BY <1>2, <1>3 DEF Lines, FirstLines, MoreLines

LEMMA Names ==
  /\ Stem \notin Files /\ Folder \notin Files /\ Folder # Stem
  /\ Page \in Files /\ Index \in Files /\ ErrorPage \in Files
  /\ ErrorPage \in Texts /\ Index \in Texts /\ Page \in Texts
  /\ \A t \in Texts : t \in Files /\ t \notin Binaries
  /\ NoName \notin Files /\ NoName \notin {Folder, Stem}
  /\ Files \subseteq Targets /\ {Stem, Folder, NoName} \subseteq Targets
  /\ NoRequest \in Requests /\ NoRequest.method = "unknown"
BY NamesAssumption DEF Files, Targets, NoRequest, Requests, Methods

\* What request_path finds: a status other than 404 for what is there and has
\* no odd name, the directory status only for the directory.
LEMMA LocatedWhat ==
  ASSUME NEW r \in Requests
  PROVE  /\ Meant(r.target) \in Targets /\ StatusOf(r) \in {100, 200, 404}
         /\ StatusOf(r) = 100 => Meant(r.target) = Folder
         /\ Present(Meant(r.target)) => StatusOf(r) = IF r.odd THEN 404 ELSE 200
         /\ Meant(r.target) = NoName => r.target = NoName
<1> USE Names
<1>1. r.target \in Targets
  BY DEF Requests
<1>2. /\ Meant(r.target) \in {r.target, Index, Page}
      /\ Meant(r.target) \in Targets
  BY <1>1 DEF Meant
<1>3. Present(Meant(r.target)) => Meant(r.target) # Folder /\ Exists(Meant(r.target))
  BY DEF Present, Exists
<1>4. Meant(r.target) = NoName => r.target = NoName
  BY <1>2
<1>5. QED
  BY <1>2, <1>3, <1>4 DEF StatusOf

LEMMA ReadBackWhat ==
  /\ ReadBack \in {"none", "junk", "whole", "cut"}
BY DEF ReadBack

-----------------------------------------------------------------------------
LEMMA InitTypeOK == Init => TypeOK
<1> SUFFICES ASSUME Init PROVE TypeOK
  OBVIOUS
<1>1. /\ 0 \in 0..MaxSize /\ 0 \in 0..MaxEdits /\ Usual \in 0..MaxSize
  BY NamesAssumption
<1>2. size \in [Files -> {Absent} \cup 0..MaxSize]
  BY <1>1 DEF Init
<1>3. /\ conn \in [Clients -> {"none", "queued", "open", "shut"}]
      /\ wire \in Seq(FirstLines \cup MoreLines)
  BY DEF Init
<1>4. /\ up \in BOOLEAN /\ pc \in Places /\ cur \in Clients
      /\ begun \in BOOLEAN /\ over \in BOOLEAN /\ closed \in BOOLEAN /\ reads \in BOOLEAN
      /\ head \in BOOLEAN /\ moved \in BOOLEAN /\ scripted \in Scripts
  BY DEF Init, Places
<1>5. /\ req \in Requests /\ path \in Targets
  BY Names DEF Init
<1>6. /\ status = 503 /\ length = 0 /\ body = "none" /\ found = Absent /\ edits = 0
  BY DEF Init
<1>7. QED
  BY <1>1, <1>2, <1>3, <1>4, <1>5, <1>6 DEF TypeOK

LEMMA StepTypeOK == TypeOK /\ [Next]_vars => TypeOK'
<1> SUFFICES ASSUME TypeOK, [Next]_vars PROVE TypeOK'
  OBVIOUS
<1> USE DEF TypeOK
<1>0. MaxSize \in Nat /\ MaxEdits \in Nat /\ 0 \in 0..MaxSize
  BY NamesAssumption
<1>a. pc' \in Places
  BY DEF Next, Serve, Others, Connect, Begin, Say, HangUp, TurnReader, Edit, Accept,
         Select, ReadRequest, ReadHeader, Locate, Script, ScriptDies, NameDies, Measure, Header,
         Load, List, ListDies, Send, PipeDies, Done, Dies, Goto, Places, vars
<1>1. CASE UNCHANGED vars
  BY <1>1 DEF vars, talk, answer, root
<1>2. ASSUME NEW c \in Clients, Connect(c) PROVE TypeOK'
  BY <1>a, <1>2 DEF Connect, talk, answer, root
<1>3. CASE Begin \/ HangUp \/ TurnReader
  <2>1. begun' \in BOOLEAN /\ closed' \in BOOLEAN /\ reads' \in BOOLEAN
    BY <1>3, ZenonT(90) DEF Begin, HangUp, TurnReader
  <2>2. UNCHANGED <<up, conn, cur, wire, over, req, status, path, length, body,
                    head, size, edits, found, moved, scripted>>
    BY <1>3 DEF Begin, HangUp, TurnReader, answer, root
  <2>3. QED
    BY <1>a, <2>1, <2>2
<1>4. ASSUME NEW l \in Lines, Say(l) PROVE TypeOK'
  <2>1. wire' \in Seq(FirstLines \cup MoreLines)
    BY <1>4 DEF Say, Lines
  <2>2. QED
    BY <1>a, <1>4, <2>1 DEF Say, answer, root
<1>5. ASSUME NEW f \in Files, NEW n \in {Absent} \cup 0..MaxSize, Edit(f, n)
      PROVE  TypeOK'
  <2>1. edits' \in 0..MaxEdits
    BY <1>0, <1>5 DEF Edit
  <2>2. QED
    BY <1>a, <1>5, <2>1 DEF Edit, talk, answer
<1>6. ASSUME NEW c \in Clients, Accept(c) PROVE TypeOK'
  BY <1>a, <1>6 DEF Accept, talk, answer, root
<1>7. CASE Select
  BY <1>a, <1>7 DEF Select, Goto, talk, answer, root
<1>8. CASE ReadRequest
  <2>1. req' \in Requests /\ status' \in {503, 504, 403}
    <3>1. GotLine => Head(wire).of \in Requests
      <4>1. wire # <<>> => Head(wire) \in Lines
        BY DEF Lines
      <4>2. QED
        BY <4>1, LineOf DEF GotLine
    <3>2. QED
      BY <1>8, <3>1, Names DEF ReadRequest
  <2>2. wire' \in Seq(FirstLines \cup MoreLines)
    BY <1>8 DEF ReadRequest, TakeLine
  <2>3. pc' \in {"lines", "done"}
    BY <1>8 DEF ReadRequest, Goto
  <2>4. QED
    BY <1>a, <1>8, <2>1, <2>2, <2>3 DEF ReadRequest, TakeLine, Goto, root
<1>9. CASE ReadHeader
  <2>1. wire' \in Seq(FirstLines \cup MoreLines)
    BY <1>9 DEF ReadHeader, TakeLine
  <2>2. QED
    BY <1>a, <1>9, <2>1 DEF ReadHeader, TakeLine, Goto, answer, root
<1>10. CASE Locate
  <2>2. status' \in {100, 200, 404} /\ path' \in Targets
    BY <1>10, LocatedWhat DEF Locate
  <2>3. found' \in {Absent} \cup 0..MaxSize
    BY <1>10 DEF Locate
  <2>4. moved' \in BOOLEAN
    BY <1>10 DEF Locate
  <2>5. UNCHANGED <<up, conn, cur, begun, wire, over, closed, reads, req, length,
                    body, head, size, edits, scripted>>
    BY <1>10 DEF Locate, talk, root
  <2>6. QED
    BY <1>a, <2>2, <2>3, <2>4, <2>5
<1>11. CASE Script
  <2>1. path' \in Targets /\ found' \in {Absent} \cup 0..MaxSize
        /\ status' \in {status, 200}
    BY <1>a, <1>11, Names DEF Script, Goto, answer
  <2>2. moved' \in BOOLEAN
    <3>1. moved' = moved \/ moved' = FALSE
      BY <1>11 DEF Script, Goto
    <3>2. QED
      BY <3>1
  <2>5. head' \in BOOLEAN
    <3>1. head' = head \/ head' = TRUE
      BY <1>11 DEF Script, answer
    <3>2. QED
      BY <3>1
  <2>6. body' \in {"denied", body}
    BY <1>11 DEF Script, answer
  <2>3. /\ UNCHANGED <<up, conn, cur, size, edits, scripted, req, length>>
        /\ UNCHANGED <<begun, wire, over, closed, reads>>
    BY <1>11 DEF Script, Goto, talk, answer, root
  <2>4. QED
    BY <1>a, <2>1, <2>2, <2>3, <2>5, <2>6
<1>12. CASE Measure
  <2>1. length' \in 0..MaxSize
    <3>1. Present(path) => size[path] \in 0..MaxSize
      BY DEF Present
    <3>2. QED
      BY <1>0, <1>12, <3>1 DEF Measure
  <2>2. QED
    BY <1>a, <1>12, <2>1 DEF Measure, Goto, talk, root
<1>13. CASE Header
  BY <1>a, <1>13, Names DEF Header, Goto, talk, root
<1>14. CASE Load
  <2>1. body' \in {"none", "denied", "listing", "junk", "whole", "cut"}
    BY <1>14, ReadBackWhat DEF Load
  <2>2. QED
    BY <1>a, <1>14, <2>1 DEF Load, Goto, talk, root
<1>15. CASE List
  BY <1>a, <1>15 DEF List, Goto, talk, root
<1>16. CASE Send
  BY <1>a, <1>16 DEF Send, Goto, talk, answer, root
<1>17. CASE Done
  <2>1. wire' \in Seq(FirstLines \cup MoreLines)
    BY <1>17 DEF Done
  <2>2. conn' \in [Clients -> {"none", "queued", "open", "shut"}]
    BY <1>17 DEF Done
  <2>3. QED
    BY <1>a, <1>0, <1>17, <2>1, <2>2, Names, ZenonT(30) DEF Done, root
<1>18. CASE Dies
  <2>1. up' \in BOOLEAN
    BY <1>18 DEF Dies
  <2>2. UNCHANGED <<conn, cur, begun, wire, over, closed, reads, req, status, path,
                    length, body, head, size, edits, found, moved, scripted>>
    BY <1>18 DEF Dies, talk, answer, root
  <2>3. QED
    BY <1>a, <2>1, <2>2
<1>19. QED
  BY <1>1, <1>2, <1>3, <1>4, <1>5, <1>6, <1>7, <1>8, <1>9, <1>10, <1>11, <1>12,
     <1>13, <1>14, <1>15, <1>16, <1>17, <1>18
     DEF Next, Serve, Others, ScriptDies, NameDies, ListDies, PipeDies, Lines

\* Every variable of the server, its client and the document root has its type.
THEOREM TypeCorrect == Spec => []TypeOK
BY InitTypeOK, StepTypeOK, PTL DEF Spec
-----------------------------------------------------------------------------
(***************************************************************************)
(* The conversation: what the server has read of it at each of its steps.  *)
(***************************************************************************)
Before == {"accept", "select", "first", "lines", "path", "script", "measure",
           "header"}
Asked  == {"path", "script", "measure", "header", "body", "send"}
Sought == {"script", "measure", "header", "body"}

\* A line that ends the request is the client's last.
LastIsLast == (\E i \in 1..Len(wire) : wire[i].kind \in LastKinds) => over

TalkInv ==
  /\ up <=> pc # "dead"
  /\ LastIsLast
  /\ pc \in {"lines"} \cup Asked => Acceptable(req)
  /\ pc \in Asked => over \/ closed
  /\ pc \in Before => ~head /\ body = "none"
  /\ pc \in Sought /\ status = 100 => path = Folder
  /\ pc = "script" /\ path = NoName => req.target = NoName
  /\ AnswersOnlyAsked

LEMMA InitTalkInv == Init => TalkInv
BY DEF Init, TalkInv, LastIsLast, Asked, Before, Sought, AnswersOnlyAsked

LEMMA StepTalkInv == TypeOK /\ TalkInv /\ [Next]_vars => TalkInv'
<1> SUFFICES ASSUME TypeOK, TalkInv, [Next]_vars PROVE TalkInv'
  OBVIOUS
<1> USE DEF TalkInv, Asked, Before, Sought, AnswersOnlyAsked, Acceptable
<1>1. CASE UNCHANGED vars
  BY <1>1 DEF vars, talk, answer, root, LastIsLast
<1>2. ASSUME NEW c \in Clients, Connect(c) PROVE TalkInv'
  BY <1>2 DEF Connect, talk, answer, root, LastIsLast
<1>3. CASE Begin \/ HangUp \/ TurnReader
  <2>1. UNCHANGED <<up, pc, wire, over, req, status, path, body, head, scripted>>
    BY <1>3 DEF Begin, HangUp, TurnReader, answer
  <2>2. closed => closed'
    BY <1>3 DEF Begin, HangUp, TurnReader
  <2>3. QED
    BY <2>1, <2>2 DEF LastIsLast
<1>4. ASSUME NEW l \in Lines, Say(l) PROVE TalkInv'
  <2>1. UNCHANGED <<up, pc, closed, req, status, path, body, head, scripted>>
    BY <1>4 DEF Say, answer
  <2>2. up /\ ~closed /\ ~over
    BY <1>4 DEF Say, Talking
  <2>3. LastIsLast'
    <3>1. /\ wire \in Seq(Lines) /\ wire' = Append(wire, l)
          /\ over' = (l.kind \in LastKinds)
      BY <1>4 DEF Say, TypeOK, Lines
    <3>2. ASSUME NEW i \in 1..Len(wire'), wire'[i].kind \in LastKinds
          PROVE  over'
      <4>1. CASE i \in 1..Len(wire)
        BY <2>2, <3>1, <3>2, <4>1 DEF LastIsLast
      <4>2. CASE i = Len(wire) + 1
        <5>1. wire'[i] = l
          BY <3>1, <4>2
        <5>2. QED
          BY <3>1, <3>2, <5>1
      <4>3. QED
        BY <3>1, <4>1, <4>2
    <3>3. QED
      BY <3>2 DEF LastIsLast
  <2>4. QED
    BY <2>1, <2>2, <2>3
<1>5. ASSUME NEW f \in Files, NEW n \in {Absent} \cup 0..MaxSize, Edit(f, n)
      PROVE  TalkInv'
  BY <1>5 DEF Edit, talk, answer, LastIsLast
<1>6. ASSUME NEW c \in Clients, Accept(c) PROVE TalkInv'
  BY <1>6 DEF Accept, talk, answer, root, LastIsLast
<1>7. CASE Select
  <2>1. UNCHANGED <<up, wire, over, closed, req, path, body, head, scripted>>
    BY <1>7 DEF Select, Goto, talk, answer
  <2>2. pc = "select" /\ pc' \in {"first", "done"}
    BY <1>7 DEF Select, Goto
  <2>3. QED
    BY <2>1, <2>2 DEF LastIsLast
<1>a. ASSUME TakeLine, CanRead PROVE LastIsLast' /\ (GotLine \/ over \/ closed)
  <2>1. wire \in Seq(Lines) /\ over' = over
    BY <1>a DEF TypeOK, Lines, TakeLine
  <2>2. CASE wire = <<>>
    BY <1>a, <2>1, <2>2 DEF TakeLine, CanRead, LastIsLast
  <2>3. CASE wire # <<>>
    <3>1. wire' = Tail(wire) /\ Len(wire) \in Nat /\ Len(wire) > 0
      BY <1>a, <2>1, <2>3 DEF TakeLine
    <3>2. \A i \in 1..Len(wire') : i + 1 \in 1..Len(wire) /\ wire'[i] = wire[i + 1]
      BY <2>1, <3>1
    <3>3. Head(wire) = wire[1] /\ 1 \in 1..Len(wire)
      BY <2>1, <3>1
    <3>4. QED
      BY <2>1, <2>3, <3>2, <3>3 DEF LastIsLast, GotLine
  <2>4. QED
    BY <2>2, <2>3
<1>8. CASE ReadRequest
  <2>1. LastIsLast'
    BY <1>8, <1>a DEF ReadRequest
  <2>2. pc = "first" /\ UNCHANGED <<up, over, closed, body, head, scripted, path>>
    BY <1>8 DEF ReadRequest, TakeLine, Goto
  <2>3. pc' \in {"lines", "done"} /\ (pc' = "lines" => Acceptable(req'))
    BY <1>8 DEF ReadRequest, Goto
  <2>4. QED
    BY <2>1, <2>2, <2>3
<1>9. CASE ReadHeader
  <2>1. LastIsLast' /\ (GotLine \/ over \/ closed)
    BY <1>9, <1>a DEF ReadHeader
  <2>2. pc = "lines" /\ UNCHANGED <<up, over, closed, req, status, path, body, head, scripted>>
    BY <1>9 DEF ReadHeader, TakeLine, Goto, answer
  <2>3. pc' = IF GotLine THEN "lines" ELSE "path"
    BY <1>9 DEF ReadHeader, Goto
  <2>4. QED
    BY <2>1, <2>2, <2>3
<1>10. CASE Locate
  <2>1. UNCHANGED <<up, wire, over, closed, req, body, head, scripted>>
    BY <1>10 DEF Locate, talk
  <2>2. /\ pc = "path" /\ pc' = "script" /\ (status' = 100 => path' = Folder)
        /\ path' = NoName => req.target = NoName
    <3>1. req \in Requests
      BY DEF TypeOK
    <3>2. QED
      BY <1>10, <3>1, LocatedWhat DEF Locate
  <2>3. QED
    BY <2>1, <2>2 DEF LastIsLast
<1>11. CASE Script
  <2>1. UNCHANGED <<up, wire, over, closed, req, scripted>>
    BY <1>11 DEF Script, Goto, talk, answer
  <2>2. pc = "script" /\ pc' \in {"measure", "done"}
    BY <1>11 DEF Script, Goto
  <2>3. pc' = "measure" => UNCHANGED <<head, body>>
    BY <1>11 DEF Script, Goto, answer
  <2>4. status' = 100 => UNCHANGED <<status, path>>
    <3>1. status' = 200 \/ UNCHANGED <<status, path>>
      BY <1>11, Zenon DEF Script, answer
    <3>2. QED
      BY <3>1
  <2>5. QED
    BY <2>1, <2>2, <2>3, <2>4 DEF LastIsLast
<1>12. CASE Measure
  BY <1>12 DEF Measure, Goto, talk, LastIsLast
<1>13. CASE Header
  BY <1>13 DEF Header, Goto, talk, LastIsLast
<1>14. CASE Load
  BY <1>14 DEF Load, Goto, talk, LastIsLast
<1>15. CASE List
  BY <1>15 DEF List, Goto, talk, LastIsLast
<1>16. CASE Send
  BY <1>16 DEF Send, Goto, talk, answer, LastIsLast
<1>17. CASE Done
  <2>1. wire' = <<>> /\ pc' = "accept" /\ up' = up /\ pc # "dead"
    BY <1>17 DEF Done
  <2>2. head' = FALSE /\ body' = "none"
    BY <1>17 DEF Done
  <2>3. QED
    BY <2>1, <2>2 DEF LastIsLast
<1>18. CASE ScriptDies \/ NameDies \/ ListDies \/ PipeDies
  <2>1. /\ UNCHANGED <<wire, over, closed, req, status, path, body, head, scripted>>
        /\ up' = FALSE /\ pc' = "dead"
    BY <1>18 DEF ScriptDies, NameDies, ListDies, PipeDies, Dies, talk, answer
  <2>2. \/ closed
        \/ /\ Acceptable(req)
           /\ \/ scripted # "none" \/ req.target = NoName
              \/ req.method = "GET" /\ path = Folder
    BY <1>18 DEF ScriptDies, NameDies, ListDies, PipeDies
  <2>3. QED
    BY <2>1, <2>2 DEF LastIsLast
<1>19. QED
  BY <1>1, <1>2, <1>3, <1>4, <1>5, <1>6, <1>7, <1>8, <1>9, <1>10, <1>11, <1>12,
     <1>13, <1>14, <1>15, <1>16, <1>17, <1>18 DEF Next, Serve, Others, Lines

\* The invariant AnswersOnlyAsked: nothing is sent before the request has ended
\* or its client hung up, nor to one that was refused, and the process dies of
\* nothing but a client that is gone, or an accepted request for a directory,
\* for no file at all, or where there is a script.
THEOREM OnlyAsked == Spec => []AnswersOnlyAsked
<1>1. TalkInv => AnswersOnlyAsked
  BY DEF TalkInv
<1>2. QED
  BY <1>1, InitTypeOK, StepTypeOK, InitTalkInv, StepTalkInv, PTL DEF Spec
-----------------------------------------------------------------------------
(***************************************************************************)
(* The file: what was found, what was counted, and what is sent of it.     *)
(***************************************************************************)

\* Until the document root moves, found is the size of the file in path.
StillThere == ~moved => found = IF path \in Files THEN size[path] ELSE Absent

\* A file with an odd name that no script finds again.
Denied == req.odd /\ scripted = "none"

\* A file that was there when it was looked for is served as one, but for its
\* odd name; a script finds it all the same.
FoundServed ==
  pc \in Sought /\ ~moved /\ found > 0
  => status = IF Denied \/ (pc = "script" /\ req.odd) THEN 404 ELSE 200

\* What was counted is the file, and all of it if it could be opened.
Counted ==
  pc \in {"header", "body"} =>
    /\ length # 0 => path \in Files /\ (~moved => length = size[path])
    /\ ~moved /\ found > 0 /\ ~Full => length = IF Denied THEN 0 ELSE found

SentWhole ==
  pc \in {"send", "done"} /\ head /\ body # "denied"
    /\ req.method \in {"GET", "POST"} /\ found > 0 /\ ~moved /\ ~Full
  => body = IF Denied THEN "none" ELSE "whole"

FileInv ==
  /\ pc = "accept" => path = Stem /\ found = Absent
  /\ pc = "body" => body = "none"
  /\ StillThere /\ FoundServed /\ Counted /\ SentWhole /\ NoForeignBytes

LEMMA InitFileInv == Init => FileInv
BY Names DEF Init, FileInv, StillThere, FoundServed, Counted, SentWhole,
             NoForeignBytes, Sought

\* Who connects takes no descriptor.
LEMMA SameRoom ==
  ASSUME NEW c \in Clients, TypeOK, Connect(c)
  PROVE  Full' <=> Full
<1>1. \A d \in Clients : conn'[d] = IF d = c THEN "queued" ELSE conn[d]
  BY DEF Connect, TypeOK
<1>2. conn[c] = "none"
  BY DEF Connect
<1>3. {d \in Clients : conn'[d] \in {"open", "shut"}}
        = {d \in Clients : conn[d] \in {"open", "shut"}}
  BY <1>1, <1>2
<1>4. QED
  BY <1>3 DEF Full, Taken

\* A text is sent only as far as it is read; what is counted and not there any
\* more is sent of a binary.
LEMMA ReadBackFile ==
  ASSUME TypeOK, FileInv, pc = "body"
  PROVE  /\ ReadBack = "junk" => moved /\ path \in Binaries
         /\ ~moved /\ found > 0 /\ ~Full /\ ~Denied => ReadBack = "whole"
<1> USE DEF FileInv, Counted, StillThere, TypeOK
<1>1. path \in Files => size[path] \in {Absent} \cup 0..MaxSize
  OBVIOUS
<1>2. length \in 0..MaxSize /\ MaxSize \in Nat
  BY NamesAssumption
<1>3. ASSUME ReadBack = "junk" PROVE moved /\ path \in Binaries
  <2>1. length # 0
    BY <1>3 DEF ReadBack
  <2>2. path \in Files /\ (~moved => length = size[path])
    BY <2>1
  <2>3. ~Present(path) \/ size[path] < length
    BY <1>3, <2>1 DEF ReadBack
  <2>4. moved
    BY <1>1, <1>2, <2>2, <2>3 DEF Present, Absent
  <2>5. path \in Binaries
    BY <1>3, <2>1, <2>2 DEF ReadBack, Files
  <2>6. QED
    BY <2>4, <2>5
<1>4. ASSUME ~moved, found > 0, ~Full, ~Denied PROVE ReadBack = "whole"
  <2>1. length = found /\ length # 0
    BY <1>2, <1>4
  <2>2. path \in Files /\ length = size[path]
    BY <1>4, <2>1
  <2>3. Present(path) /\ ~(size[path] < length)
    BY <1>2, <2>2 DEF Present, Absent
  <2>4. QED
    BY <2>1, <2>2, <2>3 DEF ReadBack
<1>5. QED
  BY <1>3, <1>4

LEMMA StepFileInv == TypeOK /\ TalkInv /\ FileInv /\ [Next]_vars => FileInv'
<1> SUFFICES ASSUME TypeOK, TalkInv, FileInv, [Next]_vars PROVE FileInv'
  OBVIOUS
<1> USE DEF FileInv, StillThere, FoundServed, Counted, SentWhole, NoForeignBytes, Sought, Denied
<1>a. /\ pc \in Before => ~head /\ body = "none"
      /\ up => pc # "dead"
  BY DEF TalkInv
<1>b. conn' = conn => (Full' <=> Full)
  BY DEF Full, Taken
<1>c. ASSUME UNCHANGED <<pc, path, found, moved, size, status, length, body, head, req,
                         scripted>>,
             Full' <=> Full
      PROVE  FileInv'
  BY <1>c
<1>1. CASE UNCHANGED vars
  BY <1>1, <1>b, <1>c DEF vars, answer, root
<1>2. ASSUME NEW c \in Clients, Connect(c) PROVE FileInv'
  BY <1>2, <1>c, SameRoom DEF Connect, answer, root
<1>3. CASE Begin \/ HangUp \/ TurnReader
  BY <1>3, <1>b, <1>c DEF Begin, HangUp, TurnReader, answer, root
<1>4. ASSUME NEW l \in Lines, Say(l) PROVE FileInv'
  BY <1>4, <1>b, <1>c DEF Say, answer, root
<1>5. ASSUME NEW f \in Files, NEW n \in {Absent} \cup 0..MaxSize, Edit(f, n)
      PROVE  FileInv'
  <2>1. UNCHANGED <<pc, path, found, status, length, body, head, req, scripted>>
    BY <1>5 DEF Edit, answer
  <2>2. pc # "accept" => moved'
    BY <1>5 DEF Edit
  <2>3. pc = "accept" => path = Stem /\ found = Absent /\ body = "none"
    BY <1>a DEF Before
  <2>4. QED
    BY <2>1, <2>2, <2>3, Names
<1>6. ASSUME NEW c \in Clients, Accept(c) PROVE FileInv'
  <2>1. UNCHANGED <<path, found, moved, size, body>> /\ pc = "accept" /\ pc' = "select"
    BY <1>6 DEF Accept, answer, root
  <2>2. QED
    BY <2>1
<1>7. CASE Select \/ ReadRequest \/ ReadHeader
  <2>1. UNCHANGED <<path, found, moved, size, body, head, scripted>>
    BY <1>7 DEF Select, ReadRequest, ReadHeader, Goto, answer, root
  <2>2. pc \in Before /\ pc' \in {"first", "done", "lines", "path"}
    BY <1>7 DEF Select, ReadRequest, ReadHeader, Goto, Before
  <2>3. QED
    BY <1>a, <2>1, <2>2
<1>8. CASE Locate
  <2>1. UNCHANGED <<body, size>> /\ body = "none" /\ pc' = "script"
    BY <1>8, <1>a DEF Locate, root, Before
  <2>2. found' = IF path' \in Files THEN size[path'] ELSE Absent
    BY <1>8 DEF Locate
  <2>3. Present(path') => status' = IF req.odd THEN 404 ELSE 200
    <3>1. req \in Requests
      BY DEF TypeOK
    <3>2. QED
      BY <1>8, <3>1, LocatedWhat DEF Locate
  <2>4. found' > 0 => Present(path')
    BY <2>2 DEF Present, Absent
  <2>5. UNCHANGED <<req, scripted>>
    BY <1>8 DEF Locate
  <2>6. QED
    BY <2>1, <2>2, <2>3, <2>4, <2>5
<1>9. CASE Script
  <2>1. /\ UNCHANGED <<size, head, body>> \/ (pc' = "done" /\ body' = "denied")
        /\ body = "none" /\ pc' \in {"measure", "done"} /\ size' = size
    BY <1>9, <1>a DEF Script, Goto, answer, root, Before
  <2>2. pc = "script" /\ UNCHANGED <<req, scripted>>
    BY <1>9 DEF Script, Goto, answer
  <2>3. ~moved /\ found > 0 => Exists(path)
    BY DEF Exists, Present, Absent
  <2>4. \/ UNCHANGED <<path, found, moved>>
        \/ path' = ErrorPage /\ found' = size[ErrorPage]
    BY <1>9 DEF Script, Goto, answer
  <2>5. ASSUME pc' = "measure", ~moved', found' > 0
        PROVE  status' = IF Denied THEN 404 ELSE 200
    <3>1. CASE /\ scripted = "none" \/ status = 100
               /\ UNCHANGED <<status, moved, found>>
      BY <2>2, <2>5, <3>1
    <3>2. CASE scripted # "none" /\ status' = 200
      BY <3>2
    <3>3. CASE ~Exists(path) /\ UNCHANGED <<moved, found>>
      BY <2>3, <2>5, <3>3
    <3>4. QED
      BY <1>9, <2>5, <3>1, <3>2, <3>3 DEF Script, Goto, answer
  <2>6. QED
    BY <1>a, <2>1, <2>2, <2>4, <2>5, Names DEF Before
<1>10. CASE Measure
  <2>1. UNCHANGED <<path, found, moved, size, status, body, req, scripted>>
        /\ pc = "measure" /\ pc' = "header"
    BY <1>10 DEF Measure, Goto, root
  <2>2. length' = IF status = 200 /\ Present(path) /\ CanOpen THEN size[path] ELSE 0
    BY <1>10 DEF Measure
  <2>3. Full' <=> Full
    BY <1>10, <1>b DEF Measure, Goto
  <2>4. length' # 0 => path \in Files /\ length' = size[path]
    BY <2>2 DEF Present
  <2>5. ASSUME ~moved, found > 0, ~Full
        PROVE  length' = IF Denied THEN 0 ELSE found
    <3>1. /\ status = IF Denied THEN 404 ELSE 200
          /\ found = size[path] /\ path \in Files
      BY <2>1, <2>5 DEF Absent
    <3>2. Present(path) /\ CanOpen
      BY <2>5, <3>1 DEF Present, Absent, CanOpen
    <3>3. QED
      BY <2>2, <3>1, <3>2
  <2>6. QED
    BY <2>1, <2>3, <2>4, <2>5
<1>11. CASE Header
  <2>1. UNCHANGED <<path, found, moved, size, length, body, req, scripted>>
        /\ pc = "header" /\ pc' = "body"
    BY <1>11 DEF Header, Goto, root
  <2>2. status' = IF path = Folder THEN 100 ELSE status
    BY <1>11 DEF Header
  <2>3. Full' <=> Full
    BY <1>11, <1>b DEF Header, Goto
  <2>4. ~moved /\ found > 0 => path # Folder
    BY Names DEF Absent
  <2>5. body = "none"
    BY <1>a, <2>1 DEF Before
  <2>6. QED
    BY <2>1, <2>2, <2>3, <2>4, <2>5
<1>12. CASE Load \/ List
  <2>1. UNCHANGED <<path, found, moved, size, req, status, scripted>> /\ pc = "body"
        /\ pc' \in {"send", "done"}
    BY <1>12 DEF Load, List, Goto, root
  <2>2. Full' <=> Full
    BY <1>12, <1>b DEF Load, List, Goto
  <2>3. \/ body' = ReadBack
        \/ body' = body /\ ~(req.method \in {"GET", "POST"} /\ status = 200)
        \/ body' = "listing" /\ status = 100
    BY <1>12 DEF Load, List
  <2>4. ASSUME ~moved, found > 0, ~Full, Denied PROVE body' = "none"
    <3>1. length = 0 /\ status = 404 /\ body = "none"
      BY <2>1, <2>4
    <3>2. ReadBack = "none"
      BY <3>1 DEF ReadBack
    <3>3. QED
      BY <2>3, <3>1, <3>2
  <2>5. ASSUME ~moved, found > 0, ~Full, ~Denied,
               req.method \in {"GET", "POST"}
        PROVE  body' = "whole"
    BY <2>1, <2>3, <2>5, ReadBackFile
  <2>6. body' = "junk" => moved /\ path \in Binaries
    BY <2>1, <2>3, ReadBackFile
  <2>7. QED
    BY <2>1, <2>2, <2>4, <2>5, <2>6
<1>13. CASE Send
  <2>1. UNCHANGED <<path, found, moved, size, req, status, body, head, scripted>> /\ pc = "send"
        /\ pc' = "done"
    BY <1>13 DEF Send, Goto, answer, root
  <2>2. Full' <=> Full
    BY <1>13, <1>b DEF Send, Goto
  <2>3. QED
    BY <2>1, <2>2
<1>14. CASE Done
  <2>1. path' = Stem /\ found' = Absent /\ body' = "none" /\ pc' = "accept"
    BY <1>14 DEF Done
  <2>2. QED
    BY <2>1, Names
<1>15. CASE Dies
  <2>1. UNCHANGED <<path, found, moved, size, body>> /\ pc' = "dead"
    BY <1>15 DEF Dies, answer, root
  <2>2. QED
    BY <2>1
<1>16. QED
  BY <1>1, <1>2, <1>3, <1>4, <1>5, <1>6, <1>7, <1>8, <1>9, <1>10, <1>11, <1>12,
     <1>13, <1>14, <1>15
     DEF Next, Serve, Others, Lines, ScriptDies, NameDies, ListDies, PipeDies

\* The invariant WholeFile: who asks for a file that is there, and that nobody
\* touches meanwhile, gets all of it, unless no descriptor was left to open it
\* or its name is odd and no script finds it again: then nothing of it.
THEOREM WholeFileSent == Spec => []WholeFile
<1>1. FileInv => WholeFile
  BY DEF FileInv, SentWhole, WholeFile, Finished, Denied
<1>2. QED
  BY <1>1, InitTypeOK, StepTypeOK, InitTalkInv, StepTalkInv, InitFileInv, StepFileInv,
     PTL DEF Spec

\* The invariant NoForeignBytes: what else is sent follows a binary that was
\* changed while it was served.
THEOREM NothingForeign == Spec => []NoForeignBytes
<1>1. FileInv => NoForeignBytes
  BY DEF FileInv
<1>2. QED
  BY <1>1, InitTypeOK, StepTypeOK, InitTalkInv, StepTalkInv, InitFileInv, StepFileInv,
     PTL DEF Spec
=============================================================================
