------------------------------- MODULE HciEmu -------------------------------
(***************************************************************************)
(* library/libvbt: hciemu.c, btdev.c, bthost.c.  Two emulated Bluetooth    *)
(* controllers in one process, the master with the kernel as its host, the *)
(* client with a small host stack, bthost.  The main loop of the process   *)
(* handles one packet at a time; the packets wait in sockets.  The kernel  *)
(* is not part of the repository: it sends one command at a time, as the   *)
(* controllers ask, and of what it does is kept what they can tell.        *)
(*                                                                         *)
(* A packet is its kind.  Every connection has the handle 42.              *)
(***************************************************************************)
EXTENDS Naturals, Sequences, FiniteSets

CONSTANTS
    Type,       \* of both controllers: "bredr", "le" or "bredrle"
    Commands,   \* those the kernel gives
    Calls,      \* what a test calls of bthost, once
    Sent,       \* the data it sends
    Given, Spoken,  \* bounds: how many commands and data packets the kernel sends
    Cap         \* packets for the hosts beyond which it waits

ASSUME EmuAssumption == /\ Type \in {"bredr", "le", "bredrle"}
                        /\ {Given, Spoken, Cap} \subseteq Nat
                        /\ Calls \subseteq {"scan_on", "adv_on", "create", "le_create"}

VARIABLES
    linked,     \* conn # NULL, which then is the other controller
    scan,       \* scan_enable & 0x02
    adv, lescan,    \* le_adv_enable, le_scan_enable
    toDev, toHost,  \* the sockets
    crashed,    \* a null pointer was followed
    started, ncmd, tail,    \* bthost: its command credit and cmd_q.tail
    conns,      \* bthost: the entries for the handle, newest first, with their channels
    call, called,   \* the test's; it was made
    kcmd,       \* the kernel: the command it waits to be answered
    kwait,      \* the connection it waits for
    kreq,       \* it has a connection request to answer
    klink, kdisc,   \* its connection; asked to be closed
    kacl,       \* it may send a data packet
    kchan,      \* its channel to bthost
    kleft,      \* the commands and the data packets it may still send
    kasked,     \* it has a channel request to answer
    overlaid,   \* history: a connection took over another one, or what was sent on it
    refused,    \* history: bthost did not know a channel it had granted
    unheard,    \* history: data came to bthost without an entry for it
    forgot      \* history: the kernel has reset its controller

Devices == {"master", "client"}
Peer(d) == IF d = "master" THEN "client" ELSE "master"
None == "none"

device == <<linked, scan, adv, lescan, crashed, overlaid>>
queue == <<ncmd, tail>>
bthost == <<started, conns, call, called, refused, unheard>>
kernel == <<kcmd, kwait, kreq, klink, kdisc, kacl, kchan, kasked, kleft, forgot>>
vars == <<device, toDev, toHost, queue, bthost, kernel>>

Init ==
    /\ linked = [d \in Devices |-> FALSE] /\ scan = [d \in Devices |-> FALSE]
    /\ adv = [d \in Devices |-> FALSE] /\ lescan = [d \in Devices |-> FALSE]
    /\ toDev = [d \in Devices |-> <<>>] /\ toHost = [d \in Devices |-> <<>>]
    /\ crashed = FALSE
    /\ started = FALSE /\ ncmd = 0 /\ tail = None
    /\ conns = <<>> /\ call \in Calls /\ called = FALSE
    /\ kcmd = None /\ kwait = None /\ kreq = FALSE /\ klink = None /\ kdisc = FALSE
    /\ kacl = TRUE /\ kchan = None /\ kasked = FALSE /\ kleft = <<Given, Spoken>>
    /\ overlaid = FALSE /\ refused = FALSE /\ unheard = FALSE /\ forgot = FALSE

-----------------------------------------------------------------------------
(* The controllers.                                                        *)

\* Signalling on a connection, from either host.
Asking == {"conn_req", "config_req", "ask", "param_req"}
Answers == {"conn_rsp", "config_rsp", "answer", "reject", "conn_pend", "bad"}
Data == Asking \cup Answers

\* Commands for one kind of radio; the others are taken by every controller.
Classic == {"inquiry", "create", "create_absent", "cancel", "accept", "reject_conn", "name", "name_cancel",
            "features", "scan_on", "scan_off", "setting", "sync", "sco"}
LowEnergy == {"adv_on", "adv_off", "le_scan_on", "le_scan_off", "le_create", "le_setting"}
Common == {"reset", "read_addr", "version", "disconnect", "local"}
Supported ==
    Common \cup (IF Type = "le" THEN {} ELSE Classic) \cup (IF Type = "bredr" THEN {} ELSE LowEnergy)

\* Every command that is sent; bthost's request for other parameters is known
\* to no controller.
Orders == Common \cup Classic \cup LowEnergy \cup {"conn_update"}

ASSUME KernelAssumption == Commands \subseteq Orders \ {"conn_update"} /\ Sent \subseteq Data

Receives(d, ops) ==
    /\ toDev[d] # <<>> /\ Head(toDev[d]) \in ops
    /\ toDev' = [toDev EXCEPT ![d] = Tail(@)]

\* send_event to the own host, and to that of the other controller.
Send(d, own, other) ==
    toHost' = [toHost EXCEPT ![d] = @ \o own, ![Peer(d)] = @ \o other]

Unsupported(d) ==
    /\ Receives(d, {"conn_update"} \cup ((Classic \cup LowEnergy) \ Supported))
    /\ Send(d, <<"error">>, <<>>)
    /\ UNCHANGED <<device, queue, bthost, kernel>>

\* The commands that read and write what no other command depends on, and the
\* reset, which resets nothing.
Settings == {"reset", "read_addr", "local"}
            \cup (IF Type = "le" THEN {} ELSE {"setting"}) \cup (IF Type = "bredr" THEN {} ELSE {"le_setting"})
Setting(d) ==
    /\ Receives(d, Settings)
    /\ Send(d, <<"complete">>, <<>>)
    /\ UNCHANGED <<device, queue, bthost, kernel>>

WriteScan(d) ==
    /\ Type # "le"
    /\ Receives(d, {"scan_on", "scan_off"})
    /\ scan' = [scan EXCEPT ![d] = Head(toDev[d]) = "scan_on"]
    /\ Send(d, <<"complete">>, <<>>)
    /\ UNCHANGED <<linked, adv, lescan, crashed, overlaid, queue, bthost, kernel>>

\* Turning on what is on is refused; turning it on has the other one reported.
SetAdv(d) ==
    /\ Type # "bredr"
    /\ Receives(d, {"adv_on", "adv_off"})
    /\ LET on == Head(toDev[d]) = "adv_on"
       IN  /\ adv' = [adv EXCEPT ![d] = on]
           /\ Send(d, IF adv[d] = on THEN <<"error">> ELSE <<"complete">>,
                      IF on /\ ~adv[d] /\ lescan[Peer(d)] THEN <<"adv_report">> ELSE <<>>)
    /\ UNCHANGED <<linked, scan, lescan, crashed, overlaid, queue, bthost, kernel>>

SetLeScan(d) ==
    /\ Type # "bredr"
    /\ Receives(d, {"le_scan_on", "le_scan_off"})
    /\ LET on == Head(toDev[d]) = "le_scan_on"
       IN  /\ lescan' = [lescan EXCEPT ![d] = on]
           /\ Send(d, IF lescan[d] = on THEN <<"error">>
                      ELSE IF on /\ adv[Peer(d)] THEN <<"complete", "adv_report">>
                      ELSE <<"complete">>, <<>>)
    /\ UNCHANGED <<linked, scan, adv, crashed, overlaid, queue, bthost, kernel>>

\* Finds whoever accepts connections (bit 0x02), not whoever is discoverable.
Inquiry(d) ==
    /\ Type # "le"
    /\ Receives(d, {"inquiry"})
    /\ Send(d, <<"status">> \o (IF scan[Peer(d)] THEN <<"found">> ELSE <<>>) \o <<"inquiry_end">>, <<>>)
    /\ UNCHANGED <<device, queue, bthost, kernel>>

\* The name, features and version of the other one.
AskRemote(d) ==
    /\ Receives(d, {"version"} \cup (IF Type = "le" THEN {} ELSE {"name", "name_cancel", "features"}))
    /\ Send(d, IF Head(toDev[d]) = "name_cancel" THEN <<"complete", "remote">>
                                                 ELSE <<"status", "remote">>, <<>>)
    /\ UNCHANGED <<device, queue, bthost, kernel>>

\* Variant: a page that is not answered is not reported.
CreateConnSilent(d) ==
    /\ Type # "le"
    /\ Receives(d, {"create", "create_absent"})
    /\ IF Head(toDev[d]) = "create" /\ scan[Peer(d)]
       THEN Send(d, <<"status">>, <<"conn_request">>)
       ELSE Send(d, <<"status">>, <<>>)
    /\ UNCHANGED <<device, queue, bthost, kernel>>

CreateConn(d) ==
    /\ Type # "le"
    /\ Receives(d, {"create", "create_absent"})
    /\ IF Head(toDev[d]) = "create" /\ scan[Peer(d)]
       THEN Send(d, <<"status">>, <<"conn_request">>)
       ELSE Send(d, <<"status", "conn_fail">>, <<>>)
    /\ UNCHANGED <<device, queue, bthost, kernel>>

\* Both are reported to the own host only.
CancelOrReject(d) ==
    /\ Type # "le"
    /\ Receives(d, {"cancel", "reject_conn"})
    /\ Send(d, <<"status", "conn_fail">>, <<>>)
    /\ UNCHANGED <<device, queue, bthost, kernel>>

In(q, S) == \E i \in 1..Len(q) : q[i] \in S

\* conn is set whatever it was, and every connection has the same handle: what
\* the kernel sent on an earlier one is passed on over this one.
Link ==
    /\ linked' = [d \in Devices |-> TRUE]
    /\ overlaid' = (overlaid \/ linked["master"] \/ In(toDev["master"], {"config_req"}))

\* Variant: only the controller that accepts is connected.
AcceptOneEnd(d) ==
    /\ Type # "le"
    /\ Receives(d, {"accept"})
    /\ linked' = [linked EXCEPT ![d] = TRUE]
    /\ Send(d, <<"status", "conn_ok">>, <<"conn_ok">>)
    /\ UNCHANGED <<scan, adv, lescan, crashed, overlaid, queue, bthost, kernel>>

Accept(d) ==
    /\ Type # "le"
    /\ Receives(d, {"accept"})
    /\ Link
    /\ Send(d, <<"status", "conn_ok">>, <<"conn_ok">>)
    /\ UNCHANGED <<scan, adv, lescan, crashed, queue, bthost, kernel>>

\* The advertiser goes on advertising.
LeCreate(d) ==
    /\ Type # "bredr"
    /\ Receives(d, {"le_create"})
    /\ IF adv[Peer(d)]
       THEN Link /\ Send(d, <<"status", "le_conn_ok">>, <<"le_conn_ok">>)
       ELSE UNCHANGED <<linked, overlaid>> /\ Send(d, <<"status", "le_conn_fail">>, <<>>)
    /\ UNCHANGED <<scan, adv, lescan, crashed, queue, bthost, kernel>>

\* Variant: the other controller keeps its pointer.
DisconnectOneEnd(d) ==
    /\ Receives(d, {"disconnect"})
    /\ linked' = [linked EXCEPT ![d] = FALSE]
    /\ crashed' = ~linked[d]
    /\ IF linked[d] THEN Send(d, <<"status", "disc">>, <<"disc">>) ELSE Send(d, <<"status">>, <<>>)
    /\ UNCHANGED <<scan, adv, lescan, overlaid, queue, bthost, kernel>>

\* conn is followed without being looked at.
Disconnect(d) ==
    /\ Receives(d, {"disconnect"})
    /\ linked' = [e \in Devices |-> FALSE]
    /\ crashed' = ~linked[d]
    /\ IF linked[d] THEN Send(d, <<"status", "disc">>, <<"disc">>) ELSE Send(d, <<"status">>, <<>>)
    /\ UNCHANGED <<scan, adv, lescan, overlaid, queue, bthost, kernel>>

\* A voice connection; ADD_SCO_CONN gets neither a status nor a completion.
Voice(d) ==
    /\ Type # "le"
    /\ Receives(d, {"sync", "sco"})
    /\ Send(d, (IF Head(toDev[d]) = "sync" THEN <<"status">> ELSE <<>>)
               \o (IF linked[d] THEN <<"voice">> ELSE <<>>), <<>>)
    /\ UNCHANGED <<device, queue, bthost, kernel>>

\* Variant: data is passed on whatever conn is.
ForwardBlindly(d) ==
    /\ Receives(d, Data)
    /\ Send(d, <<"sent">>, <<Head(toDev[d])>>)
    /\ UNCHANGED <<device, queue, bthost, kernel>>

Forward(d) ==
    /\ Receives(d, Data)
    /\ IF linked[d]
       THEN Send(d, <<"sent">>, <<Head(toDev[d])>>)
       ELSE UNCHANGED toHost
    /\ UNCHANGED <<device, queue, bthost, kernel>>

Device(d) ==
    \/ Unsupported(d) \/ Setting(d) \/ WriteScan(d) \/ SetAdv(d) \/ SetLeScan(d)
    \/ Inquiry(d) \/ AskRemote(d) \/ CreateConn(d) \/ CancelOrReject(d) \/ Accept(d)
    \/ LeCreate(d) \/ Disconnect(d) \/ Voice(d) \/ Forward(d)

-----------------------------------------------------------------------------
(* bthost.                                                                 *)

\* Variant: a command is sent whatever the credit is.
CommandUnchecked(ahead, op) ==
    /\ toDev' = [toDev EXCEPT !["client"] = @ \o ahead \o <<op>>]
    /\ ncmd' = (ncmd + 255) % 256
    /\ UNCHANGED tail

\* send_command and queue_command: what was queued before is behind the new
\* tail, where next_cmd never looks.  `ahead' is what else is sent first.
Command(ahead, op) ==
    IF ncmd = 1
    THEN /\ toDev' = [toDev EXCEPT !["client"] = @ \o ahead \o <<op>>]
         /\ ncmd' = 0
         /\ UNCHANGED tail
    ELSE /\ toDev' = [toDev EXCEPT !["client"] = @ \o ahead]
         /\ tail' = op
         /\ UNCHANGED ncmd

\* bthost_start sends RESET, and queues READ_BD_ADDR behind it.
Start ==
    /\ ~started /\ started' = TRUE
    /\ toDev' = [toDev EXCEPT !["client"] = Append(@, "reset")]
    /\ ncmd' = 0 /\ tail' = "read_addr"
    /\ UNCHANGED <<device, toHost, conns, call, called, refused, unheard, kernel>>

\* bthost_write_scan_enable, bthost_set_adv_enable, bthost_hci_connect: called
\* when the kernel has powered its controller, long after the start.
Call ==
    /\ started
    /\ ~called /\ called' = TRUE
    /\ Command(<<>>, call)
    /\ UNCHANGED <<device, toHost, started, conns, call, refused, unheard, kernel>>

Gets(ev) ==
    /\ toHost["client"] # <<>> /\ Head(toHost["client"]) \in ev
    /\ toHost' = [toHost EXCEPT !["client"] = Tail(@)]

\* Variant: a command status does not lead to the next command.
EvtCmdKeeps ==
    /\ Gets({"complete", "error", "status"})
    /\ IF tail # None /\ Head(toHost["client"]) = "complete"
       THEN /\ toDev' = [toDev EXCEPT !["client"] = Append(@, tail)]
            /\ ncmd' = 0 /\ tail' = None
       ELSE /\ ncmd' = 1 /\ UNCHANGED <<toDev, tail>>
    /\ UNCHANGED <<device, bthost, kernel>>

\* _evt_cmd_complete and _evt_cmd_status, with next_cmd.
EvtCmd ==
    /\ Gets({"complete", "error", "status"})
    /\ IF tail # None
       THEN /\ toDev' = [toDev EXCEPT !["client"] = Append(@, tail)]
            /\ ncmd' = 0 /\ tail' = None
       ELSE /\ ncmd' = 1 /\ UNCHANGED <<toDev, tail>>
    /\ UNCHANGED <<device, bthost, kernel>>

EvtConnRequest ==
    /\ Gets({"conn_request"})
    /\ Command(<<>>, "accept")
    /\ UNCHANGED <<device, bthost, kernel>>

\* A test that connects sets new_conn_cb; the callback sends a request.
NewConnCb == called /\ call \in {"create", "le_create"}

Request == IF Head(toHost["client"]) = "conn_ok" THEN "conn_req" ELSE "param_req"

EvtConnComplete ==
    /\ Gets({"conn_ok", "le_conn_ok"})
    /\ conns' = <<{}>> \o conns
    /\ toDev' = IF NewConnCb THEN [toDev EXCEPT !["client"] = Append(@, Request)] ELSE toDev
    /\ UNCHANGED <<device, queue, started, call, called, refused, unheard, kernel>>

EvtDisconnComplete ==
    /\ Gets({"disc"})
    /\ conns' = <<>>
    /\ UNCHANGED <<device, toDev, queue, started, call, called, refused, unheard, kernel>>

EvtIgnored ==
    /\ Gets({"conn_fail", "le_conn_fail", "sent", "adv_report"})
    /\ UNCHANGED <<device, toDev, queue, bthost, kernel>>

Reply(s) == toDev' = [toDev EXCEPT !["client"] = @ \o s]
Channel(c) == conns' = [conns EXCEPT ![1] = @ \cup {c}]

\* process_acl finds no entry for the handle.
AclUnknown ==
    /\ conns = <<>> /\ Gets(Data)
    /\ unheard' = TRUE
    /\ UNCHANGED <<device, toDev, queue, started, conns, call, called, refused, kernel>>

\* Variant: the channel is granted and not entered.
AclConnReqOnly ==
    /\ conns # <<>> /\ Gets({"conn_req"})
    /\ Reply(<<"conn_rsp", "config_req">>)
    /\ UNCHANGED <<device, queue, bthost, kernel>>

\* The first request for server_psm; others are an "ask".
AclConnReq ==
    /\ conns # <<>> /\ Gets({"conn_req"})
    /\ Channel("theirs")
    /\ Reply(<<"conn_rsp", "config_req">>)
    /\ UNCHANGED <<device, queue, started, call, called, refused, unheard, kernel>>

\* The answer to bthost's own request; a refusal makes a channel too.
AclConnRsp ==
    /\ conns # <<>> /\ Gets({"conn_rsp", "conn_pend"})
    /\ Channel("own")
    /\ Reply(IF Head(toHost["client"]) = "conn_pend" THEN <<"config_req">> ELSE <<>>)
    /\ UNCHANGED <<device, queue, started, call, called, refused, unheard, kernel>>

AclConfigReq ==
    /\ conns # <<>> /\ Gets({"config_req"})
    /\ IF "theirs" \in conns[1]
       THEN Reply(<<"config_rsp">>) /\ UNCHANGED refused
       ELSE Reply(<<"reject">>) /\ refused' = TRUE
    /\ UNCHANGED <<device, queue, started, conns, call, called, unheard, kernel>>

AclOther ==
    /\ conns # <<>> /\ Gets({"ask", "config_rsp", "bad", "answer"})
    /\ Reply(CASE Head(toHost["client"]) = "ask" -> <<"answer">>
               [] Head(toHost["client"]) = "bad" -> <<"reject">>
               [] OTHER -> <<>>)
    /\ UNCHANGED <<device, queue, bthost, kernel>>

\* The signalling channel of LE: a command first, then the answer.
AclParamReq ==
    /\ conns # <<>> /\ Gets({"param_req"})
    /\ IF ncmd = 1
       THEN /\ toDev' = [toDev EXCEPT !["client"] = @ \o <<"conn_update", "answer">>]
            /\ ncmd' = 0 /\ UNCHANGED tail
       ELSE Command(<<"answer">>, "conn_update")
    /\ UNCHANGED <<device, bthost, kernel>>

Host ==
    \/ EvtCmd \/ EvtConnRequest \/ EvtConnComplete \/ EvtDisconnComplete \/ EvtIgnored
    \/ AclUnknown \/ AclConnReq \/ AclConnRsp \/ AclConfigReq \/ AclOther \/ AclParamReq

-----------------------------------------------------------------------------
(* The kernel, as the master's host.                                       *)

\* The answers to a command.
Done == {"complete", "error", "status"}
Links == {"conn_ok", "le_conn_ok"}
Room == /\ Len(toHost["master"]) <= Cap /\ Len(toHost["client"]) <= Cap
        /\ Len(toDev["master"]) < 2

\* One command at a time, and the connection commands when they make sense.
Fits(op) ==
    CASE op \in {"create", "create_absent", "le_create"} -> kwait = None /\ klink = None
      [] op = "cancel" -> kwait = "page"
      [] op \in {"accept", "reject_conn"} -> kreq
      [] op = "disconnect" -> klink # None /\ ~kdisc
      [] op \in {"sync", "sco"} -> klink = "classic"
      [] OTHER -> TRUE

KernelSend(op) ==
    /\ kcmd = None /\ Room /\ Fits(op)
    /\ kleft[1] > 0 /\ kleft' = [kleft EXCEPT ![1] = @ - 1]
    /\ kcmd' = op
    /\ toDev' = [toDev EXCEPT !["master"] = Append(@, op)]
    /\ kwait' = CASE op \in {"create", "create_absent"} -> "page"
                  [] op = "le_create" -> "le"
                  [] op = "reset" -> None
                  [] OTHER -> kwait
    /\ kreq' = (kreq /\ op \notin {"accept", "reject_conn", "reset"})
    /\ kdisc' = (op # "reset" /\ (kdisc \/ op = "disconnect"))
    /\ klink' = IF op = "reset" THEN None ELSE klink
    /\ kchan' = IF op = "reset" THEN None ELSE kchan
    /\ kasked' = (kasked /\ op # "reset")
    /\ kacl' = (kacl \/ op = "reset")
    /\ forgot' = (forgot \/ op = "reset")
    /\ UNCHANGED <<device, toHost, queue, bthost>>

\* The command was read and nothing answers it.
KernelTimeout ==
    /\ kcmd # None
    /\ \A i \in DOMAIN toDev["master"] : toDev["master"][i] # kcmd
    /\ \A i \in DOMAIN toHost["master"] : toHost["master"][i] \notin Done
    /\ kcmd' = None
    /\ UNCHANGED <<device, toDev, toHost, queue, bthost, kwait, kreq, klink, kdisc, kacl, kchan,
                   kasked, kleft, forgot>>

\* What comes before the completion of a reset is not listened to.
KernelReads ==
    /\ toHost["master"] # <<>>
    /\ toHost' = [toHost EXCEPT !["master"] = Tail(@)]
    /\ LET ev == Head(toHost["master"])
           hears == kcmd # "reset"
           ends == hears /\ ev = "disc"
       IN  /\ kcmd' = IF ev \in Done THEN None ELSE kcmd
           /\ kwait' = IF hears /\ ev \in Links \cup {"conn_fail", "le_conn_fail", "error"}
                       THEN None ELSE kwait
           /\ kreq' = (kreq \/ (hears /\ ev = "conn_request"))
           /\ klink' = CASE ends -> None
                         [] hears /\ ev = "conn_ok" -> "classic"
                         [] hears /\ ev = "le_conn_ok" -> "le"
                         [] OTHER -> klink
           /\ kdisc' = (kdisc /\ ~ends)
           /\ kacl' = (kacl \/ ends \/ (hears /\ ev = "sent"))
           /\ kchan' = CASE ends -> None
                         [] hears /\ ev = "conn_rsp" /\ kchan = "wait" -> "open"
                         [] OTHER -> kchan
           /\ kasked' = (~ends /\ (kasked \/ (hears /\ ev = "conn_req" /\ klink # None)))
    /\ UNCHANGED <<device, toDev, queue, bthost, kleft, forgot>>

\* The data the kernel may send on each kind of link.
May(pdu) ==
    CASE pdu = "param_req" -> klink = "le"
      [] pdu \in {"conn_rsp", "conn_pend"} -> kasked /\ klink = "classic"
      [] pdu = "conn_req" -> kchan = None /\ klink = "classic"
      [] pdu = "config_req" -> kchan = "open"
      [] OTHER -> klink # None

KernelData(pdu) ==
    /\ Room /\ kacl /\ kcmd # "reset" /\ May(pdu)
    /\ kleft[2] > 0 /\ kleft' = [kleft EXCEPT ![2] = @ - 1]
    /\ toDev' = [toDev EXCEPT !["master"] = Append(@, pdu)]
    /\ kacl' = FALSE
    /\ kchan' = IF pdu = "conn_req" THEN "wait" ELSE kchan
    /\ kasked' = (kasked /\ pdu # "conn_rsp")
    /\ overlaid' = (overlaid \/ (pdu = "config_req" /\ linked["master"]
                                 /\ In(toHost["master"], {"disc"})))
    /\ UNCHANGED <<linked, scan, adv, lescan, crashed, toHost, queue, bthost, kcmd, kwait, kreq, klink, kdisc, forgot>>

Kernel ==
    \/ \E op \in Commands : KernelSend(op)
    \/ KernelTimeout \/ KernelReads
    \/ \E pdu \in Sent : KernelData(pdu)

Next ==
    /\ ~crashed
    /\ \/ \E d \in Devices : Device(d)
       \/ Start \/ Call \/ Host
       \/ Kernel

\* The main loop serves every socket, and the kernel reads its own; nobody has
\* to give a command, send data or make a call.
Spec ==
    /\ Init /\ [][Next]_vars
    /\ \A d \in Devices : WF_vars(~crashed /\ Device(d))
    /\ WF_vars(~crashed /\ Start) /\ WF_vars(~crashed /\ Host) /\ WF_vars(~crashed /\ KernelReads)

-----------------------------------------------------------------------------
Packets == Done \cup Links \cup Data
           \cup {"conn_fail", "le_conn_fail", "conn_request", "disc", "sent", "found", "inquiry_end",
                 "adv_report", "remote", "voice"}
Own == Calls \cup {"reset", "read_addr", "accept", "conn_update"}

TypeOK ==
    /\ {linked, scan, adv, lescan} \subseteq [Devices -> BOOLEAN]
    /\ toDev \in [Devices -> Seq(Orders \cup Data)] /\ toHost \in [Devices -> Seq(Packets)]
    /\ toDev["master"] \in Seq(Commands \cup Sent) /\ toDev["client"] \in Seq(Own \cup Data)
    /\ started \in BOOLEAN /\ ncmd \in {0, 1} /\ tail \in Own \cup {None}
    /\ call \in Calls /\ kcmd \in Commands \cup {None}
    /\ kwait \in {None, "page", "le"} /\ klink \in {None, "classic", "le"}
    /\ kchan \in {None, "wait", "open"} /\ kleft \in Nat \X Nat
    /\ {called, kreq, kdisc, kacl, kasked, crashed, overlaid, refused, unheard, forgot} \subseteq BOOLEAN
    /\ conns \in Seq(SUBSET {"own", "theirs"})

\* A connection is opened and not closed again.
Opens(q) == \E i \in 1..Len(q) : q[i] \in Links /\ \A j \in i..Len(q) : q[j] # "disc"

\* What a host that knows of a connection, or of none, will believe when it has
\* read what waits for it.
Believes(q, was) == Opens(q) \/ (was /\ ~In(q, {"disc"}))

\* The two controllers and the two hosts come to agree on whether there is a
\* connection, whoever made it and whatever crossed it; a kernel that has reset
\* its controller has not closed what it had (btdev.c:714-880, bthost.c:498-560).
HostsAgree ==
    /\ linked["master"] = linked["client"]
    /\ Believes(toHost["client"], conns # <<>>) <=> linked["client"]
    /\ forgot \/ (Believes(toHost["master"], klink # None) <=> linked["master"])

\* A handle is good when it is used: data reaches bthost between the events that
\* open and close its connection (bthost.c:985-988), and the kernel disconnects
\* only what is connected by the time its command is read, so that the pointer
\* disconnect_complete follows is set (btdev.c:869-874).
NoStaleHandle == ~unheard /\ ~crashed

Count(q, S) == Cardinality({i \in 1..Len(q) : q[i] \in S})

\* One command is under way in each direction, or none: every one is answered
\* once, none is sent ahead of an answer, and bthost never keeps a command back
\* while it may send (bthost.c:373-410).  ADD_SCO_CONN is the exception.
CommandsFlow ==
    /\ started => ncmd + Count(toDev["client"], Orders) + Count(toHost["client"], Done) = 1
    /\ ncmd = 1 => tail = None
    /\ kcmd # "sco" => Count(toDev["master"], Orders) + Count(toHost["master"], Done)
                       = IF kcmd = None THEN 0 ELSE 1

\* bthost rejects the configuration of a channel it has granted only when the
\* controllers made a connection over one that was there, or the request was sent
\* on an earlier connection and passed on over this one, which has the same handle
\* (bthost.c:521, 727-729; btdev.c:714-760, 2076-2079).
RefusedOnlyOverlaid == refused => overlaid

\* A connection the kernel asks for is made or fails, or the kernel resets: one
\* call a test makes never pushes bthost's acceptance behind the tail of its
\* queue, where it would stay (bthost.c:218-222, 381-404).
ConnectAnswered == []<>(kwait = None \/ forgot)

=============================================================================
