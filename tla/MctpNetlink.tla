---------------------------- MODULE MctpNetlink ----------------------------
(***************************************************************************)
(* The netlink calls that program an interface (libsermctp/src/            *)
(* MctpNetlink.cpp), against a kernel in which other processes create,     *)
(* remove, rename, raise and lower interfaces between any two system       *)
(* calls.  Each call resolves a name to an index, opens a socket, sends    *)
(* one request and reads one answer.  setMctpInterfaceNetId() first reads  *)
(* the flags of the interface, over a second socket and by resolving the   *)
(* name again, and then sends up to three requests over the first.         *)
(*                                                                         *)
(* A request carries attributes at offsets in a buffer, laid out by nlaPut *)
(* and the nest helpers, and the kernel takes from it what a walk over     *)
(* those attributes finds.                                                 *)
(***************************************************************************)
EXTENDS Integers, Sequences, FiniteSets

CONSTANTS
    Names,       \* interface names
    Indices,     \* interface numbers, each used once: bounds the interfaces ever created
    Eids, Nets,  \* endpoint and network ids; a new interface is in network 1
    Faults,      \* what may fail: "socket", "send", "recv", "refuse"
    Gone         \* an interface that does not exist

\* What the kernel keeps of an interface.
Interface == [name : Names, up : BOOLEAN, net : Nets, eids : SUBSET Eids, routes : SUBSET Eids]

ASSUME NetlinkAssumption ==
    /\ Gone \notin Interface
    /\ Indices \subseteq Nat \ {0} /\ IsFiniteSet(Indices)
    /\ Eids # {} /\ Names # {} /\ Nets \subseteq Nat \ {0} /\ 1 \in Nets

-----------------------------------------------------------------------------
(* The layout of a message: its length, and the attributes by offset.      *)

NLMSG_ALIGN(n) == ((n + 3) \div 4) * 4
RTA_LENGTH(n) == 4 + n

Header(struct) == [len |-> 16 + struct, at |-> [o \in {} |-> 0]]

\* The message with an attribute written at offset o.
WriteAt(m, o, rta, len) ==
    [len |-> len, at |-> [x \in DOMAIN m.at \cup {o} |-> IF x = o THEN rta ELSE m.at[x]]]

nlaPut(m, attrtype, data, datalen) ==
    LET o == NLMSG_ALIGN(m.len)
    IN  WriteAt(m, o, [type |-> attrtype, len |-> RTA_LENGTH(datalen), data |-> data],
                o + NLMSG_ALIGN(RTA_LENGTH(datalen)))

nlaNestStart(m, attrtype) ==
    LET o == NLMSG_ALIGN(m.len)
    IN  WriteAt(m, o, [type |-> attrtype, len |-> RTA_LENGTH(0), data |-> 0], o + RTA_LENGTH(0))

\* Seeded fault: the attributes inside are not counted.
nlaNestEndEmpty(m, start) ==
    LET o == NLMSG_ALIGN(start) IN WriteAt(m, o, m.at[o], m.len)

\* start is the length the message had before the nest was started.
nlaNestEnd(m, start) ==
    LET o == NLMSG_ALIGN(start)
        nested_len == m.len - (o + RTA_LENGTH(0))
    IN  WriteAt(m, o, [m.at[o] EXCEPT !.len = RTA_LENGTH(nested_len)],
                o + NLMSG_ALIGN(RTA_LENGTH(nested_len)))

\* An attribute begins at offset o, and it ends before end.
RTA_OK(m, o, end) == o \in DOMAIN m.at /\ m.at[o].len \in 4..(end - o)

\* The offsets of the attributes that RTA_OK and RTA_NEXT come by from an offset on.
Walk(m, end) ==
    LET walk[o \in 0..(end + 3)] ==
          IF RTA_OK(m, o, end) THEN {o} \cup walk[o + NLMSG_ALIGN(m.at[o].len)] ELSE {}
    IN  walk

Attributes(m, from, end, attrtype) == {o \in Walk(m, end)[from] : m.at[o].type = attrtype}

Inside(m, outer, attrtype) ==
    UNION {Attributes(m, o + RTA_LENGTH(0), o + m.at[o].len, attrtype) : o \in outer}

Top(m, struct, attrtype) == Attributes(m, 16 + struct, m.len, attrtype)

Data(m, offsets) == {m.at[o].data : o \in offsets}

\* The IFLA_MCTP_NET attributes within AF_MCTP within IFLA_AF_SPEC.
NetIds(m) == Inside(m, Inside(m, Top(m, 16, "AF_SPEC"), "AF_MCTP"), "MCTP_NET")

-----------------------------------------------------------------------------
(* The requests.  Sizes: ifinfomsg 16, ifaddrmsg 8, rtmsg 12 bytes; an EID *)
(* has 1 byte, a network id and an index 4, the names here 9 with their 0. *)

EidRequest(eid) == nlaPut(nlaPut(Header(8), "LOCAL", eid, 1), "ADDRESS", eid, 1)
RouteRequest(eid, index) == nlaPut(nlaPut(Header(12), "DST", eid, 1), "OIF", index, 4)
NameRequest(name) == nlaPut(Header(16), "IFNAME", name, 9)
NetRequest(net) ==
    LET spec == nlaNestStart(Header(16), "AF_SPEC")
        af   == nlaNestStart(spec, "AF_MCTP")
        put  == nlaPut(af, "MCTP_NET", net, 4)
    IN  nlaNestEnd(nlaNestEnd(put, spec.len), Header(16).len)

\* The kernel's description of an interface: its name, then the families it serves.
LinkAnswer(net) ==
    [len |-> 76,
     at  |-> [o \in {32, 48, 52, 64, 68} |->
                CASE o = 32 -> [type |-> "IFNAME", len |-> 15, data |-> 0]
                  [] o = 48 -> [type |-> "AF_SPEC", len |-> 28, data |-> 0]
                  [] o = 52 -> [type |-> "AF_INET", len |-> 12, data |-> 0]
                  [] o = 64 -> [type |-> "AF_MCTP", len |-> 12, data |-> 0]
                  [] o = 68 -> [type |-> "MCTP_NET", len |-> 8, data |-> net]]]

\* The calls that change something; getMctpInterfaceNetId() is the other one.
Changes == {"setMctpLocalEid", "deleteMctpLocalEid", "addMctpRoute", "removeMctpRoute",
            "setMctpInterfaceName", "setMctpInterfaceStatus", "setMctpInterfaceNetId"}

VARIABLES
    ifs,         \* the kernel's interfaces by index
    born,        \* indices that have been used
    call,        \* the call under way
    pc,          \* where it is, "idle" when there is none
    ifindex,     \* what the name was resolved to, 0 if to nothing
    asked,       \* what it was resolved to for the flags
    socks,       \* sockets the call has open
    cur_flags,   \* "up", "down", or "unknown" (which is written 0)
    mi,          \* index of the change mask
    answers,     \* what waits on the socket: for each request whether it was accepted
    result,      \* of the last call
    done,        \* history: whether the kernel has done what was asked
    before       \* history: the flags when setMctpInterfaceNetId() began, "any" in other
                 \* calls and once somebody else has touched an interface

kernel == <<ifs, born>>
callVars == <<call, pc, ifindex, asked, socks, cur_flags, mi, answers, result>>
history == <<done, before>>
netVars == <<kernel, callVars, history>>

NoCall == [op |-> "none", name |-> 0, arg |-> 0]

NewInterface(name) == [name |-> name, up |-> FALSE, net |-> 1, eids |-> {}, routes |-> {}]

Init ==
    /\ ifs = [i \in Indices |-> Gone] /\ born = {}
    /\ call = NoCall
    /\ pc = "idle" /\ ifindex = 0 /\ asked = 0 /\ socks = 0 /\ cur_flags = "unknown" /\ mi = 0 /\ answers = <<>> /\ result = FALSE
    /\ done = FALSE /\ before = "any"

ifindexByName(name) == {i \in Indices : ifs[i] # Gone /\ ifs[i].name = name}

flags(i) == IF ifs[i].up THEN "up" ELSE "down"

-----------------------------------------------------------------------------
(* The caller.                                                             *)

Begin(op, name, arg) ==
    /\ pc = "idle" /\ pc' = "open"
    /\ call' = [op |-> op, name |-> name, arg |-> arg]
    /\ \E i \in ifindexByName(name) :
          /\ ifindex' = i
          /\ before' = IF op = "setMctpInterfaceNetId" THEN flags(i) ELSE "any"
    /\ result' = FALSE /\ done' = FALSE
    /\ UNCHANGED <<asked, socks, cur_flags, mi, answers, kernel>>

\* Nobody goes by the name.
NotFound(name) ==
    /\ pc = "idle" /\ ifindexByName(name) = {}
    /\ result' = FALSE
    /\ UNCHANGED <<pc, call, ifindex, asked, socks, cur_flags, mi, answers, kernel, history>>

setMctpLocalEid(name) == \E eid \in Eids : Begin("setMctpLocalEid", name, eid)
deleteMctpLocalEid(name) == \E eid \in Eids : Begin("deleteMctpLocalEid", name, eid)
addMctpRoute(name) == \E dest_eid \in Eids : Begin("addMctpRoute", name, dest_eid)
removeMctpRoute(name) == \E dest_eid \in Eids : Begin("removeMctpRoute", name, dest_eid)
setMctpInterfaceName(name) == \E newname \in Names : Begin("setMctpInterfaceName", name, newname)
setMctpInterfaceStatus(name) == \E up \in BOOLEAN : Begin("setMctpInterfaceStatus", name, up)
setMctpInterfaceNetId(name) == \E net \in Nets : Begin("setMctpInterfaceNetId", name, net)
getMctpInterfaceNetId(name) == Begin("getMctpInterfaceNetId", name, 0)

Calls(name) ==
    \/ NotFound(name)
    \/ setMctpLocalEid(name) \/ deleteMctpLocalEid(name) \/ addMctpRoute(name) \/ removeMctpRoute(name)
    \/ setMctpInterfaceName(name) \/ setMctpInterfaceStatus(name)
    \/ setMctpInterfaceNetId(name) \/ getMctpInterfaceNetId(name)

\* The call ends, and its locals with it.
Leave(r) ==
    /\ pc' = "idle" /\ result' = r /\ call' = NoCall
    /\ ifindex' = 0 /\ asked' = 0 /\ cur_flags' = "unknown" /\ mi' = 0 /\ answers' = <<>>
    /\ before' = "any"

Return(r) == Leave(r) /\ socks' = socks - 1

openNetlink ==
    /\ pc = "open" /\ socks' = socks + 1
    /\ pc' = IF call.op = "setMctpInterfaceNetId" THEN "flags" ELSE "send"
    /\ UNCHANGED <<call, ifindex, asked, cur_flags, mi, answers, result, kernel, history>>

openNetlinkFails ==
    /\ pc = "open" /\ "socket" \in Faults
    /\ Leave(FALSE)
    /\ UNCHANGED <<socks, kernel, done>>

\* getInterfaceFlags(): the name is looked up again, and there is a socket of its own.
AskFlags ==
    /\ pc = "flags"
    /\ \E i \in ifindexByName(call.name) : asked' = i
    /\ pc' = "asked" /\ socks' = socks + 1
    /\ UNCHANGED <<call, ifindex, cur_flags, mi, answers, result, kernel, history>>

AskFlagsFails ==
    /\ pc = "flags"
    /\ ifindexByName(call.name) = {} \/ "socket" \in Faults
    /\ pc' = "send"
    /\ UNCHANGED <<call, ifindex, asked, socks, cur_flags, mi, answers, result, kernel, history>>

ReadFlags ==
    /\ pc = "asked" /\ ifs[asked] # Gone
    /\ cur_flags' = flags(asked)
    /\ pc' = "send" /\ socks' = socks - 1 /\ asked' = 0
    /\ UNCHANGED <<call, ifindex, mi, answers, result, kernel, history>>

\* Seeded fault: an early return leaves the socket open.
ReadFlagsFailsOpen ==
    /\ pc = "asked" /\ (ifs[asked] = Gone \/ Faults \cap {"send", "recv"} # {})
    /\ pc' = "send" /\ asked' = 0
    /\ UNCHANGED <<call, ifindex, socks, cur_flags, mi, answers, result, kernel, history>>

\* Seeded fault: it is tried again until it succeeds.
ReadFlagsFailsRetries ==
    /\ pc = "asked" /\ (ifs[asked] = Gone \/ Faults \cap {"send", "recv"} # {})
    /\ pc' = "flags" /\ socks' = socks - 1 /\ asked' = 0
    /\ UNCHANGED <<call, ifindex, cur_flags, mi, answers, result, kernel, history>>

\* The kernel knows no such interface, or a call fails; every way out closes the socket.
ReadFlagsFails ==
    /\ pc = "asked" /\ (ifs[asked] = Gone \/ Faults \cap {"send", "recv"} # {})
    /\ pc' = "send" /\ socks' = socks - 1 /\ asked' = 0
    /\ UNCHANGED <<call, ifindex, cur_flags, mi, answers, result, kernel, history>>

\* One request has failed: the next mask is tried if there is one.
Failed(left) ==
    IF call.op = "setMctpInterfaceNetId" /\ mi < 2
    THEN /\ pc' = "send" /\ mi' = mi + 1 /\ answers' = left
         /\ UNCHANGED <<call, ifindex, asked, socks, cur_flags, result, before>>
    ELSE Return(FALSE)

SendFails ==
    /\ pc = "send" /\ "send" \in Faults
    /\ Failed(answers)
    /\ UNCHANGED <<kernel, done>>

\* recv() fails: interrupted, with the answer still to come, or for want of memory,
\* with the answer lost.
RecvFails ==
    /\ pc = "recv" /\ "recv" \in Faults /\ answers # <<>>
    /\ Failed(answers) \/ Failed(Tail(answers))
    /\ UNCHANGED <<kernel, done>>

\* Seeded fault: the error code in the answer is not looked at.
RecvAckUnchecked ==
    /\ pc = "recv" /\ call.op \in Changes /\ answers # <<>>
    /\ Return(TRUE)
    /\ UNCHANGED <<kernel, done>>

\* The first answer that waits is taken for the answer to this request.
RecvAck ==
    /\ pc = "recv" /\ call.op \in Changes /\ answers # <<>>
    /\ IF Head(answers).ok THEN Return(TRUE) ELSE Failed(Tail(answers))
    /\ UNCHANGED <<kernel, done>>

\* getMctpInterfaceNetId() reads its answer attribute by attribute.
RecvLink ==
    /\ pc = "recv" /\ call.op = "getMctpInterfaceNetId" /\ answers # <<>>
    /\ LET link == LinkAnswer(Head(answers).net)
           out_net == Data(link, NetIds(link))
       IN  /\ Return(Head(answers).ok /\ out_net # {})
           /\ done' = (out_net = {Head(answers).net})
    /\ UNCHANGED kernel

-----------------------------------------------------------------------------
(* The kernel.                                                             *)

\* The interface a request is about: routes name it in an attribute.
Target ==
    IF call.op \in {"addMctpRoute", "removeMctpRoute"}
    THEN LET m == RouteRequest(call.arg, ifindex) IN Data(m, Top(m, 12, "OIF"))
    ELSE {ifindex}

\* Seeded fault: the flags that were read do not get into the request.
UpAfterFlagsUnset(f) == mi = 0 /\ f.up

\* Whether the interface is up after the flags and the mask of the request: a mask
\* of 0 stands for all bits, and with flags of 0 for none.
UpAfter(f) ==
    \/ cur_flags = "up"
    \/ cur_flags = "unknown" /\ mi = 0 /\ f.up

\* What becomes of interface f by the request; nothing if it is refused.
Outcome(f) ==
    LET eid   == LET m == EidRequest(call.arg) IN Data(m, Top(m, 8, "LOCAL"))
        dst   == LET m == RouteRequest(call.arg, ifindex) IN Data(m, Top(m, 12, "DST"))
        name  == LET m == NameRequest(call.arg) IN Data(m, Top(m, 16, "IFNAME"))
        net   == LET m == NetRequest(call.arg) IN Data(m, NetIds(m))
    IN  CASE call.op = "setMctpLocalEid" -> {[f EXCEPT !.eids = @ \cup {e}] : e \in eid \ f.eids}
          [] call.op = "deleteMctpLocalEid" -> {[f EXCEPT !.eids = @ \ {e}] : e \in eid \cap f.eids}
          [] call.op = "addMctpRoute" -> {[f EXCEPT !.routes = @ \cup {e}] : e \in dst \ f.routes}
          [] call.op = "removeMctpRoute" -> {[f EXCEPT !.routes = @ \ {e}] : e \in dst \cap f.routes}
          [] call.op = "setMctpInterfaceName" ->
                {[f EXCEPT !.name = n] : n \in {x \in name : ifindexByName(x) \subseteq Target}}
          [] call.op = "setMctpInterfaceStatus" -> {[f EXCEPT !.up = call.arg]}
          [] call.op = "setMctpInterfaceNetId" ->
                LET g == [f EXCEPT !.up = UpAfter(f)]
                IN  IF net = {} THEN {g} ELSE {[g EXCEPT !.net = n] : n \in net}
          [] call.op = "getMctpInterfaceNetId" -> {f}

Outcomes(i) == IF ifs[i] = Gone THEN {} ELSE Outcome(ifs[i])

\* The interface is as the caller wants it.
Wanted(f) ==
    CASE call.op = "setMctpLocalEid" -> call.arg \in f.eids
      [] call.op = "deleteMctpLocalEid" -> call.arg \notin f.eids
      [] call.op = "addMctpRoute" -> call.arg \in f.routes
      [] call.op = "removeMctpRoute" -> call.arg \notin f.routes
      [] call.op = "setMctpInterfaceName" -> f.name = call.arg
      [] call.op = "setMctpInterfaceStatus" -> f.up = call.arg
      [] call.op = "setMctpInterfaceNetId" -> f.net = call.arg
      [] call.op = "getMctpInterfaceNetId" -> FALSE

\* NLM_F_ACK is set in every request that changes something.
WantsAck(op) == op \in Changes

Accepted ==
    \E i \in Target \cap Indices : \E f \in Outcomes(i) :
       /\ ifs' = [ifs EXCEPT ![i] = f]
       /\ answers' = IF call.op = "getMctpInterfaceNetId"
                     THEN Append(answers, [ok |-> TRUE, net |-> f.net])
                     ELSE IF WantsAck(call.op) THEN Append(answers, [ok |-> TRUE, net |-> 0]) ELSE answers
       /\ done' = (done \/ (i = ifindex /\ Wanted(f)))

\* There is no such interface, or the request contradicts its state, or something
\* else is wrong; the flags are changed before the network id is looked at.
Refused ==
    /\ \/ "refuse" \in Faults
       \/ \A i \in Target \cap Indices : Outcomes(i) = {}
    /\ \/ UNCHANGED ifs
       \/ /\ call.op = "setMctpInterfaceNetId" /\ ifs[ifindex] # Gone
          /\ ifs' = [ifs EXCEPT ![ifindex].up = UpAfter(ifs[ifindex])]
    /\ answers' = Append(answers, [ok |-> FALSE, net |-> 0])
    /\ UNCHANGED done

\* sendmsg() or send(): the kernel handles the request before it returns.
Send ==
    /\ pc = "send" /\ pc' = "recv"
    /\ Accepted \/ Refused
    /\ UNCHANGED <<born, call, ifindex, asked, socks, cur_flags, mi, result, before>>

-----------------------------------------------------------------------------
(* Everybody else.                                                         *)

Create(i, name) ==
    /\ i \notin born /\ \A j \in Indices \ born : i <= j
    /\ ifindexByName(name) = {}
    /\ ifs' = [ifs EXCEPT ![i] = NewInterface(name)] /\ born' = born \cup {i}

Remove(i) == ifs[i] # Gone /\ ifs' = [ifs EXCEPT ![i] = Gone] /\ UNCHANGED born

Rename(i, name) ==
    /\ ifs[i] # Gone /\ ifindexByName(name) = {}
    /\ ifs' = [ifs EXCEPT ![i].name = name] /\ UNCHANGED born

RaiseOrLower(i) == ifs[i] # Gone /\ ifs' = [ifs EXCEPT ![i].up = ~@] /\ UNCHANGED born

Others ==
    /\ \E i \in Indices : \/ \E name \in Names : Create(i, name) \/ Rename(i, name)
                          \/ Remove(i) \/ RaiseOrLower(i)
    /\ before' = "any"
    /\ UNCHANGED <<callVars, done>>

getInterfaceFlags == AskFlags \/ AskFlagsFails \/ ReadFlags \/ ReadFlagsFails
sendNetlinkMessage == SendFails \/ Send \/ RecvFails \/ RecvAck \/ RecvLink
Caller == openNetlink \/ openNetlinkFails \/ getInterfaceFlags \/ sendNetlinkMessage

Next ==
    \/ \E name \in Names : Calls(name)
    \/ Caller
    \/ Others

\* A call that has begun goes on; the kernel answers every request.
NetlinkSpec == Init /\ [][Next]_netVars /\ WF_netVars(Caller)

-----------------------------------------------------------------------------
(* Properties.                                                             *)

\* Every variable has its type, and no call leaves a socket open.
NetlinkTypeOK ==
    /\ ifs \in [Indices -> {Gone} \cup Interface]
    /\ born \subseteq Indices
    /\ \/ pc = "idle" /\ call = NoCall
       \/ call.op \in Changes \cup {"getMctpInterfaceNetId"} /\ call.name \in Names
    /\ pc \in {"idle", "open", "flags", "asked", "send", "recv"}
    /\ ifindex \in Indices \cup {0} /\ asked \in Indices \cup {0}
    /\ socks = CASE pc \in {"idle", "open"} -> 0 [] pc = "asked" -> 2 [] OTHER -> 1
    /\ cur_flags \in {"unknown", "up", "down"} /\ mi \in 0..2 /\ result \in BOOLEAN
    /\ answers \in Seq([ok : BOOLEAN, net : Nets \cup {0}]) /\ Len(answers) <= 3
    /\ done \in BOOLEAN /\ before \in {"any", "up", "down"}

\* "true if the kernel returns an ACK (no error)": a call that returns true has been
\* carried out, on the interface that had the name when the call began, although
\* interfaces come, go and change names meanwhile, answers are not matched with
\* requests, and the kernel only finds what the helpers have laid out right.
TrueMeansDone == [][pc # "idle" /\ pc' = "idle" /\ result' => done']_netVars

\* setMctpInterfaceNetId() writes flags it has read before.  If nobody else touches
\* an interface meanwhile and the flags could be read, or only the first mask was
\* tried, the interface is as up or down afterwards as it was before.
FlagsKept ==
    [][pc # "idle" /\ pc' = "idle" /\ before # "any" /\ (cur_flags # "unknown" \/ mi = 0)
       => flags(ifindex) = before]_netVars

\* Every call returns.
CallReturns == pc # "idle" ~> pc = "idle"
=============================================================================
