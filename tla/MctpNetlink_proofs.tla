------------------------- MODULE MctpNetlink_proofs -------------------------
(***************************************************************************)
(* What a netlink call that returned true has done, and what becomes of    *)
(* the flags of the interface, for any interfaces, names, ids and faults.  *)
(* First what the kernel finds in the requests, offset by offset; then an  *)
(* inductive invariant about the call under way: what its arguments are,   *)
(* how many answers may wait, that an answer without error says that the   *)
(* kernel has done what was asked, and which flags have been read.         *)
(***************************************************************************)
EXTENDS MctpNetlink, SequenceTheorems, TLAPS

-----------------------------------------------------------------------------
(* The walk over the attributes of a message.                              *)

Step(m, end, f) ==
    [o \in 0..(end + 3) |-> IF RTA_OK(m, o, end) THEN {o} \cup f[o + NLMSG_ALIGN(m.at[o].len)] ELSE {}]

\* The walk does what its definition says as soon as anything does.
LEMMA WalkUnfolds ==
    ASSUME NEW m, NEW end, NEW f, f = Step(m, end, f)
    PROVE  Walk(m, end) = Step(m, end, Walk(m, end))
<1> DEFINE P(g) == g = Step(m, end, g)
<1>1. Walk(m, end) = CHOOSE g : P(g)
  BY DEF Walk, Step
<1>2. P(CHOOSE g : P(g))
  <2>1. \E g : P(g)
    OBVIOUS
  <2> QED BY <2>1, Zenon
<1> QED BY <1>1, <1>2

Following(m, o) == o + NLMSG_ALIGN(m.at[o].len)

\* The attributes fit, and each is the last of its nest or the last but one.
Short(m, end) ==
    /\ DOMAIN m.at \subseteq Nat /\ end \notin DOMAIN m.at
    /\ \A o \in DOMAIN m.at : m.at[o].len \in 4..(end - o)
    /\ \A o \in DOMAIN m.at : \/ Following(m, o) = end
                              \/ /\ Following(m, o) \in DOMAIN m.at
                                 /\ Following(m, Following(m, o)) = end

\* In such a message the walk comes by an attribute and by the one behind it.
LEMMA ShortWalk ==
    ASSUME NEW m, NEW end \in Nat, Short(m, end)
    PROVE  \A o \in DOMAIN m.at :
              Walk(m, end)[o] = IF Following(m, o) = end THEN {o} ELSE {o, Following(m, o)}
<1> USE DEF Short
<1> DEFINE D == DOMAIN m.at
           W(o) == IF Following(m, o) = end THEN {o} ELSE {o, Following(m, o)}
           f == [o \in 0..(end + 3) |-> IF o \in D THEN W(o) ELSE {}]
<1>1. \A o \in D : RTA_OK(m, o, end) /\ o \in 0..(end + 3) /\ o < end
  BY DEF RTA_OK
<1>2. \A o \in 0..(end + 3) : RTA_OK(m, o, end) => o \in D
  BY DEF RTA_OK
<1>3. f[end] = {}
  BY end \in 0..(end + 3)
<1>4. \A o \in D : f[o] = W(o)
  BY <1>1
<1>5. \A o \in D : f[o] = {o} \cup f[Following(m, o)]
  <2> HIDE DEF f
  <2> SUFFICES ASSUME NEW o \in D PROVE f[o] = {o} \cup f[Following(m, o)]
    OBVIOUS
  <2>1. CASE Following(m, o) = end
    BY <2>1, <1>3, <1>4
  <2>2. CASE Following(m, o) # end
    <3>1. PICK x \in D : x = Following(m, o) /\ Following(m, x) = end
      BY <2>2
    <3>2. f[x] = {x} /\ f[o] = {o, x}
      BY <3>1, <2>2, <1>4, Zenon
    <3> QED BY <3>1, <3>2
  <2> QED BY <2>1, <2>2
<1>6. f = Step(m, end, f)
  <2> SUFFICES ASSUME NEW o \in 0..(end + 3)
               PROVE  f[o] = IF RTA_OK(m, o, end) THEN {o} \cup f[Following(m, o)] ELSE {}
    BY DEF Step, Following
  <2>1. CASE o \in D
    <3> HIDE DEF f
    <3> QED BY <2>1, <1>1, <1>5
  <2>2. CASE o \notin D
    BY <2>2, <1>2
  <2> QED BY <2>1, <2>2
<1>7. PICK w : w = Walk(m, end)
  OBVIOUS
<1>8. w = Step(m, end, w)
  <2> HIDE DEF f
  <2> QED BY <1>6, <1>7, WalkUnfolds
<1>9. \A o \in 0..(end + 3) : w[o] = IF RTA_OK(m, o, end) THEN {o} \cup w[Following(m, o)] ELSE {}
  <2>1. w = [o \in 0..(end + 3) |-> IF RTA_OK(m, o, end) THEN {o} \cup w[Following(m, o)] ELSE {}]
    BY <1>8 DEF Step, Following
  <2> QED BY <2>1
<1>10. w[end] = {}
  <2>1. end \in 0..(end + 3)
    OBVIOUS
  <2> QED BY <1>9, <1>2, <2>1
<1>11. \A o \in D : w[o] = {o} \cup w[Following(m, o)]
  BY <1>1, <1>9
<1>12. ASSUME NEW o \in D PROVE w[o] = W(o)
  <2>1. CASE Following(m, o) = end
    BY <2>1, <1>10, <1>11
  <2>2. CASE Following(m, o) # end
    <3>1. PICK x \in D : x = Following(m, o) /\ Following(m, x) = end
      BY <2>2
    <3>2. w[x] = {x} \cup w[end] /\ w[o] = {o} \cup w[x]
      BY <3>1, <1>11, Zenon
    <3> QED BY <3>1, <3>2, <2>2, <1>10
  <2> QED BY <2>1, <2>2
<1> QED BY <1>12, <1>7

-----------------------------------------------------------------------------
(* What the kernel finds in the requests.                                  *)

LEMMA Aligned ==
    /\ NLMSG_ALIGN(5) = 8 /\ NLMSG_ALIGN(8) = 8 /\ NLMSG_ALIGN(12) = 12 /\ NLMSG_ALIGN(13) = 16
    /\ NLMSG_ALIGN(15) = 16 /\ NLMSG_ALIGN(16) = 16 /\ NLMSG_ALIGN(24) = 24 /\ NLMSG_ALIGN(28) = 28
    /\ NLMSG_ALIGN(32) = 32 /\ NLMSG_ALIGN(36) = 36 /\ NLMSG_ALIGN(40) = 40
BY DEF NLMSG_ALIGN

LEMMA Written ==
    ASSUME NEW m, NEW o, NEW rta, NEW len
    PROVE  /\ WriteAt(m, o, rta, len).len = len
           /\ DOMAIN WriteAt(m, o, rta, len).at = DOMAIN m.at \cup {o}
           /\ WriteAt(m, o, rta, len).at[o] = rta
           /\ \A x \in DOMAIN m.at : x # o => WriteAt(m, o, rta, len).at[x] = m.at[x]
BY DEF WriteAt

\* What nlaPut() leaves in a buffer that was filled up to an aligned length.
LEMMA Put ==
    ASSUME NEW m, NEW o, NLMSG_ALIGN(m.len) = o, NEW attrtype, NEW data,
           NEW n, NEW k, NLMSG_ALIGN(RTA_LENGTH(n)) = k
    PROVE  /\ nlaPut(m, attrtype, data, n).len = o + k
           /\ DOMAIN nlaPut(m, attrtype, data, n).at = DOMAIN m.at \cup {o}
           /\ nlaPut(m, attrtype, data, n).at[o] = [type |-> attrtype, len |-> RTA_LENGTH(n), data |-> data]
           /\ \A x \in DOMAIN m.at : x # o => nlaPut(m, attrtype, data, n).at[x] = m.at[x]
BY Written DEF nlaPut

LEMMA HeaderIs ==
    ASSUME NEW struct
    PROVE  Header(struct).len = 16 + struct /\ DOMAIN Header(struct).at = {}
BY DEF Header

\* Attributes that are each the last one of its nest.
LEMMA LastAttributes ==
    ASSUME NEW m, NEW end \in Nat, DOMAIN m.at \subseteq Nat, end \notin DOMAIN m.at,
           \A o \in DOMAIN m.at : m.at[o].len \in 4..(end - o) /\ Following(m, o) = end
    PROVE  \A o \in DOMAIN m.at : Walk(m, end)[o] = {o}
<1>1. Short(m, end)
  BY Zenon DEF Short
<1> QED BY <1>1, ShortWalk, Zenon

\* A message of two attributes, one behind the other.
LEMMA TwoAttributes ==
    ASSUME NEW m, NEW a \in Nat, NEW b \in Nat, NEW end \in Nat, DOMAIN m.at = {a, b}, a < b, b < end,
           m.at[a].len \in 4..(b - a), Following(m, a) = b,
           m.at[b].len \in 4..(end - b), Following(m, b) = end
    PROVE  Walk(m, end)[a] = {a, b}
<1>1. a # b /\ b # end /\ a # end /\ m.at[a].len \in 4..(end - a)
  OBVIOUS
<1>2. DOMAIN m.at \subseteq Nat /\ end \notin DOMAIN m.at
  BY <1>1
<1>3. \A o \in DOMAIN m.at : m.at[o].len \in 4..(end - o)
  BY <1>1
<1>4. \A o \in DOMAIN m.at : \/ Following(m, o) = end
                             \/ /\ Following(m, o) \in DOMAIN m.at
                                /\ Following(m, Following(m, o)) = end
  OBVIOUS
<1>5. Short(m, end)
  BY <1>2, <1>3, <1>4, Zenon DEF Short
<1>6. \A o \in DOMAIN m.at :
         Walk(m, end)[o] = IF Following(m, o) = end THEN {o} ELSE {o, Following(m, o)}
  BY <1>5, ShortWalk, Zenon
<1> QED BY <1>1, <1>6

\* The kernel reads in the requests of setMctpLocalEid() and deleteMctpLocalEid() the
\* endpoint id that was put there.
LEMMA EidRequestRead ==
    ASSUME NEW eid
    PROVE  Data(EidRequest(eid), Top(EidRequest(eid), 8, "LOCAL")) = {eid}
<1>1. PICK h : h = Header(8)
  OBVIOUS
<1>2. h.len = 24 /\ DOMAIN h.at = {}
  BY <1>1, HeaderIs
<1>3. PICK l : l = nlaPut(h, "LOCAL", eid, 1)
  OBVIOUS
<1>4. RTA_LENGTH(1) = 5
  BY DEF RTA_LENGTH
<1>5. l.len = 32 /\ DOMAIN l.at = {24} /\ l.at[24] = [type |-> "LOCAL", len |-> 5, data |-> eid]
  <2>1. NLMSG_ALIGN(h.len) = 24 /\ NLMSG_ALIGN(RTA_LENGTH(1)) = 8
    BY <1>2, <1>4, Aligned
  <2> QED BY <1>2, <1>3, <1>4, <2>1, Put
<1>6. PICK m : m = nlaPut(l, "ADDRESS", eid, 1)
  OBVIOUS
<1>7. m.len = 40 /\ DOMAIN m.at = {24, 32} /\ m.at[24] = l.at[24]
      /\ m.at[32] = [type |-> "ADDRESS", len |-> 5, data |-> eid]
  <2>1. NLMSG_ALIGN(l.len) = 32 /\ NLMSG_ALIGN(RTA_LENGTH(1)) = 8
    BY <1>5, <1>4, Aligned
  <2> QED BY <1>5, <1>6, <1>4, <2>1, Put
<1>8. Following(m, 24) = 32 /\ Following(m, 32) = 40
  BY <1>5, <1>7, Aligned DEF Following
<1>9. Walk(m, 40)[24] = {24, 32}
  BY <1>5, <1>7, <1>8, TwoAttributes
<1>10. Top(m, 8, "LOCAL") = {24}
  BY <1>5, <1>7, <1>9 DEF Top, Attributes
<1>11. m = EidRequest(eid)
  BY <1>1, <1>3, <1>6 DEF EidRequest
<1> QED BY <1>5, <1>7, <1>10, <1>11 DEF Data

\* The kernel reads in the requests of addMctpRoute() and removeMctpRoute() the
\* destination and the interface that were put there.
LEMMA RouteRequestRead ==
    ASSUME NEW eid, NEW index
    PROVE  /\ Data(RouteRequest(eid, index), Top(RouteRequest(eid, index), 12, "DST")) = {eid}
           /\ Data(RouteRequest(eid, index), Top(RouteRequest(eid, index), 12, "OIF")) = {index}
<1>1. PICK h : h = Header(12)
  OBVIOUS
<1>2. h.len = 28 /\ DOMAIN h.at = {}
  BY <1>1, HeaderIs
<1>3. PICK l : l = nlaPut(h, "DST", eid, 1)
  OBVIOUS
<1>4. RTA_LENGTH(1) = 5 /\ RTA_LENGTH(4) = 8
  BY DEF RTA_LENGTH
<1>5. l.len = 36 /\ DOMAIN l.at = {28} /\ l.at[28] = [type |-> "DST", len |-> 5, data |-> eid]
  <2>1. NLMSG_ALIGN(h.len) = 28 /\ NLMSG_ALIGN(RTA_LENGTH(1)) = 8
    BY <1>2, <1>4, Aligned
  <2> QED BY <1>2, <1>3, <1>4, <2>1, Put
<1>6. PICK m : m = nlaPut(l, "OIF", index, 4)
  OBVIOUS
<1>7. m.len = 44 /\ DOMAIN m.at = {28, 36} /\ m.at[28] = l.at[28]
      /\ m.at[36] = [type |-> "OIF", len |-> 8, data |-> index]
  <2>1. NLMSG_ALIGN(l.len) = 36 /\ NLMSG_ALIGN(RTA_LENGTH(4)) = 8
    BY <1>5, <1>4, Aligned
  <2> QED BY <1>5, <1>6, <1>4, <2>1, Put
<1>8. Following(m, 28) = 36 /\ Following(m, 36) = 44
  BY <1>5, <1>7, Aligned DEF Following
<1>9. Walk(m, 44)[28] = {28, 36}
  BY <1>5, <1>7, <1>8, TwoAttributes
<1>10. Top(m, 12, "DST") = {28} /\ Top(m, 12, "OIF") = {36}
  BY <1>5, <1>7, <1>9 DEF Top, Attributes
<1>11. m = RouteRequest(eid, index)
  BY <1>1, <1>3, <1>6 DEF RouteRequest
<1> QED BY <1>5, <1>7, <1>10, <1>11 DEF Data

\* The kernel reads in the request of setMctpInterfaceName() the name that was put there.
LEMMA NameRequestRead ==
    ASSUME NEW name
    PROVE  Data(NameRequest(name), Top(NameRequest(name), 16, "IFNAME")) = {name}
<1>1. PICK h : h = Header(16)
  OBVIOUS
<1>2. h.len = 32 /\ DOMAIN h.at = {}
  BY <1>1, HeaderIs
<1>3. PICK m : m = nlaPut(h, "IFNAME", name, 9)
  OBVIOUS
<1>4. RTA_LENGTH(9) = 13
  BY DEF RTA_LENGTH
<1>5. m.len = 48 /\ DOMAIN m.at = {32} /\ m.at[32] = [type |-> "IFNAME", len |-> 13, data |-> name]
  <2>1. NLMSG_ALIGN(h.len) = 32 /\ NLMSG_ALIGN(RTA_LENGTH(9)) = 16
    BY <1>2, <1>4, Aligned
  <2> QED BY <1>2, <1>3, <1>4, <2>1, Put
<1>6. Following(m, 32) = 48
  BY <1>5, Aligned DEF Following
<1>7. Walk(m, 48)[32] = {32}
  <2>1. 48 \in Nat /\ 48 - 32 = 16 /\ DOMAIN m.at \subseteq Nat /\ 48 \notin DOMAIN m.at
    BY <1>5
  <2>2. \A o \in DOMAIN m.at : m.at[o].len \in 4..(48 - o)
    BY <1>5, <2>1
  <2>3. \A o \in DOMAIN m.at : Following(m, o) = 48
    BY <1>5, <1>6
  <2> QED BY <1>5, <2>1, <2>2, <2>3, LastAttributes
<1>8. Top(m, 16, "IFNAME") = {32}
  BY <1>5, <1>7 DEF Top, Attributes
<1>9. m = NameRequest(name)
  BY <1>1, <1>3 DEF NameRequest
<1> QED BY <1>5, <1>8, <1>9 DEF Data

LEMMA InsideOne ==
    ASSUME NEW m, NEW o, NEW attrtype
    PROVE  Inside(m, {o}, attrtype) = Attributes(m, o + RTA_LENGTH(0), o + m.at[o].len, attrtype)
BY Zenon DEF Inside

\* What nlaNestEnd() leaves: the attribute that was begun at o reaches to the end.
LEMMA NestEnd ==
    ASSUME NEW m, NEW o, NEW start, NLMSG_ALIGN(start) = o, NEW n, m.len - (o + RTA_LENGTH(0)) = n,
           NEW attrtype, NEW len, NEW data, m.at[o] = [type |-> attrtype, len |-> len, data |-> data],
           NEW k, NLMSG_ALIGN(RTA_LENGTH(n)) = k, o \in DOMAIN m.at
    PROVE  /\ nlaNestEnd(m, start).len = o + k
           /\ DOMAIN nlaNestEnd(m, start).at = DOMAIN m.at
           /\ nlaNestEnd(m, start).at[o] = [type |-> attrtype, len |-> RTA_LENGTH(n), data |-> data]
           /\ \A x \in DOMAIN m.at : x # o => nlaNestEnd(m, start).at[x] = m.at[x]
<1>1. [m.at[o] EXCEPT !.len = RTA_LENGTH(n)] = [type |-> attrtype, len |-> RTA_LENGTH(n), data |-> data]
  OBVIOUS
<1>2. PICK rta : rta = [type |-> attrtype, len |-> RTA_LENGTH(n), data |-> data]
  OBVIOUS
<1>3. nlaNestEnd(m, start) = WriteAt(m, o, rta, o + k)
  BY <1>1, <1>2 DEF nlaNestEnd
<1>4. DOMAIN m.at \cup {o} = DOMAIN m.at
  OBVIOUS
<1>5. /\ WriteAt(m, o, rta, o + k).len = o + k
      /\ DOMAIN WriteAt(m, o, rta, o + k).at = DOMAIN m.at \cup {o}
      /\ WriteAt(m, o, rta, o + k).at[o] = rta
      /\ \A x \in DOMAIN m.at : x # o => WriteAt(m, o, rta, o + k).at[x] = m.at[x]
  BY DEF WriteAt
<1> QED BY <1>2, <1>3, <1>4, <1>5, Zenon

\* The request of setMctpInterfaceNetId(): two nests, each as long as what is in it.
LEMMA NetRequestIs ==
    ASSUME NEW net, NEW m, m = NetRequest(net)
    PROVE  /\ m.len = 48 /\ DOMAIN m.at = {32, 36, 40}
           /\ m.at[32] = [type |-> "AF_SPEC", len |-> 16, data |-> 0]
           /\ m.at[36] = [type |-> "AF_MCTP", len |-> 12, data |-> 0]
           /\ m.at[40] = [type |-> "MCTP_NET", len |-> 8, data |-> net]
<1>1. PICK h : h = Header(16)
  OBVIOUS
<1>2. h.len = 32 /\ DOMAIN h.at = {}
  BY <1>1, HeaderIs
<1>3. RTA_LENGTH(0) = 4 /\ RTA_LENGTH(4) = 8 /\ RTA_LENGTH(8) = 12 /\ RTA_LENGTH(12) = 16
  BY DEF RTA_LENGTH
<1>4. PICK s : s = nlaNestStart(h, "AF_SPEC")
  OBVIOUS
<1>5. s.len = 36 /\ DOMAIN s.at = {32} /\ s.at[32] = [type |-> "AF_SPEC", len |-> 4, data |-> 0]
  <2>1. NLMSG_ALIGN(h.len) = 32
    BY <1>2, Aligned
  <2>2. s = WriteAt(h, 32, [type |-> "AF_SPEC", len |-> 4, data |-> 0], 36)
    BY <1>3, <1>4, <2>1 DEF nlaNestStart
  <2> QED BY <1>2, <2>2, Written
<1>6. PICK a : a = nlaNestStart(s, "AF_MCTP")
  OBVIOUS
<1>7. /\ a.len = 40 /\ DOMAIN a.at = {32, 36} /\ a.at[32] = s.at[32]
      /\ a.at[36] = [type |-> "AF_MCTP", len |-> 4, data |-> 0]
  <2>1. NLMSG_ALIGN(s.len) = 36
    BY <1>5, Aligned
  <2>2. a = WriteAt(s, 36, [type |-> "AF_MCTP", len |-> 4, data |-> 0], 40)
    BY <1>3, <1>6, <2>1 DEF nlaNestStart
  <2> QED BY <1>5, <2>2, Written
<1>8. PICK p : p = nlaPut(a, "MCTP_NET", net, 4)
  OBVIOUS
<1>9. /\ p.len = 48 /\ DOMAIN p.at = {32, 36, 40} /\ p.at[32] = s.at[32] /\ p.at[36] = a.at[36]
      /\ p.at[40] = [type |-> "MCTP_NET", len |-> 8, data |-> net]
  <2>1. NLMSG_ALIGN(a.len) = 40 /\ NLMSG_ALIGN(RTA_LENGTH(4)) = 8
    BY <1>3, <1>7, Aligned
  <2> QED BY <1>3, <1>7, <1>8, <2>1, Put
<1>10. PICK i : i = nlaNestEnd(p, s.len)
  OBVIOUS
<1>11. /\ i.len = 48 /\ DOMAIN i.at = {32, 36, 40} /\ i.at[32] = s.at[32] /\ i.at[40] = p.at[40]
       /\ i.at[36] = [type |-> "AF_MCTP", len |-> 12, data |-> 0]
  <2>1. NLMSG_ALIGN(s.len) = 36 /\ NLMSG_ALIGN(RTA_LENGTH(8)) = 12
    BY <1>3, <1>5, Aligned
  <2>2. p.len - (36 + RTA_LENGTH(0)) = 8
    BY <1>3, <1>9
  <2> QED BY <1>3, <1>7, <1>9, <1>10, <2>1, <2>2, NestEnd
<1>12. PICK e : e = nlaNestEnd(i, h.len)
  OBVIOUS
<1>13. /\ e.len = 48 /\ DOMAIN e.at = {32, 36, 40} /\ e.at[36] = i.at[36] /\ e.at[40] = i.at[40]
       /\ e.at[32] = [type |-> "AF_SPEC", len |-> 16, data |-> 0]
  <2>1. NLMSG_ALIGN(h.len) = 32 /\ NLMSG_ALIGN(RTA_LENGTH(12)) = 16
    BY <1>3, <1>2, Aligned
  <2>2. i.len - (32 + RTA_LENGTH(0)) = 12
    BY <1>3, <1>11
  <2> QED BY <1>3, <1>5, <1>11, <1>12, <2>1, <2>2, NestEnd
<1>14. m = e
  BY <1>1, <1>4, <1>6, <1>8, <1>10, <1>12 DEF NetRequest
<1> QED BY <1>9, <1>11, <1>13, <1>14

\* The kernel finds the network id at the bottom of the two nests.
LEMMA NetRequestRead ==
    ASSUME NEW net
    PROVE  Data(NetRequest(net), NetIds(NetRequest(net))) = {net}
<1>1. PICK m : m = NetRequest(net)
  OBVIOUS
<1>2. /\ m.len = 48 /\ DOMAIN m.at = {32, 36, 40}
      /\ m.at[32] = [type |-> "AF_SPEC", len |-> 16, data |-> 0]
      /\ m.at[36] = [type |-> "AF_MCTP", len |-> 12, data |-> 0]
      /\ m.at[40] = [type |-> "MCTP_NET", len |-> 8, data |-> net]
  BY <1>1, NetRequestIs
<1>3. RTA_LENGTH(0) = 4
  BY DEF RTA_LENGTH
<1>4. Following(m, 32) = 48 /\ Following(m, 36) = 48 /\ Following(m, 40) = 48
  BY <1>2, Aligned DEF Following
<1>5. Walk(m, 48)[32] = {32} /\ Walk(m, 48)[36] = {36} /\ Walk(m, 48)[40] = {40}
  <2>1. 48 \in Nat /\ DOMAIN m.at \subseteq Nat /\ 48 \notin DOMAIN m.at
    BY <1>2
  <2>2. m.at[32].len \in 4..(48 - 32) /\ m.at[36].len \in 4..(48 - 36) /\ m.at[40].len \in 4..(48 - 40)
    BY <1>2
  <2>3. \A o \in DOMAIN m.at : m.at[o].len \in 4..(48 - o) /\ Following(m, o) = 48
    BY <1>2, <1>4, <2>2
  <2> QED BY <1>2, <2>1, <2>3, LastAttributes
<1>6. Top(m, 16, "AF_SPEC") = {32}
  BY <1>2, <1>5 DEF Top, Attributes
<1>7. Inside(m, {32}, "AF_MCTP") = {36}
  <2>1. 32 + RTA_LENGTH(0) = 36 /\ 32 + m.at[32].len = 48
    BY <1>2, <1>3
  <2>2. Inside(m, {32}, "AF_MCTP") = Attributes(m, 36, 48, "AF_MCTP")
    <3>1. Inside(m, {32}, "AF_MCTP")
            = Attributes(m, 32 + RTA_LENGTH(0), 32 + m.at[32].len, "AF_MCTP")
      BY InsideOne
    <3> QED BY <2>1, <3>1
  <2> QED BY <1>2, <1>5, <2>2 DEF Attributes
<1>8. Inside(m, {36}, "MCTP_NET") = {40}
  <2>1. 36 + RTA_LENGTH(0) = 40 /\ 36 + m.at[36].len = 48
    BY <1>2, <1>3
  <2>2. Inside(m, {36}, "MCTP_NET") = Attributes(m, 40, 48, "MCTP_NET")
    <3>1. Inside(m, {36}, "MCTP_NET")
            = Attributes(m, 36 + RTA_LENGTH(0), 36 + m.at[36].len, "MCTP_NET")
      BY InsideOne
    <3> QED BY <2>1, <3>1
  <2> QED BY <1>2, <1>5, <2>2 DEF Attributes
<1>9. NetIds(m) = {40}
  BY <1>6, <1>7, <1>8 DEF NetIds
<1> QED BY <1>1, <1>2, <1>9 DEF Data

\* getMctpInterfaceNetId() finds the network id in the answer, behind another family.
LEMMA LinkAnswerRead ==
    ASSUME NEW net
    PROVE  Data(LinkAnswer(net), NetIds(LinkAnswer(net))) = {net}
<1>1. PICK m : m = LinkAnswer(net)
  OBVIOUS
<1>2. /\ m.len = 76 /\ DOMAIN m.at = {32, 48, 52, 64, 68}
      /\ m.at[32] = [type |-> "IFNAME", len |-> 15, data |-> 0]
      /\ m.at[48] = [type |-> "AF_SPEC", len |-> 28, data |-> 0]
      /\ m.at[52] = [type |-> "AF_INET", len |-> 12, data |-> 0]
      /\ m.at[64] = [type |-> "AF_MCTP", len |-> 12, data |-> 0]
      /\ m.at[68] = [type |-> "MCTP_NET", len |-> 8, data |-> net]
  BY <1>1 DEF LinkAnswer
<1>3. RTA_LENGTH(0) = 4
  BY DEF RTA_LENGTH
<1>4. /\ Following(m, 32) = 48 /\ Following(m, 48) = 76 /\ Following(m, 52) = 64
      /\ Following(m, 64) = 76 /\ Following(m, 68) = 76
  BY <1>2, Aligned DEF Following
<1>5. Walk(m, 76)[32] = {32, 48} /\ Walk(m, 76)[52] = {52, 64} /\ Walk(m, 76)[68] = {68}
  <2>1. PICK end : end = 76
    OBVIOUS
  <2>2. end \in Nat /\ DOMAIN m.at \subseteq Nat /\ end \notin DOMAIN m.at
    BY <1>2, <2>1
  <2>3. /\ m.at[32].len \in 4..(end - 32) /\ m.at[48].len \in 4..(end - 48) /\ m.at[52].len \in 4..(end - 52)
        /\ m.at[64].len \in 4..(end - 64) /\ m.at[68].len \in 4..(end - 68)
    BY <1>2, <2>1
  <2>4. \A o \in DOMAIN m.at : m.at[o].len \in 4..(end - o)
    BY <1>2, <2>3
  <2>5. \A o \in DOMAIN m.at : \/ Following(m, o) = end
                               \/ /\ Following(m, o) \in DOMAIN m.at
                                  /\ Following(m, Following(m, o)) = end
    BY <2>1, <1>2, <1>4
  <2>6. \A o \in DOMAIN m.at :
           Walk(m, end)[o] = IF Following(m, o) = end THEN {o} ELSE {o, Following(m, o)}
    <3>1. Short(m, end)
      BY <2>2, <2>4, <2>5, Zenon DEF Short
    <3> QED BY <2>2, <3>1, ShortWalk, Zenon
  <2> QED BY <1>2, <1>4, <2>1, <2>6
<1>6. Top(m, 16, "AF_SPEC") = {48}
  BY <1>2, <1>5 DEF Top, Attributes
<1>7. Inside(m, {48}, "AF_MCTP") = {64}
  <2>1. 48 + RTA_LENGTH(0) = 52 /\ 48 + m.at[48].len = 76
    BY <1>2, <1>3
  <2>2. Inside(m, {48}, "AF_MCTP") = Attributes(m, 52, 76, "AF_MCTP")
    <3>1. Inside(m, {48}, "AF_MCTP")
            = Attributes(m, 48 + RTA_LENGTH(0), 48 + m.at[48].len, "AF_MCTP")
      BY InsideOne
    <3> QED BY <2>1, <3>1
  <2> QED BY <1>2, <1>5, <2>2 DEF Attributes
<1>8. Inside(m, {64}, "MCTP_NET") = {68}
  <2>1. 64 + RTA_LENGTH(0) = 68 /\ 64 + m.at[64].len = 76
    BY <1>2, <1>3
  <2>2. Inside(m, {64}, "MCTP_NET") = Attributes(m, 68, 76, "MCTP_NET")
    <3>1. Inside(m, {64}, "MCTP_NET")
            = Attributes(m, 64 + RTA_LENGTH(0), 64 + m.at[64].len, "MCTP_NET")
      BY InsideOne
    <3> QED BY <2>1, <3>1
  <2> QED BY <1>2, <1>5, <2>2 DEF Attributes
<1>9. NetIds(m) = {68}
  BY <1>6, <1>7, <1>8 DEF NetIds
<1> QED BY <1>1, <1>2, <1>9 DEF Data

-----------------------------------------------------------------------------
(* The inductive invariant.                                                *)

Answer == [ok : BOOLEAN, net : Nets \cup {0}]

EidCalls == {"setMctpLocalEid", "deleteMctpLocalEid", "addMctpRoute", "removeMctpRoute"}

\* What a call that is under way has been asked for, and of which interface.
CallInv ==
    pc # "idle" =>
      /\ call.op \in Changes \cup {"getMctpInterfaceNetId"} /\ call.name \in Names /\ ifindex \in Indices
      /\ call.op \in EidCalls => call.arg \in Eids
      /\ call.op = "setMctpInterfaceName" => call.arg \in Names
      /\ call.op = "setMctpInterfaceStatus" => call.arg \in BOOLEAN
      /\ call.op = "setMctpInterfaceNetId" => call.arg \in Nets

\* How far it has come: there are at most as many answers as requests were sent.
PlaceInv ==
    /\ pc \in {"idle", "open", "flags", "asked"} => mi = 0 /\ cur_flags = "unknown"
    /\ pc = "asked" => asked \in Indices
    /\ pc \in {"flags", "asked"} => call.op = "setMctpInterfaceNetId"
    /\ mi # 0 => call.op = "setMctpInterfaceNetId"
    /\ Len(answers) <= (IF pc = "recv" THEN mi + 1 ELSE mi)

\* No two interfaces have the same name.
NamesUnique == \A i, j \in Indices : ifs[i] # Gone /\ ifs[j] # Gone /\ ifs[i].name = ifs[j].name => i = j

\* An answer without error says that the kernel has done what was asked.
AnswersInv == call.op \in Changes => \A k \in 1..Len(answers) : answers[k].ok => done

\* While nobody else has touched an interface, the one to change is there under its name;
\* the flags that have been read, if any, are the ones it had when the call began; and
\* it still has them, unless a request was written without them.
FlagsInv ==
    before # "any" =>
      /\ call.op = "setMctpInterfaceNetId" /\ pc # "idle"
      /\ ifs[ifindex] # Gone /\ ifs[ifindex].name = call.name
      /\ pc = "asked" => asked = ifindex
      /\ cur_flags \in {"unknown", before}
      /\ cur_flags # "unknown" \/ mi = 0 => flags(ifindex) = before

NetInv == NetlinkTypeOK /\ CallInv /\ PlaceInv /\ NamesUnique /\ AnswersInv /\ FlagsInv

\* Routes name the interface in an attribute, which is read as it was put there.
LEMMA TargetIs == Target = {ifindex}
BY RouteRequestRead DEF Target

\* An accepted request leaves an interface as the caller wants it, with the flags that
\* were written, and takes no name that another one has.
LEMMA OutcomeIs ==
    ASSUME CallInv, pc # "idle", NEW f \in Interface, NEW g \in Outcome(f)
    PROVE  /\ g \in Interface
           /\ call.op \in Changes => Wanted(g)
           /\ call.op = "setMctpInterfaceNetId" => g.up = UpAfter(f)
           /\ g.name = f.name \/ ifindexByName(g.name) \subseteq {ifindex}
<1>1. /\ call.op \in Changes \cup {"getMctpInterfaceNetId"}
      /\ call.op \in EidCalls => call.arg \in Eids
      /\ call.op = "setMctpInterfaceName" => call.arg \in Names
      /\ call.op = "setMctpInterfaceStatus" => call.arg \in BOOLEAN
      /\ call.op = "setMctpInterfaceNetId" => call.arg \in Nets
  BY DEF CallInv
<1>2. CASE call.op = "setMctpLocalEid"
  <2>1. PICK e \in {call.arg} \ f.eids : g = [f EXCEPT !.eids = @ \cup {e}]
    BY <1>2, EidRequestRead DEF Outcome
  <2> QED BY <1>1, <1>2, <2>1 DEF Interface, Wanted, EidCalls
<1>3. CASE call.op = "deleteMctpLocalEid"
  <2>1. PICK e \in {call.arg} \cap f.eids : g = [f EXCEPT !.eids = @ \ {e}]
    BY <1>3, EidRequestRead DEF Outcome
  <2> QED BY <1>1, <1>3, <2>1 DEF Interface, Wanted, EidCalls
<1>4. CASE call.op = "addMctpRoute"
  <2>1. PICK e \in {call.arg} \ f.routes : g = [f EXCEPT !.routes = @ \cup {e}]
    BY <1>4, RouteRequestRead DEF Outcome
  <2> QED BY <1>1, <1>4, <2>1 DEF Interface, Wanted, EidCalls
<1>5. CASE call.op = "removeMctpRoute"
  <2>1. PICK e \in {call.arg} \cap f.routes : g = [f EXCEPT !.routes = @ \ {e}]
    BY <1>5, RouteRequestRead DEF Outcome
  <2> QED BY <1>1, <1>5, <2>1 DEF Interface, Wanted, EidCalls
<1>6. CASE call.op = "setMctpInterfaceName"
  <2>1. PICK n \in {x \in {call.arg} : ifindexByName(x) \subseteq {ifindex}} : g = [f EXCEPT !.name = n]
    BY <1>6, NameRequestRead, TargetIs DEF Outcome
  <2> QED BY <1>1, <1>6, <2>1 DEF Interface, Wanted
<1>7. CASE call.op = "setMctpInterfaceStatus"
  <2>1. g = [f EXCEPT !.up = call.arg]
    BY <1>7 DEF Outcome
  <2> QED BY <1>1, <1>7, <2>1 DEF Interface, Wanted
<1>8. CASE call.op = "setMctpInterfaceNetId"
  <2>1. g = [[f EXCEPT !.up = UpAfter(f)] EXCEPT !.net = call.arg]
    <3>1. PICK net : net = Data(NetRequest(call.arg), NetIds(NetRequest(call.arg)))
      OBVIOUS
    <3>2. net = {call.arg} /\ net # {}
      BY <3>1, NetRequestRead
    <3>3. Outcome(f) = {[[f EXCEPT !.up = UpAfter(f)] EXCEPT !.net = n] : n \in net}
      BY <1>8, <3>1, <3>2 DEF Outcome
    <3> QED BY <3>2, <3>3
  <2>2. UpAfter(f) \in BOOLEAN
    BY DEF UpAfter, Interface
  <2> QED BY <1>1, <1>8, <2>1, <2>2 DEF Interface, Wanted
<1>9. CASE call.op = "getMctpInterfaceNetId"
  <2>1. g = f
    BY <1>9 DEF Outcome
  <2> QED BY <1>9, <2>1 DEF Changes
<1> QED BY <1>1, <1>2, <1>3, <1>4, <1>5, <1>6, <1>7, <1>8, <1>9 DEF Changes

LEMMA InitInv == ASSUME Init PROVE NetInv
<1>1. NoCall.op = "none"
  BY DEF NoCall
<1>2. answers = <<>> /\ answers \in Seq(Answer) /\ Len(answers) = 0
  BY DEF Init
<1>3. NetlinkTypeOK
  <2>1. socks = CASE pc \in {"idle", "open"} -> 0 [] pc = "asked" -> 2 [] OTHER -> 1
    BY DEF Init
  <2>2. answers \in Seq([ok : BOOLEAN, net : Nets \cup {0}]) /\ Len(answers) <= 3
    BY <1>2 DEF Answer
  <2>3. ifs \in [Indices -> {Gone} \cup Interface]
    BY DEF Init
  <2>4. born \subseteq Indices /\ pc = "idle" /\ call = NoCall /\ ifindex = 0 /\ asked = 0
        /\ cur_flags = "unknown" /\ mi \in 0..2 /\ before = "any"
    BY DEF Init
  <2>5. result \in BOOLEAN /\ done \in BOOLEAN
    BY DEF Init
  <2> QED BY <2>1, <2>2, <2>3, <2>4, <2>5 DEF NetlinkTypeOK
<1>4. CallInv /\ PlaceInv /\ NamesUnique /\ FlagsInv
  BY <1>2 DEF Init, CallInv, PlaceInv, NamesUnique, FlagsInv
<1>5. AnswersInv
  BY <1>1 DEF Init, AnswersInv, Changes
<1> QED BY <1>3, <1>4, <1>5 DEF NetInv

\* A call may end anywhere, once its sockets are closed.
LEMMA LeaveInv ==
    ASSUME NetInv, NEW r \in BOOLEAN, Leave(r), socks' = 0, UNCHANGED kernel, done' \in BOOLEAN
    PROVE  NetInv'
<1>1. NoCall.op = "none"
  BY DEF NoCall
<1>2. answers' = <<>> /\ answers' \in Seq(Answer) /\ Len(answers') = 0
  BY DEF Leave
<1>3. ifs' = ifs /\ born' = born
  BY DEF kernel
<1>4. NetlinkTypeOK'
  BY <1>2, <1>3 DEF NetInv, NetlinkTypeOK, Leave, Answer
<1>5. CallInv' /\ PlaceInv' /\ FlagsInv'
  BY <1>2 DEF Leave, CallInv, PlaceInv, FlagsInv
<1>6. NamesUnique'
  BY <1>3 DEF NetInv, NamesUnique
<1>7. AnswersInv'
  BY <1>1 DEF Leave, AnswersInv, Changes
<1> QED BY <1>4, <1>5, <1>6, <1>7 DEF NetInv

LEMMA BeginInv ==
    ASSUME NetInv, NEW op \in Changes \cup {"getMctpInterfaceNetId"}, NEW name \in Names, NEW arg,
           op \in EidCalls => arg \in Eids,
           op = "setMctpInterfaceName" => arg \in Names,
           op = "setMctpInterfaceStatus" => arg \in BOOLEAN,
           op = "setMctpInterfaceNetId" => arg \in Nets,
           Begin(op, name, arg)
    PROVE  NetInv'
<1>1. PICK i \in ifindexByName(name) :
         ifindex' = i /\ before' = IF op = "setMctpInterfaceNetId" THEN flags(i) ELSE "any"
  BY DEF Begin
<1>2. i \in Indices /\ ifs[i] # Gone /\ ifs[i].name = name
  BY <1>1 DEF ifindexByName
<1>3. /\ pc = "idle" /\ pc' = "open" /\ result' = FALSE /\ done' = FALSE
      /\ call'.op = op /\ call'.name = name /\ call'.arg = arg
      /\ asked' = asked /\ socks' = socks /\ cur_flags' = cur_flags /\ mi' = mi /\ answers' = answers
      /\ ifs' = ifs /\ born' = born
  BY DEF Begin, kernel
<1>4. mi = 0 /\ cur_flags = "unknown" /\ Len(answers) <= mi
  BY <1>3 DEF NetInv, PlaceInv
<1>5. flags(i) \in {"up", "down"}
  BY DEF flags
<1>6. NetlinkTypeOK'
  <2>1. socks' = CASE pc' \in {"idle", "open"} -> 0 [] pc' = "asked" -> 2 [] OTHER -> 1
    BY <1>3 DEF NetInv, NetlinkTypeOK
  <2>2. result' \in BOOLEAN /\ done' \in BOOLEAN
    BY <1>3
  <2>3. ifindex' \in Indices \cup {0} /\ before' \in {"any", "up", "down"}
    BY <1>1, <1>2, <1>5
  <2>4. ifs' \in [Indices -> {Gone} \cup Interface] /\ born' \subseteq Indices /\ asked' \in Indices \cup {0}
        /\ cur_flags' \in {"unknown", "up", "down"} /\ mi' \in 0..2
    BY <1>3 DEF NetInv, NetlinkTypeOK
  <2>5. answers' \in Seq([ok : BOOLEAN, net : Nets \cup {0}]) /\ Len(answers') <= 3
    BY <1>3 DEF NetInv, NetlinkTypeOK
  <2> QED BY <1>3, <2>1, <2>2, <2>3, <2>4, <2>5 DEF NetlinkTypeOK
<1>7. CallInv'
  BY <1>1, <1>2, <1>3 DEF CallInv
<1>8. PlaceInv'
  BY <1>3, <1>4 DEF PlaceInv
<1>9. NamesUnique'
  BY <1>3 DEF NetInv, NamesUnique
<1>10. AnswersInv'
  <2>1. Len(answers') = 0
    BY <1>3, <1>4, answers \in Seq([ok : BOOLEAN, net : Nets \cup {0}]), LenProperties DEF NetInv, NetlinkTypeOK
  <2> QED BY <2>1 DEF AnswersInv
<1>11. FlagsInv'
  BY <1>1, <1>2, <1>3, <1>4 DEF FlagsInv, flags
<1> QED BY <1>6, <1>7, <1>8, <1>9, <1>10, <1>11 DEF NetInv

\* The steps before the first request: only the place, the socket and what the name was
\* resolved to for the flags change.
LEMMA PrepareInv ==
    ASSUME NetInv, pc \in {"open", "flags", "asked"}, pc' \in {"flags", "asked", "send"},
           pc' \in {"flags", "asked"} => call.op = "setMctpInterfaceNetId",
           socks' = IF pc' = "asked" THEN 2 ELSE 1,
           asked' \in Indices \cup {0}, pc' = "asked" => asked' \in ifindexByName(call.name),
           pc' = "send" \/ cur_flags' = "unknown",
           cur_flags' = "unknown" \/ (cur_flags' = flags(asked) /\ pc = "asked"),
           UNCHANGED <<call, ifindex, mi, answers, result, kernel, history>>
    PROVE  NetInv'
<1>1. /\ call' = call /\ ifindex' = ifindex /\ mi' = mi /\ answers' = answers /\ result' = result
      /\ ifs' = ifs /\ born' = born /\ done' = done /\ before' = before
  BY DEF kernel, history
<1>2. /\ mi = 0 /\ Len(answers) <= mi
      /\ call.op \in Changes \cup {"getMctpInterfaceNetId"} /\ call.name \in Names /\ ifindex \in Indices
  BY DEF NetInv, PlaceInv, CallInv
<1>3. cur_flags' \in {"unknown", "up", "down"}
  BY DEF flags
<1>4. NetlinkTypeOK'
  <2>1. socks' = CASE pc' \in {"idle", "open"} -> 0 [] pc' = "asked" -> 2 [] OTHER -> 1
    OBVIOUS
  <2> QED BY <1>1, <1>2, <1>3, <2>1 DEF NetInv, NetlinkTypeOK
<1>5. CallInv'
  BY <1>1 DEF NetInv, CallInv
<1>6. asked' \in ifindexByName(call.name) => asked' \in Indices /\ ifs[asked'] # Gone /\ ifs[asked'].name = call.name
  BY DEF ifindexByName
<1>7. PlaceInv'
  BY <1>1, <1>2, <1>6 DEF NetInv, PlaceInv
<1>8. NamesUnique' /\ AnswersInv'
  BY <1>1 DEF NetInv, NamesUnique, AnswersInv
<1>9. FlagsInv'
  <2> SUFFICES ASSUME before # "any" PROVE FlagsInv'
    BY <1>1 DEF FlagsInv
  <2>1. /\ call.op = "setMctpInterfaceNetId" /\ ifs[ifindex] # Gone /\ ifs[ifindex].name = call.name
        /\ pc = "asked" => asked = ifindex
        /\ flags(ifindex) = before
    BY <1>2 DEF NetInv, FlagsInv
  <2>2. flags(ifindex)' = before'
    BY <1>1, <2>1 DEF flags
  <2>3. pc' = "asked" => asked' = ifindex
    BY <1>2, <1>6, <2>1 DEF NetInv, NamesUnique
  <2>4. cur_flags' \in {"unknown", before}
    BY <2>1
  <2> QED BY <1>1, <2>1, <2>2, <2>3, <2>4 DEF FlagsInv
<1> QED BY <1>4, <1>5, <1>7, <1>8, <1>9 DEF NetInv

LEMMA ReturnInv ==
    ASSUME NetInv, NEW r \in BOOLEAN, pc \in {"send", "recv"}, Return(r), UNCHANGED kernel, done' \in BOOLEAN
    PROVE  NetInv'
<1>1. Leave(r) /\ socks' = socks - 1
  BY Zenon DEF Return
<1>2. socks = 1
  BY DEF NetInv, NetlinkTypeOK
<1>3. socks' = 0
  BY <1>1, <1>2
<1> QED BY <1>1, <1>3, LeaveInv

\* A request that failed: the next mask is tried, or the call ends.
LEMMA FailedInv ==
    ASSUME NetInv, pc \in {"send", "recv"}, NEW left \in Seq(Answer),
           Len(left) <= (IF pc = "recv" THEN mi + 1 ELSE mi),
           call.op \in Changes => \A k \in 1..Len(left) : left[k].ok => done,
           Failed(left), UNCHANGED <<kernel, done>>
    PROVE  NetInv'
<1>1. ifs' = ifs /\ born' = born /\ done' = done
  BY DEF kernel
<1>2. socks = 1 /\ mi \in 0..2 /\ done \in BOOLEAN
  BY DEF NetInv, NetlinkTypeOK
<1>3. CASE ~(call.op = "setMctpInterfaceNetId" /\ mi < 2)
  <2>1. Return(FALSE)
    BY <1>3, Zenon DEF Failed
  <2> QED BY <1>1, <1>2, <2>1, ReturnInv
<1>4. CASE call.op = "setMctpInterfaceNetId" /\ mi < 2
  <2>1. /\ pc' = "send" /\ mi' = mi + 1 /\ answers' = left /\ call' = call /\ ifindex' = ifindex
        /\ asked' = asked /\ socks' = socks /\ cur_flags' = cur_flags /\ result' = result /\ before' = before
    BY <1>4 DEF Failed
  <2>2. mi' \in 0..2 /\ mi' # 0 /\ Len(left) <= mi'
    BY <1>2, <1>4, <2>1
  <2>3. NetlinkTypeOK'
    <3>1. socks' = CASE pc' \in {"idle", "open"} -> 0 [] pc' = "asked" -> 2 [] OTHER -> 1
      BY <1>2, <2>1
    <3>2. answers' \in Seq([ok : BOOLEAN, net : Nets \cup {0}]) /\ Len(answers') <= 3
      BY <2>1, <2>2, LenProperties DEF Answer
    <3> QED BY <1>1, <2>1, <2>2, <3>1, <3>2 DEF NetInv, NetlinkTypeOK
  <2>4. CallInv'
    BY <2>1 DEF NetInv, CallInv
  <2>5. PlaceInv'
    BY <1>4, <2>1, <2>2 DEF PlaceInv
  <2>6. NamesUnique' /\ AnswersInv'
    BY <1>1, <2>1 DEF NetInv, NamesUnique, AnswersInv
  <2>7. FlagsInv'
    BY <1>1, <2>1, <2>2 DEF NetInv, FlagsInv, flags
  <2> QED BY <2>3, <2>4, <2>5, <2>6, <2>7 DEF NetInv
<1> QED BY <1>3, <1>4

LEMMA AnswersType == ASSUME NetInv PROVE answers \in Seq(Answer) /\ Len(answers) \in Nat
BY LenProperties DEF NetInv, NetlinkTypeOK, Answer

\* An interface changes and keeps its name, or takes one that nobody else has.
LEMMA InterfaceChanges ==
    ASSUME NetInv, NEW i \in Indices, NEW f \in Interface, ifs' = [ifs EXCEPT ![i] = f],
           \/ ifs[i] # Gone /\ f.name = ifs[i].name
           \/ ifindexByName(f.name) \subseteq {i}
    PROVE  ifs' \in [Indices -> {Gone} \cup Interface] /\ NamesUnique'
<1>1. ifs \in [Indices -> {Gone} \cup Interface]
  BY DEF NetInv, NetlinkTypeOK
<1>2. ifs' \in [Indices -> {Gone} \cup Interface] /\ ifs'[i] = f /\ \A j \in Indices \ {i} : ifs'[j] = ifs[j]
  BY <1>1
<1>3. ASSUME NEW j \in Indices \ {i}, ifs[j] # Gone PROVE ifs[j].name # f.name
  BY <1>3 DEF NetInv, NamesUnique, ifindexByName
<1>4. ASSUME NEW j \in Indices, NEW k \in Indices, ifs'[j] # Gone, ifs'[k] # Gone, ifs'[j].name = ifs'[k].name
      PROVE  j = k
  <2>1. CASE j = i \/ k = i
    BY <1>2, <1>3, <1>4, <2>1
  <2>2. CASE j # i /\ k # i
    BY <1>2, <1>4, <2>2 DEF NetInv, NamesUnique
  <2> QED BY <2>1, <2>2
<1> QED BY <1>2, <1>4 DEF NamesUnique

\* What the kernel makes of a request keeps the invariant if the answer that it adds
\* is true and the flags of an interface that nobody else touched are kept.
LEMMA HandledInv ==
    ASSUME NetInv, pc = "send", pc' = "recv",
           UNCHANGED <<born, call, ifindex, asked, socks, cur_flags, mi, result, before>>,
           ifs' \in [Indices -> {Gone} \cup Interface], NamesUnique',
           done' \in BOOLEAN, done => done',
           NEW a \in Answer, answers' = Append(answers, a), call.op \in Changes /\ a.ok => done',
           before # "any" => /\ ifs'[ifindex] # Gone /\ ifs'[ifindex].name = call.name
                             /\ ifs'[ifindex].up = UpAfter(ifs[ifindex]) \/ ifs'[ifindex] = ifs[ifindex]
    PROVE  NetInv'
<1>1. answers \in Seq(Answer) /\ Len(answers) \in Nat
  BY AnswersType
<1>2. /\ answers' \in Seq(Answer) /\ Len(answers') = Len(answers) + 1 /\ answers'[Len(answers) + 1] = a
      /\ \A k \in 1..Len(answers) : answers'[k] = answers[k]
  BY <1>1, AppendProperties
<1>3. Len(answers) <= mi /\ mi \in 0..2
  BY DEF NetInv, PlaceInv, NetlinkTypeOK
<1>4. NetlinkTypeOK'
  <2>1. socks' = CASE pc' \in {"idle", "open"} -> 0 [] pc' = "asked" -> 2 [] OTHER -> 1
    BY DEF NetInv, NetlinkTypeOK
  <2>2. answers' \in Seq([ok : BOOLEAN, net : Nets \cup {0}]) /\ Len(answers') <= 3
    BY <1>1, <1>2, <1>3 DEF Answer
  <2> QED BY <2>1, <2>2 DEF NetInv, NetlinkTypeOK
<1>5. CallInv'
  BY DEF NetInv, CallInv
<1>6. PlaceInv'
  BY <1>1, <1>2, <1>3 DEF NetInv, PlaceInv
<1>7. AnswersInv'
  <2> SUFFICES ASSUME call.op \in Changes, NEW k \in 1..Len(answers'), answers'[k].ok PROVE done'
    BY DEF AnswersInv
  <2>1. CASE k \in 1..Len(answers)
    BY <1>2, <2>1 DEF NetInv, AnswersInv
  <2>2. CASE k = Len(answers) + 1
    BY <1>2, <2>2
  <2> QED BY <1>1, <1>2, <2>1, <2>2
<1>8. FlagsInv'
  <2> SUFFICES ASSUME before # "any" PROVE FlagsInv'
    BY DEF FlagsInv
  <2>1. /\ call.op = "setMctpInterfaceNetId" /\ cur_flags \in {"unknown", before}
        /\ cur_flags # "unknown" \/ mi = 0 => flags(ifindex) = before
    BY DEF NetInv, FlagsInv
  <2>2. ifindex \in Indices /\ ifs[ifindex] \in Interface /\ ifs'[ifindex] \in Interface
    BY DEF NetInv, CallInv, NetlinkTypeOK, FlagsInv
  <2>3. before \in {"up", "down"}
    BY DEF NetInv, NetlinkTypeOK
  <2>4. ASSUME cur_flags # "unknown" \/ mi = 0 PROVE flags(ifindex)' = before
    <3>1. flags(ifindex) = before
      BY <2>1, <2>4
    <3>2. CASE ifs'[ifindex] = ifs[ifindex]
      BY <3>1, <3>2 DEF flags
    <3>3. CASE ifs'[ifindex].up = UpAfter(ifs[ifindex])
      <4>1. UpAfter(ifs[ifindex]) = (before = "up")
        BY <2>1, <2>2, <2>3, <2>4, <3>1 DEF UpAfter, flags, Interface
      <4> QED BY <2>3, <3>3, <4>1 DEF flags
    <3> QED BY <3>2, <3>3
  <2> QED BY <2>1, <2>4 DEF FlagsInv
<1> QED BY <1>4, <1>5, <1>6, <1>7, <1>8 DEF NetInv

LEMMA SendInv == ASSUME NetInv, Send PROVE NetInv'
<1>1. /\ pc = "send" /\ pc' = "recv"
      /\ UNCHANGED <<born, call, ifindex, asked, socks, cur_flags, mi, result, before>>
  BY DEF Send
<1>2. /\ call.op \in Changes \cup {"getMctpInterfaceNetId"} /\ ifindex \in Indices
      /\ ifs \in [Indices -> {Gone} \cup Interface] /\ done \in BOOLEAN
  BY <1>1 DEF NetInv, CallInv, NetlinkTypeOK
<1>3. before # "any" => /\ call.op = "setMctpInterfaceNetId"
                        /\ ifs[ifindex] # Gone /\ ifs[ifindex].name = call.name
  BY DEF NetInv, FlagsInv
<1>4. CASE Accepted
  <2>1. PICK i \in Target \cap Indices : \E f \in Outcomes(i) :
           /\ ifs' = [ifs EXCEPT ![i] = f]
           /\ answers' = IF call.op = "getMctpInterfaceNetId"
                         THEN Append(answers, [ok |-> TRUE, net |-> f.net])
                         ELSE IF WantsAck(call.op) THEN Append(answers, [ok |-> TRUE, net |-> 0]) ELSE answers
           /\ done' = (done \/ (i = ifindex /\ Wanted(f)))
    BY <1>4 DEF Accepted
  <2>2. i = ifindex
    BY <2>1, TargetIs
  <2>3. PICK f \in Outcomes(ifindex) :
           /\ ifs' = [ifs EXCEPT ![ifindex] = f]
           /\ answers' = IF call.op = "getMctpInterfaceNetId"
                         THEN Append(answers, [ok |-> TRUE, net |-> f.net])
                         ELSE IF WantsAck(call.op) THEN Append(answers, [ok |-> TRUE, net |-> 0]) ELSE answers
           /\ done' = (done \/ Wanted(f))
    BY <2>1, <2>2
  <2>4. ifs[ifindex] # Gone /\ ifs[ifindex] \in Interface /\ f \in Outcome(ifs[ifindex])
    BY <1>2, <2>3 DEF Outcomes
  <2>5. /\ f \in Interface
        /\ call.op \in Changes => Wanted(f)
        /\ call.op = "setMctpInterfaceNetId" => f.up = UpAfter(ifs[ifindex])
        /\ f.name = ifs[ifindex].name \/ ifindexByName(f.name) \subseteq {ifindex}
    BY <1>1, <2>4, OutcomeIs DEF NetInv
  <2>6. ifs' \in [Indices -> {Gone} \cup Interface] /\ NamesUnique'
    BY <1>2, <2>3, <2>4, <2>5, InterfaceChanges
  <2>7. ifs'[ifindex] = f /\ f # Gone
    BY <1>2, <2>3, <2>5, NetlinkAssumption
  <2>8. PICK a \in Answer : answers' = Append(answers, a)
    <3>1. f.net \in Nets
      BY <2>5 DEF Interface
    <3>2. CASE call.op = "getMctpInterfaceNetId"
      BY <2>3, <3>1, <3>2 DEF Answer
    <3>3. CASE call.op \in Changes
      <4>1. call.op # "getMctpInterfaceNetId" /\ WantsAck(call.op)
        BY <3>3 DEF WantsAck, Changes
      <4>2. answers' = Append(answers, [ok |-> TRUE, net |-> 0])
        BY <2>3, <4>1, Zenon
      <4>3. [ok |-> TRUE, net |-> 0] \in Answer
        BY DEF Answer
      <4> QED BY <4>2, <4>3
    <3> QED BY <1>2, <3>2, <3>3
  <2>9. done' \in BOOLEAN /\ (done => done') /\ (call.op \in Changes => done')
    BY <2>3, <2>5, Zenon
  <2>10. call.op = "setMctpInterfaceNetId" => f.name = ifs[ifindex].name
    <3> SUFFICES ASSUME call.op = "setMctpInterfaceNetId" PROVE f.name = ifs[ifindex].name
      OBVIOUS
    <3>1. PICK net : net = Data(NetRequest(call.arg), NetIds(NetRequest(call.arg)))
      OBVIOUS
    <3>2. net # {}
      BY <3>1, NetRequestRead
    <3>3. \E n \in net : f = [[ifs[ifindex] EXCEPT !.up = UpAfter(ifs[ifindex])] EXCEPT !.net = n]
      BY <2>4, <3>1, <3>2 DEF Outcome
    <3> QED BY <2>4, <3>3 DEF Interface
  <2>11. before # "any" => /\ ifs'[ifindex] # Gone /\ ifs'[ifindex].name = call.name
                           /\ ifs'[ifindex].up = UpAfter(ifs[ifindex]) \/ ifs'[ifindex] = ifs[ifindex]
    BY <1>3, <2>5, <2>7, <2>10
  <2> QED BY <1>1, <2>6, <2>8, <2>9, <2>11, HandledInv
<1>5. CASE Refused
  <2>1. PICK a \in Answer : answers' = Append(answers, a) /\ a.ok = FALSE
    <3>1. answers' = Append(answers, [ok |-> FALSE, net |-> 0])
      BY <1>5 DEF Refused
    <3>2. [ok |-> FALSE, net |-> 0] \in Answer /\ [ok |-> FALSE, net |-> 0].ok = FALSE
      BY DEF Answer
    <3> QED BY <3>1, <3>2, Zenon
  <2>2. done' = done
    BY <1>5 DEF Refused
  <2>3. /\ ifs' \in [Indices -> {Gone} \cup Interface] /\ NamesUnique'
        /\ before # "any" => /\ ifs'[ifindex] # Gone /\ ifs'[ifindex].name = call.name
                             /\ ifs'[ifindex].up = UpAfter(ifs[ifindex]) \/ ifs'[ifindex] = ifs[ifindex]
    <3>1. CASE ifs' = ifs
      BY <1>2, <1>3, <3>1 DEF NetInv, NamesUnique
    <3>2. CASE ifs[ifindex] # Gone /\ ifs' = [ifs EXCEPT ![ifindex].up = UpAfter(ifs[ifindex])]
      <4>1. PICK f : f = [ifs[ifindex] EXCEPT !.up = UpAfter(ifs[ifindex])]
        OBVIOUS
      <4>2. UpAfter(ifs[ifindex]) \in BOOLEAN
        BY <1>2, <3>2 DEF UpAfter, Interface
      <4>3. f \in Interface /\ f.name = ifs[ifindex].name /\ f.up = UpAfter(ifs[ifindex])
        BY <1>2, <3>2, <4>1, <4>2 DEF Interface
      <4>4. ifs' = [ifs EXCEPT ![ifindex] = f]
        BY <3>2, <4>1
      <4>5. ifs' \in [Indices -> {Gone} \cup Interface] /\ NamesUnique'
        BY <1>2, <3>2, <4>3, <4>4, InterfaceChanges
      <4>6. ifs'[ifindex] = f /\ f # Gone
        BY <1>2, <4>3, <4>4, NetlinkAssumption
      <4> QED BY <1>3, <4>3, <4>5, <4>6
    <3> QED BY <1>5, <3>1, <3>2 DEF Refused
  <2> QED BY <1>1, <1>2, <2>1, <2>2, <2>3, HandledInv
<1> QED BY <1>4, <1>5 DEF Send

LEMMA RecvInv ==
    ASSUME NetInv, SendFails \/ RecvFails \/ RecvAck \/ RecvLink
    PROVE  NetInv'
<1>1. answers \in Seq(Answer) /\ Len(answers) \in Nat
  BY AnswersType
<1>2. /\ Len(answers) <= (IF pc = "recv" THEN mi + 1 ELSE mi) /\ mi \in 0..2 /\ done \in BOOLEAN
      /\ call.op \in Changes => \A k \in 1..Len(answers) : answers[k].ok => done
  BY DEF NetInv, PlaceInv, NetlinkTypeOK, AnswersInv
<1>3. ASSUME answers # <<>>
      PROVE  /\ Head(answers) = answers[1] /\ Head(answers) \in Answer /\ 1 \in 1..Len(answers)
             /\ Tail(answers) \in Seq(Answer) /\ Len(Tail(answers)) = Len(answers) - 1
             /\ \A k \in 1..Len(Tail(answers)) : Tail(answers)[k] = answers[k + 1]
  BY <1>1, <1>3, HeadTailProperties, EmptySeq
<1>4. ASSUME answers # <<>>, pc = "recv"
      PROVE  /\ Len(Tail(answers)) <= (IF pc = "recv" THEN mi + 1 ELSE mi)
             /\ call.op \in Changes => \A k \in 1..Len(Tail(answers)) : Tail(answers)[k].ok => done
  <2>1. Len(Tail(answers)) = Len(answers) - 1 /\ \A k \in 1..Len(Tail(answers)) : Tail(answers)[k] = answers[k + 1]
    BY <1>3, <1>4
  <2>2. \A k \in 1..Len(Tail(answers)) : k + 1 \in 1..Len(answers)
    BY <1>1, <2>1
  <2>3. Len(Tail(answers)) <= mi + 1
    BY <1>1, <1>2, <1>4, <2>1
  <2> QED BY <1>2, <1>4, <2>1, <2>2, <2>3
<1>5. CASE SendFails
  <2>1. pc = "send" /\ Failed(answers) /\ UNCHANGED <<kernel, done>>
    BY <1>5 DEF SendFails
  <2> QED BY <1>1, <1>2, <2>1, FailedInv
<1>6. CASE RecvFails
  <2>1. pc = "recv" /\ answers # <<>> /\ (Failed(answers) \/ Failed(Tail(answers))) /\ UNCHANGED <<kernel, done>>
    BY <1>6 DEF RecvFails
  <2>2. CASE Failed(answers)
    BY <1>1, <1>2, <2>1, <2>2, FailedInv
  <2>3. CASE Failed(Tail(answers))
    BY <1>3, <1>4, <2>1, <2>3, FailedInv
  <2> QED BY <2>1, <2>2, <2>3
<1>7. CASE RecvAck
  <2>1. /\ pc = "recv" /\ answers # <<>> /\ UNCHANGED <<kernel, done>>
        /\ IF Head(answers).ok THEN Return(TRUE) ELSE Failed(Tail(answers))
    BY <1>7 DEF RecvAck
  <2>2. CASE Return(TRUE)
    BY <1>2, <2>1, <2>2, ReturnInv
  <2>3. CASE Failed(Tail(answers))
    BY <1>3, <1>4, <2>1, <2>3, FailedInv
  <2> QED BY <2>1, <2>2, <2>3
<1>8. CASE RecvLink
  <2>1. PICK out_net : /\ Return(Head(answers).ok /\ out_net # {})
                       /\ done' = (out_net = {Head(answers).net})
    BY <1>8 DEF RecvLink
  <2>2. pc = "recv" /\ UNCHANGED kernel
    BY <1>8 DEF RecvLink
  <2>3. PICK r : r = (Head(answers).ok /\ out_net # {})
    OBVIOUS
  <2>4. r \in BOOLEAN /\ Return(r)
    BY <2>1, <2>3, Zenon
  <2>5. done' \in BOOLEAN
    BY <2>1, Zenon
  <2> QED BY <2>2, <2>4, <2>5, ReturnInv
<1> QED BY <1>5, <1>6, <1>7, <1>8

\* What somebody else does to an interface ends what is known about its flags.
LEMMA OthersInv == ASSUME NetInv, Others PROVE NetInv'
<1>1. /\ before' = "any" /\ call' = call /\ pc' = pc /\ ifindex' = ifindex /\ asked' = asked /\ socks' = socks
      /\ cur_flags' = cur_flags /\ mi' = mi /\ answers' = answers /\ result' = result /\ done' = done
  BY DEF Others, callVars
<1>2. ifs \in [Indices -> {Gone} \cup Interface] /\ born \subseteq Indices
  BY DEF NetInv, NetlinkTypeOK
<1>3. PICK i \in Indices : \/ \E name \in Names : Create(i, name) \/ Rename(i, name)
                           \/ Remove(i) \/ RaiseOrLower(i)
  BY DEF Others
<1>4. ifs' \in [Indices -> {Gone} \cup Interface] /\ born' \subseteq Indices /\ NamesUnique'
  <2>1. ASSUME NEW name \in Names, Create(i, name)
        PROVE  ifs' \in [Indices -> {Gone} \cup Interface] /\ born' \subseteq Indices /\ NamesUnique'
    <3>1. PICK f : f = NewInterface(name)
      OBVIOUS
    <3>2. f \in Interface /\ f.name = name
      BY <3>1, NetlinkAssumption DEF NewInterface, Interface
    <3>3. ifs' = [ifs EXCEPT ![i] = f] /\ born' \subseteq Indices /\ ifindexByName(f.name) = {}
      BY <1>2, <2>1, <3>1, <3>2 DEF Create
    <3> QED BY <3>2, <3>3, InterfaceChanges
  <2>2. ASSUME NEW name \in Names, Rename(i, name)
        PROVE  ifs' \in [Indices -> {Gone} \cup Interface] /\ born' \subseteq Indices /\ NamesUnique'
    <3>1. PICK f : f = [ifs[i] EXCEPT !.name = name]
      OBVIOUS
    <3>2. ifs[i] \in Interface /\ born' \subseteq Indices /\ ifindexByName(name) = {}
      BY <1>2, <2>2 DEF Rename
    <3>3. f \in Interface /\ f.name = name
      BY <3>1, <3>2 DEF Interface
    <3>4. ifs' = [ifs EXCEPT ![i] = f]
      BY <2>2, <3>1 DEF Rename
    <3> QED BY <3>2, <3>3, <3>4, InterfaceChanges
  <2>3. ASSUME Remove(i)
        PROVE  ifs' \in [Indices -> {Gone} \cup Interface] /\ born' \subseteq Indices /\ NamesUnique'
    BY <1>2, <2>3 DEF Remove, NetInv, NamesUnique
  <2>4. ASSUME RaiseOrLower(i)
        PROVE  ifs' \in [Indices -> {Gone} \cup Interface] /\ born' \subseteq Indices /\ NamesUnique'
    <3>1. PICK f : f = [ifs[i] EXCEPT !.up = ~@]
      OBVIOUS
    <3>2. ifs[i] \in Interface /\ ifs[i] # Gone /\ born' \subseteq Indices
      BY <1>2, <2>4 DEF RaiseOrLower
    <3>3. f \in Interface /\ f.name = ifs[i].name
      BY <3>1, <3>2 DEF Interface
    <3>4. ifs' = [ifs EXCEPT ![i] = f]
      BY <2>4, <3>1 DEF RaiseOrLower
    <3> QED BY <3>2, <3>3, <3>4, InterfaceChanges
  <2> QED BY <1>3, <2>1, <2>2, <2>3, <2>4
<1>5. NetlinkTypeOK'
  BY <1>1, <1>4 DEF NetInv, NetlinkTypeOK
<1>6. CallInv' /\ PlaceInv' /\ AnswersInv' /\ FlagsInv'
  BY <1>1 DEF NetInv, CallInv, PlaceInv, AnswersInv, FlagsInv
<1> QED BY <1>4, <1>5, <1>6 DEF NetInv

LEMMA CallsInv == ASSUME NetInv, NEW name \in Names, Calls(name) PROVE NetInv'
<1>1. CASE NotFound(name)
  <2>1. /\ pc = "idle" /\ pc' = pc /\ call' = call /\ ifindex' = ifindex /\ asked' = asked /\ socks' = socks
        /\ cur_flags' = cur_flags /\ mi' = mi /\ answers' = answers /\ result' = FALSE /\ done' = done
        /\ before' = before /\ ifs' = ifs /\ born' = born
    BY <1>1 DEF NotFound, kernel, history
  <2>2. NetlinkTypeOK'
    BY <2>1 DEF NetInv, NetlinkTypeOK
  <2>3. CallInv' /\ PlaceInv' /\ AnswersInv' /\ FlagsInv' /\ NamesUnique'
    BY <2>1 DEF NetInv, CallInv, PlaceInv, AnswersInv, FlagsInv, NamesUnique, flags
  <2> QED BY <2>2, <2>3 DEF NetInv
<1>2. CASE setMctpLocalEid(name)
  BY <1>2, BeginInv DEF setMctpLocalEid, EidCalls, Changes
<1>3. CASE deleteMctpLocalEid(name)
  BY <1>3, BeginInv DEF deleteMctpLocalEid, EidCalls, Changes
<1>4. CASE addMctpRoute(name)
  BY <1>4, BeginInv DEF addMctpRoute, EidCalls, Changes
<1>5. CASE removeMctpRoute(name)
  BY <1>5, BeginInv DEF removeMctpRoute, EidCalls, Changes
<1>6. CASE setMctpInterfaceName(name)
  BY <1>6, BeginInv DEF setMctpInterfaceName, EidCalls, Changes
<1>7. CASE setMctpInterfaceStatus(name)
  BY <1>7, BeginInv DEF setMctpInterfaceStatus, EidCalls, Changes
<1>8. CASE setMctpInterfaceNetId(name)
  BY <1>8, BeginInv DEF setMctpInterfaceNetId, EidCalls, Changes
<1>9. CASE getMctpInterfaceNetId(name)
  BY <1>9, BeginInv DEF getMctpInterfaceNetId, EidCalls, Changes
<1> QED BY <1>1, <1>2, <1>3, <1>4, <1>5, <1>6, <1>7, <1>8, <1>9 DEF Calls

LEMMA FlagsReadInv ==
    ASSUME NetInv, openNetlink \/ openNetlinkFails \/ getInterfaceFlags
    PROVE  NetInv'
<1>1. /\ socks = CASE pc \in {"idle", "open"} -> 0 [] pc = "asked" -> 2 [] OTHER -> 1
      /\ asked \in Indices \cup {0} /\ done \in BOOLEAN
      /\ pc \in {"idle", "open", "flags", "asked"} => cur_flags = "unknown"
      /\ pc \in {"flags", "asked"} => call.op = "setMctpInterfaceNetId"
  BY DEF NetInv, NetlinkTypeOK, PlaceInv
<1>2. CASE openNetlink
  BY <1>1, <1>2, PrepareInv DEF openNetlink
<1>3. CASE openNetlinkFails
  <2>1. Leave(FALSE) /\ UNCHANGED kernel /\ done' = done /\ socks' = socks /\ pc = "open"
    BY <1>3, Zenon DEF openNetlinkFails
  <2> QED BY <1>1, <2>1, LeaveInv
<1>4. CASE AskFlags
  <2>1. asked' \in ifindexByName(call.name) /\ asked' \in Indices
    BY <1>4 DEF AskFlags, ifindexByName
  <2> QED BY <1>1, <1>4, <2>1, PrepareInv DEF AskFlags
<1>5. CASE AskFlagsFails
  BY <1>1, <1>5, PrepareInv DEF AskFlagsFails
<1>6. CASE ReadFlags
  BY <1>1, <1>6, PrepareInv DEF ReadFlags
<1>7. CASE ReadFlagsFails
  BY <1>1, <1>7, PrepareInv DEF ReadFlagsFails
<1> QED BY <1>2, <1>3, <1>4, <1>5, <1>6, <1>7 DEF getInterfaceFlags

LEMMA NextInv == ASSUME NetInv, [Next]_netVars PROVE NetInv'
<1>1. ASSUME NEW name \in Names, Calls(name) PROVE NetInv'
  BY <1>1, CallsInv
<1>2. CASE Caller
  BY <1>2, FlagsReadInv, RecvInv, SendInv DEF Caller, sendNetlinkMessage
<1>3. CASE Others
  BY <1>3, OthersInv
<1>4. CASE UNCHANGED netVars
  <2>1. /\ pc' = pc /\ call' = call /\ ifindex' = ifindex /\ asked' = asked /\ socks' = socks
        /\ cur_flags' = cur_flags /\ mi' = mi /\ answers' = answers /\ result' = result /\ done' = done
        /\ before' = before /\ ifs' = ifs /\ born' = born
    BY <1>4 DEF netVars, kernel, callVars, history
  <2> QED BY <2>1 DEF NetInv, NetlinkTypeOK, CallInv, PlaceInv, AnswersInv, FlagsInv, NamesUnique, flags
<1> QED BY <1>1, <1>2, <1>3, <1>4 DEF Next

-----------------------------------------------------------------------------
(* The theorems.                                                           *)

THEOREM NetlinkInvariant == NetlinkSpec => []NetInv
<1>1. Init => NetInv
  BY InitInv
<1>2. NetInv /\ [Next]_netVars => NetInv'
  BY NextInv
<1> QED BY <1>1, <1>2, PTL DEF NetlinkSpec

\* Every variable of the netlink calls keeps its type, at most three answers wait, and
\* every way out of sendNetlinkMessage(), getInterfaceFlags() and the calls closes the
\* sockets that were opened on the way in.
THEOREM NetlinkTypeCorrect == NetlinkSpec => []NetlinkTypeOK
<1>1. NetInv => NetlinkTypeOK
  BY DEF NetInv
<1> QED BY <1>1, NetlinkInvariant, PTL

\* A call that returns true has been carried out by the kernel, on the interface that
\* had the name when the call began.
THEOREM NetlinkTrueMeansDone == NetlinkSpec => TrueMeansDone
<1>1. ASSUME NetInv, Next, pc # "idle", pc' = "idle", result' PROVE done'
  <2>1. ASSUME RecvAck PROVE done'
    <3>1. /\ call.op \in Changes /\ answers # <<>> /\ done' = done /\ pc = "recv"
          /\ IF Head(answers).ok THEN Return(TRUE) ELSE Failed(Tail(answers))
      BY <2>1 DEF RecvAck
    <3>2. CASE Head(answers).ok
      <4>1. answers \in Seq(Answer) /\ Len(answers) \in Nat
        BY <1>1, AnswersType
      <4>2. Head(answers) = answers[1] /\ 1 \in 1..Len(answers)
        BY <3>1, <4>1, HeadTailProperties, EmptySeq
      <4> QED BY <1>1, <3>1, <3>2, <4>2 DEF NetInv, AnswersInv
    <3>3. CASE ~Head(answers).ok
      BY <1>1, <3>1, <3>3 DEF Failed, Return, Leave
    <3> QED BY <3>2, <3>3
  <2>2. ASSUME RecvLink PROVE done'
    BY <2>2, LinkAnswerRead DEF RecvLink
  <2>3. ASSUME SendFails \/ RecvFails PROVE FALSE
    BY <1>1, <2>3 DEF SendFails, RecvFails, Failed, Return, Leave
  <2>4. ASSUME openNetlinkFails PROVE FALSE
    BY <1>1, <2>4 DEF openNetlinkFails, Leave
  <2>5. ASSUME openNetlink \/ getInterfaceFlags \/ Send PROVE FALSE
    BY <1>1, <2>5 DEF openNetlink, getInterfaceFlags, AskFlags, AskFlagsFails, ReadFlags, ReadFlagsFails, Send
  <2>6. ASSUME Others PROVE FALSE
    BY <1>1, <2>6 DEF Others, callVars
  <2>7. ASSUME NEW name \in Names, Calls(name) PROVE FALSE
    BY <1>1, <2>7 DEF Calls, NotFound, Begin, setMctpLocalEid, deleteMctpLocalEid, addMctpRoute, removeMctpRoute,
                      setMctpInterfaceName, setMctpInterfaceStatus, setMctpInterfaceNetId, getMctpInterfaceNetId
  <2> QED BY <1>1, <2>1, <2>2, <2>3, <2>4, <2>5, <2>6, <2>7 DEF Next, Caller, sendNetlinkMessage
<1>2. NetInv /\ [Next]_netVars => [pc # "idle" /\ pc' = "idle" /\ result' => done']_netVars
  BY <1>1
<1> QED BY <1>2, NetlinkInvariant, PTL DEF NetlinkSpec, TrueMeansDone

\* setMctpInterfaceNetId() leaves the interface as up or down as it was, if nobody else
\* touched an interface and the flags were read or only the first mask was tried.
THEOREM NetlinkFlagsKept == NetlinkSpec => FlagsKept
<1>1. NetInv => (before # "any" /\ (cur_flags # "unknown" \/ mi = 0) => flags(ifindex) = before)
  BY DEF NetInv, FlagsInv
<1>2. NetInv /\ [Next]_netVars =>
        [pc # "idle" /\ pc' = "idle" /\ before # "any" /\ (cur_flags # "unknown" \/ mi = 0)
           => flags(ifindex) = before]_netVars
  BY <1>1
<1> QED BY <1>2, NetlinkInvariant, PTL DEF NetlinkSpec, FlagsKept
=============================================================================
