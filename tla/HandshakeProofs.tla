-------------------------- MODULE HandshakeProofs --------------------------
(***************************************************************************)
(* Proofs about the handshake, for every size of a header and of a device  *)
(* info and any number of attempts, runs and toggles.                      *)
(*                                                                         *)
(* The bytes that p has still to read are Inbound(p), whether they have    *)
(* been delivered or not.  Writers add whole packets at the end, readers   *)
(* and hang-ups take bytes off the front, at any place: so a cell that is  *)
(* not the last of its packet is always followed by the next one, however  *)
(* long ago the first ones were lost.  This, stated for two cells at any   *)
(* distance (Unbroken), needs no induction over the packet.                *)
(*                                                                         *)
(* On this rest that a copied info is whole (InfoWhole), that a page shows *)
(* the client's (TargetTrue), and that the info a client has read was sent *)
(* with the host's success (OrderInvariance).  Together they show that the *)
(* packets implement Exchange.                                             *)
(*                                                                         *)
(* When nothing is late the exchange goes through eight moments, each with *)
(* its own packets on the line (Course), and a read waits in vain only     *)
(* before the client has started: so the two sides agree (SidesAgree).     *)
(***************************************************************************)
EXTENDS DeviceInfo, SequenceTheorems, TLAPS

\* The cells of the four packets.
Types == {"INIT_C", "INIT_H", "TX_INFO", "TX_INFO_ACK"}
Size(t) == HdrSize + DataLen(t)
Cell == {c \in [type : Types, from : Nat, re : Nat, part : Nat] : c.part \in 1 .. Size(c.type)}

\* The cell k places after c in its packet.
Later(c, k) == [c EXCEPT !.part = @ + k]

\* Two cells that can be of one packet are.
Unbroken(s) ==
  \A i, j \in DOMAIN s :
    i <= j /\ s[i].part + (j - i) <= Size(s[i].type) => s[j] = Later(s[i], j - i)

\* The last packet is whole.
Ended(s) == \A i \in DOMAIN s : Size(s[i].type) - s[i].part <= Len(s) - i

\* The cells are of sessions 1 .. m of the writer, and answer sessions up to n
\* of the reader.
Dated(s, m, n) == \A i \in DOMAIN s : s[i].from \in 1 .. m /\ s[i].re \in 0 .. n

\* A part of the line.
Line(s, m, n) == s \in Seq(Cell) /\ Unbroken(s) /\ Ended(s) /\ Dated(s, m, n)

\* What p has still to read.
Inbound(p) == avail[p] \o wire[p]

\* Between the two reads of a packet, what comes next is its data.
DataNext(p) ==
  waiting[p] = "data" =>
    /\ header[p] \in Cell /\ header[p].type = "TX_INFO_ACK" /\ header[p].part = HdrSize
    /\ InfoSize <= Len(Inbound(p))
    /\ header[p].from \in 1 .. session[Peer(p)] /\ header[p].re \in 0 .. session[p]
    /\ \A j \in DOMAIN Inbound(p) :
         j <= InfoSize => Inbound(p)[j] = Later(header[p], j)

\* What each peer reads, and the two programs' own state.
Reading ==
  /\ waiting \in [Peers -> {"none", "header", "data"}]
  /\ step \in [Peers -> 1 .. 3] /\ header \in [Peers -> Cell \cup {NoCell}]
  /\ session \in [Peers -> Nat] /\ info \in [Peers -> Seq(Cell)]
  /\ \A p \in Peers : Running(p) => session[p] >= 1

\* The types of the line and of its ends.
Control ==
  /\ wire \in [Peers -> Seq(Cell)] /\ avail \in [Peers -> Seq(Cell)]
  /\ Reading

\* Both directions.
Lines == \A p \in Peers : Line(Inbound(p), session[Peer(p)], session[p])

\* The inductive invariant.
IInv ==
  /\ Control
  /\ Lines
  /\ \A p \in Peers : DataNext(p)
  /\ WholeInfo
-----------------------------------------------------------------------------
\* Only the device info has data.
LEMMA Sizes ==
  /\ HdrSize \in Nat \ {0} /\ InfoSize \in Nat \ {0}
  /\ \A t \in Types : Size(t) \in Nat /\ Size(t) = IF t = "TX_INFO_ACK" THEN HdrSize + InfoSize ELSE HdrSize
  /\ \A t \in Types : DataLen(t) = IF t = "TX_INFO_ACK" THEN InfoSize ELSE 0
BY HandshakeAssumption DEF Size, DataLen, Types

\* What is left of a sequence when n cells were taken off the front.
LEMMA RestProperties ==
  ASSUME NEW S, NEW s \in Seq(S), NEW n \in 0 .. Len(s)
  PROVE  /\ Rest(s, n) \in Seq(S) /\ Len(Rest(s, n)) = Len(s) - n
         /\ \A i \in 1 .. Len(s) - n : Rest(s, n)[i] = s[n + i]
<1>1. Len(s) \in Nat /\ n \in Nat /\ n <= Len(s)
  BY LenProperties
<1>2. \A i \in n + 1 .. Len(s) : s[i] \in S
  BY <1>1, ElementOfSeq
<1>3. /\ SubSeq(s, n + 1, Len(s)) \in Seq(S)
      /\ Len(SubSeq(s, n + 1, Len(s))) = IF n + 1 <= Len(s) THEN Len(s) - (n + 1) + 1 ELSE 0
      /\ \A i \in 1 .. Len(s) - (n + 1) + 1 :
           SubSeq(s, n + 1, Len(s))[i] = s[(n + 1) + i - 1]
  BY <1>1, <1>2, SubSeqProperties
<1>4. Len(Rest(s, n)) = Len(s) - n
  BY <1>1, <1>3 DEF Rest
<1>5. ASSUME NEW i \in 1 .. Len(s) - n PROVE Rest(s, n)[i] = s[n + i]
  <2>1. i \in 1 .. Len(s) - (n + 1) + 1 /\ (n + 1) + i - 1 = n + i
    BY <1>1
  <2>2. QED  BY <1>3, <2>1 DEF Rest
<1>6. QED  BY <1>3, <1>4, <1>5 DEF Rest

\* Taking cells off the front, at any place, keeps a line.
LEMMA RestLine ==
  ASSUME NEW s, NEW m \in Nat, NEW k \in Nat, Line(s, m, k), NEW n \in 0 .. Len(s)
  PROVE  Line(Rest(s, n), m, k)
<1> DEFINE r == Rest(s, n)
<1>1. /\ s \in Seq(Cell) /\ Len(s) \in Nat /\ n \in Nat
      /\ DOMAIN s = 1 .. Len(s)
  BY LenProperties DEF Line
<1>2. /\ r \in Seq(Cell) /\ Len(r) = Len(s) - n /\ DOMAIN r = 1 .. Len(s) - n
      /\ \A i \in 1 .. Len(s) - n : r[i] = s[n + i]
  BY <1>1, RestProperties, LenProperties
<1> HIDE DEF r
<1>3. \A i \in DOMAIN r : n + i \in DOMAIN s /\ r[i] = s[n + i] /\ i \in Nat
  BY <1>1, <1>2
<1>4. Unbroken(r)
  <2> SUFFICES ASSUME NEW i \in DOMAIN r, NEW j \in DOMAIN r,
                      i <= j, r[i].part + (j - i) <= Size(r[i].type)
               PROVE  r[j] = Later(r[i], j - i)
    BY DEF Unbroken
  <2>1. (n + j) - (n + i) = j - i /\ n + i <= n + j
    BY <1>1, <1>3
  <2>2. s[n + j] = Later(s[n + i], (n + j) - (n + i))
    BY <1>3, <2>1 DEF Line, Unbroken
  <2>3. QED  BY <1>3, <2>1, <2>2
<1>5. Ended(r)
  <2> SUFFICES ASSUME NEW i \in DOMAIN r PROVE Size(r[i].type) - r[i].part <= Len(r) - i
    BY DEF Ended
  <2>1. Size(s[n + i].type) - s[n + i].part <= Len(s) - (n + i)
    BY <1>3 DEF Line, Ended
  <2>2. Len(s) - (n + i) = Len(r) - i
    BY <1>1, <1>2, <1>3
  <2>3. QED  BY <1>3, <2>1, <2>2
<1>6. Dated(r, m, k)
  BY <1>3 DEF Line, Dated
<1>7. QED  BY <1>2, <1>4, <1>5, <1>6 DEF Line, r

\* So does adding a line at the end, which is where a packet that is whole ends.
LEMMA ConcatLine ==
  ASSUME NEW s, NEW t, NEW m \in Nat, NEW n \in Nat, Line(s, m, n), Line(t, m, n)
  PROVE  Line(s \o t, m, n)
<1> DEFINE u == s \o t
<1>1. /\ s \in Seq(Cell) /\ Len(s) \in Nat /\ DOMAIN s = 1 .. Len(s)
      /\ t \in Seq(Cell) /\ Len(t) \in Nat /\ DOMAIN t = 1 .. Len(t)
  BY LenProperties DEF Line
<1>2. /\ u \in Seq(Cell) /\ Len(u) = Len(s) + Len(t) /\ DOMAIN u = 1 .. Len(s) + Len(t)
      /\ \A i \in 1 .. Len(s) + Len(t) : u[i] = IF i <= Len(s) THEN s[i] ELSE t[i - Len(s)]
  BY <1>1, ConcatProperties, LenProperties
<1> HIDE DEF u
<1>3. ASSUME NEW i \in DOMAIN u
      PROVE  \/ i \in DOMAIN s /\ u[i] = s[i]
             \/ i - Len(s) \in DOMAIN t /\ u[i] = t[i - Len(s)] /\ i > Len(s)
  BY <1>1, <1>2
<1>4. \A i \in DOMAIN s : s[i] \in Cell /\ s[i].part \in Nat /\ Size(s[i].type) \in Nat
  <2>1. \A i \in DOMAIN s : s[i] \in Cell
    BY <1>1, ElementOfSeq
  <2>2. QED  BY <2>1, Sizes DEF Cell
<1>5. Unbroken(u)
  <2> SUFFICES ASSUME NEW i \in DOMAIN u, NEW j \in DOMAIN u,
                      i <= j, u[i].part + (j - i) <= Size(u[i].type)
               PROVE  u[j] = Later(u[i], j - i)
    BY DEF Unbroken
  <2>1. i \in Nat /\ j \in Nat
    BY <1>1, <1>2
  <2>2. CASE j \in DOMAIN s
    <3>1. i \in DOMAIN s
      BY <1>1, <2>1, <2>2, <1>2
    <3>2. u[i] = s[i] /\ u[j] = s[j]
      BY <1>1, <1>2, <2>1, <2>2, <3>1
    <3>3. QED  BY <2>2, <3>1, <3>2 DEF Line, Unbroken
  <2>3. CASE i \in DOMAIN s /\ j \notin DOMAIN s
    <3>1. u[i] = s[i] /\ j > Len(s)
      BY <1>1, <1>2, <2>1, <2>3
    <3>2. Size(s[i].type) - s[i].part <= Len(s) - i
      BY <2>3 DEF Line, Ended
    <3>3. FALSE
      BY <1>1, <1>4, <2>1, <2>3, <3>1, <3>2
    <3>4. QED  BY <3>3
  <2>4. CASE i \notin DOMAIN s
    <3>1. /\ i - Len(s) \in DOMAIN t /\ u[i] = t[i - Len(s)]
          /\ j - Len(s) \in DOMAIN t /\ u[j] = t[j - Len(s)]
      BY <1>1, <1>2, <2>1, <2>4
    <3>2. (j - Len(s)) - (i - Len(s)) = j - i /\ i - Len(s) <= j - Len(s)
      BY <1>1, <2>1
    <3>3. t[j - Len(s)] = Later(t[i - Len(s)], (j - Len(s)) - (i - Len(s)))
      BY <3>1, <3>2 DEF Line, Unbroken
    <3>4. QED  BY <3>1, <3>2, <3>3
  <2>5. QED  BY <2>2, <2>3, <2>4
<1>6. Ended(u)
  <2> SUFFICES ASSUME NEW i \in DOMAIN u PROVE Size(u[i].type) - u[i].part <= Len(u) - i
    BY DEF Ended
  <2>1. CASE i \in DOMAIN s /\ u[i] = s[i]
    <3>1. Size(s[i].type) - s[i].part <= Len(s) - i /\ Len(s) - i <= Len(u) - i
      BY <1>1, <1>2, <2>1 DEF Line, Ended
    <3>2. QED  BY <1>1, <1>2, <1>4, <2>1, <3>1
  <2>2. CASE i - Len(s) \in DOMAIN t /\ u[i] = t[i - Len(s)]
    <3>1. Size(t[i - Len(s)].type) - t[i - Len(s)].part <= Len(t) - (i - Len(s))
      BY <2>2 DEF Line, Ended
    <3>2. Len(t) - (i - Len(s)) = Len(u) - i
      BY <1>1, <1>2
    <3>3. QED  BY <2>2, <3>1, <3>2
  <2>3. QED  BY <1>3, <2>1, <2>2
<1>7. Dated(u, m, n)
  BY <1>3 DEF Line, Dated
<1>8. QED  BY <1>2, <1>5, <1>6, <1>7 DEF Line, u

\* What Later makes of a cell.
LEMMA LaterCell ==
  ASSUME NEW c, NEW t, NEW f, NEW r, NEW a, NEW k,
         c = [type |-> t, from |-> f, re |-> r, part |-> a]
  PROVE  Later(c, k) = [type |-> t, from |-> f, re |-> r, part |-> a + k]
<1>1. Later(c, k) = [[type |-> t, from |-> f, re |-> r, part |-> a] EXCEPT !.part = @ + k]
  BY DEF Later
<1>2. QED  BY <1>1

\* A packet is a line.
LEMMA PacketLine ==
  ASSUME NEW t \in Types, NEW m \in Nat, NEW n \in Nat, NEW f \in 1 .. m, NEW r \in 0 .. n
  PROVE  Line(Packet(t, f, r), m, n)
<1> DEFINE P == Packet(t, f, r)
<1>1. HdrSize + DataLen(t) = Size(t) /\ Size(t) \in Nat
  BY Sizes DEF Size
<1>2. \A i \in 1 .. Size(t) : [type |-> t, from |-> f, re |-> r, part |-> i] \in Cell
  BY <1>1 DEF Cell
<1>3. P \in [1 .. Size(t) -> Cell]
  BY <1>1, <1>2 DEF Packet
<1>4. P \in Seq(Cell) /\ Len(P) = Size(t) /\ DOMAIN P = 1 .. Size(t)
  BY <1>1, <1>3
<1>5. \A i \in 1 .. Size(t) :
        /\ P[i] = [type |-> t, from |-> f, re |-> r, part |-> i]
        /\ P[i].type = t /\ P[i].from = f /\ P[i].re = r /\ P[i].part = i
  BY <1>1 DEF Packet
<1> HIDE DEF P
<1>6. Unbroken(P)
  <2> SUFFICES ASSUME NEW i \in 1 .. Size(t), NEW j \in 1 .. Size(t), i <= j
               PROVE  P[j] = Later(P[i], j - i)
    BY <1>4 DEF Unbroken
  <2>1. i + (j - i) = j
    BY <1>1
  <2>2. Later(P[i], j - i) = [type |-> t, from |-> f, re |-> r, part |-> i + (j - i)]
    <3>1. P[i] = [type |-> t, from |-> f, re |-> r, part |-> i]
      BY <1>5
    <3>2. QED  BY <3>1, LaterCell
  <2>3. QED  BY <1>5, <2>1, <2>2
<1>7. Ended(P)
  BY <1>1, <1>4, <1>5 DEF Ended
<1>8. Dated(P, m, n)
  BY <1>4, <1>5 DEF Dated
<1>9. QED  BY <1>4, <1>6, <1>7, <1>8 DEF Line, P

\* The packets a peer sends on one are a line.
LEMMA PacketsLine ==
  ASSUME NEW p \in Peers, NEW i \in 1 .. 3,
         NEW m \in Nat, NEW n \in Nat, NEW f \in 1 .. m, NEW r \in 0 .. n
  PROVE  Line(Packets(Answers[p][i], f, r), m, n)
<1>1. Line(<<>>, m, n)
  BY DEF Line, Unbroken, Ended, Dated
<1>2. \/ Answers[p][i] = <<>>
      \/ Answers[p][i] = <<"TX_INFO">>
      \/ Answers[p][i] = <<"TX_INFO_ACK">>
      \/ Answers[p][i] = <<"INIT_H">>
      \/ Answers[p][i] = <<"TX_INFO_ACK", "TX_INFO">>
  BY DEF Answers, Peers
<1>3. ASSUME NEW t \in Types PROVE Line(Packets(<<t>>, f, r), m, n)
  <2>1. Packets(<<t>>, f, r) = Packet(t, f, r) \o <<>>
    BY DEF Packets
  <2>2. QED  BY <1>1, <2>1, PacketLine, ConcatLine
<1>4. ASSUME NEW t \in Types, NEW u \in Types PROVE Line(Packets(<<t, u>>, f, r), m, n)
  <2>1. Packets(<<t, u>>, f, r) = Packet(t, f, r) \o Packet(u, f, r)
    BY DEF Packets
  <2>2. QED  BY <2>1, PacketLine, ConcatLine
<1>5. Line(Packets(<<>>, f, r), m, n)
  BY <1>1 DEF Packets
<1>6. QED  BY <1>2, <1>3, <1>4, <1>5 DEF Types
-----------------------------------------------------------------------------
\* A later date admits more.
LEMMA LineLater ==
  ASSUME NEW s, NEW m \in Nat, NEW n \in Nat, NEW m2 \in Nat, NEW n2 \in Nat,
         m <= m2, n <= n2, Line(s, m, n)
  PROVE  Line(s, m2, n2)
BY DEF Line, Dated

\* Taking the first cells of a part of a line.
LEMMA RestConcat ==
  ASSUME NEW S, NEW s \in Seq(S), NEW t \in Seq(S), NEW n \in 0 .. Len(s)
  PROVE  Rest(s, n) \o t = Rest(s \o t, n)
<1> DEFINE u == Rest(s, n) \o t
           v == Rest(s \o t, n)
<1>1. Len(s) \in Nat /\ Len(t) \in Nat /\ n \in Nat /\ n <= Len(s)
  BY LenProperties
<1>2. /\ s \o t \in Seq(S) /\ Len(s \o t) = Len(s) + Len(t)
      /\ \A i \in 1 .. Len(s) + Len(t) : (s \o t)[i] = IF i <= Len(s) THEN s[i] ELSE t[i - Len(s)]
  BY ConcatProperties
<1>3. /\ Rest(s, n) \in Seq(S) /\ Len(Rest(s, n)) = Len(s) - n
      /\ \A i \in 1 .. Len(s) - n : Rest(s, n)[i] = s[n + i]
  BY RestProperties
<1>4. /\ v \in Seq(S) /\ Len(v) = (Len(s) + Len(t)) - n
      /\ \A i \in 1 .. (Len(s) + Len(t)) - n : v[i] = (s \o t)[n + i]
  <2>1. n \in 0 .. Len(s \o t)
    BY <1>1, <1>2
  <2>2. /\ v \in Seq(S) /\ Len(v) = Len(s \o t) - n
        /\ \A i \in 1 .. Len(s \o t) - n : v[i] = (s \o t)[n + i]
    BY <1>2, <2>1, RestProperties
  <2>3. QED  BY <1>2, <2>2
<1>5. /\ u \in Seq(S) /\ Len(u) = (Len(s) - n) + Len(t)
      /\ \A i \in 1 .. (Len(s) - n) + Len(t) :
           u[i] = IF i <= Len(s) - n THEN Rest(s, n)[i] ELSE t[i - (Len(s) - n)]
  <2>1. /\ u \in Seq(S) /\ Len(u) = Len(Rest(s, n)) + Len(t)
        /\ \A i \in 1 .. Len(Rest(s, n)) + Len(t) :
             u[i] = IF i <= Len(Rest(s, n)) THEN Rest(s, n)[i] ELSE t[i - Len(Rest(s, n))]
    BY <1>3, ConcatProperties
  <2>2. QED  BY <1>3, <2>1
<1> HIDE DEF u, v
<1>6. Len(u) = Len(v)
  BY <1>1, <1>4, <1>5
<1>7. ASSUME NEW i \in 1 .. Len(u) PROVE u[i] = v[i]
  <2>1. /\ i \in 1 .. (Len(s) - n) + Len(t) /\ i \in 1 .. (Len(s) + Len(t)) - n
        /\ n + i \in 1 .. Len(s) + Len(t)
    BY <1>1, <1>5
  <2>2. CASE i <= Len(s) - n
    <3>1. n + i <= Len(s) /\ i \in 1 .. Len(s) - n
      BY <1>1, <2>1, <2>2
    <3>2. QED  BY <1>2, <1>3, <1>4, <1>5, <2>1, <2>2, <3>1
  <2>3. CASE ~ (i <= Len(s) - n)
    <3>1. ~ (n + i <= Len(s)) /\ (n + i) - Len(s) = i - (Len(s) - n)
      BY <1>1, <2>1, <2>3
    <3>2. QED  BY <1>2, <1>4, <1>5, <2>1, <2>3, <3>1
  <2>4. QED  BY <2>2, <2>3
<1>8. u = v
  BY <1>4, <1>5, <1>6, <1>7, SeqEqual
<1>9. QED  BY <1>8 DEF u, v

\* What can be taken off a sequence can be taken off a longer one.
LEMMA WithinBoth ==
  ASSUME NEW S, NEW s \in Seq(S), NEW t \in Seq(S), NEW n \in 0 .. Len(s)
  PROVE  n \in 0 .. Len(s \o t)
<1>1. Len(s) \in Nat /\ Len(t) \in Nat /\ Len(s \o t) = Len(s) + Len(t)
  BY LenProperties, ConcatProperties
<1>2. QED  BY <1>1

\* Adding to a line that is partly delivered.
LEMMA Associative ==
  \A s, t, u \in Seq(Cell) : s \o (t \o u) = (s \o t) \o u
BY ConcatAssociative

\* Nothing is left when all cells are taken.
LEMMA RestAll ==
  ASSUME NEW S, NEW s \in Seq(S)
  PROVE  Rest(s, Len(s)) = <<>> /\ Len(s) \in 0 .. Len(s)
<1>1. Len(s) \in Nat
  BY LenProperties
<1>2. QED  BY <1>1, SubSeqEmpty DEF Rest

\* Delivering cells moves them along the line.
LEMMA Delivered ==
  ASSUME NEW S, NEW s \in Seq(S), NEW t \in Seq(S), NEW n \in 1 .. Len(t)
  PROVE  /\ SubSeq(t, 1, n) \in Seq(S) /\ Rest(t, n) \in Seq(S)
         /\ (s \o SubSeq(t, 1, n)) \o Rest(t, n) = s \o t
<1>1. Len(t) \in Nat /\ n \in Nat /\ n \in 0 .. Len(t)
  BY LenProperties
<1>2. SubSeq(t, 1, n) \in Seq(S)
  <2>1. \A i \in 1 .. n : t[i] \in S
    BY <1>1, ElementOfSeq
  <2>2. QED  BY <1>1, <2>1, SubSeqProperties
<1>3. Rest(t, n) \in Seq(S)
  BY <1>1, RestProperties
<1>4. SubSeq(t, 1, n) \o Rest(t, n) = t
  <2>1. 1 \in 1 .. Len(t) + 1 /\ n \in 1 - 1 .. Len(t) /\ Len(t) \in n .. Len(t)
    BY <1>1
  <2>2. SubSeq(t, 1, n) \o SubSeq(t, n + 1, Len(t)) = SubSeq(t, 1, Len(t))
    BY <2>1, ConcatAdjacentSubSeq
  <2>3. QED  BY <2>2, SubSeqFull DEF Rest
<1>5. (s \o SubSeq(t, 1, n)) \o Rest(t, n) = s \o (SubSeq(t, 1, n) \o Rest(t, n))
  BY <1>2, <1>3, ConcatAssociative
<1>6. QED  BY <1>2, <1>3, <1>4, <1>5
-----------------------------------------------------------------------------
\* What a read of p does to the line: cells are taken off the front of what p
\* has to read, and its answer is added to what the peer has.
Taken(p) ==
  /\ session' = session
  /\ \E n \in 0 .. Len(avail[p]) : avail' = [avail EXCEPT ![p] = Rest(avail[p], n)]
  /\ \/ wire' = wire
     \/ \E f \in 1 .. session[Peer(p)] :
          wire' = [wire EXCEPT ![Peer(p)] = @ \o Packets(Answers[p][step[p]], session[p], f)]
  /\ \A q \in Peers \ {p} : waiting'[q] = waiting[q] /\ header'[q] = header[q]

\* The two ends.
LEMMA PeerProperties ==
  /\ Peers = {"host", "client"}
  /\ \A p \in Peers : Peer(p) \in Peers /\ Peer(p) # p /\ Peer(Peer(p)) = p
  /\ \A p \in Peers : \A q \in Peers \ {p} : q = Peer(p)
BY DEF Peers, Peer

\* What p reads next stays the same when more is added to the line.
LEMMA DataNextKept ==
  ASSUME NEW p \in Peers, DataNext(p), waiting'[p] = waiting[p], header'[p] = header[p],
         session[p] \in Nat, session[Peer(p)] \in Nat, session' \in [Peers -> Nat],
         session'[p] >= session[p], session'[Peer(p)] >= session[Peer(p)],
         Inbound(p) \in Seq(Cell), NEW a \in Seq(Cell), Inbound(p)' = Inbound(p) \o a
  PROVE  DataNext(p)'
<1> SUFFICES ASSUME waiting[p] = "data"
    PROVE  /\ InfoSize <= Len(Inbound(p)')
           /\ \A j \in DOMAIN (Inbound(p)') :
                j <= InfoSize => (Inbound(p)')[j] = Later(header[p], j)
  <2>1. Peer(p) \in Peers
    BY PeerProperties
  <2>2. \A m, n \in Nat : m >= n => 1 .. n \subseteq 1 .. m /\ 0 .. n \subseteq 0 .. m
    OBVIOUS
  <2>3. /\ 1 .. session[Peer(p)] \subseteq 1 .. session'[Peer(p)]
        /\ 0 .. session[p] \subseteq 0 .. session'[p]
    BY <2>1, <2>2
  <2>4. QED  BY <2>1, <2>3 DEF DataNext
<1>1. /\ Len(Inbound(p)) \in Nat /\ Len(a) \in Nat
      /\ DOMAIN Inbound(p) = 1 .. Len(Inbound(p))
  BY LenProperties
<1>2. /\ Len(Inbound(p)') = Len(Inbound(p)) + Len(a)
      /\ DOMAIN (Inbound(p)') = 1 .. Len(Inbound(p)) + Len(a)
      /\ \A j \in 1 .. Len(Inbound(p)) + Len(a) :
           j <= Len(Inbound(p)) => (Inbound(p)')[j] = Inbound(p)[j]
  BY <1>1, ConcatProperties, LenProperties
<1>3. /\ InfoSize <= Len(Inbound(p))
      /\ \A j \in DOMAIN Inbound(p) : j <= InfoSize => Inbound(p)[j] = Later(header[p], j)
  BY DEF DataNext
<1>4. InfoSize \in Nat
  BY Sizes
<1>5. QED  BY <1>1, <1>2, <1>3, <1>4

\* Such a read keeps the lines, and what the peer reads next.
LEMMA TakenLines ==
  ASSUME Control, Lines, \A p \in Peers : DataNext(p), NEW p \in Peers, Running(p), Taken(p)
  PROVE  /\ wire' \in [Peers -> Seq(Cell)] /\ avail' \in [Peers -> Seq(Cell)]
         /\ Lines' /\ DataNext(Peer(p))'
<1> DEFINE q == Peer(p)
<1>1. /\ q \in Peers /\ q # p /\ Peer(q) = p
      /\ \A o \in Peers : o = p \/ o = q
  BY PeerProperties
<1> HIDE DEF q
<1>2. /\ session[p] \in Nat /\ session[q] \in Nat /\ session[p] >= 1 /\ step[p] \in 1 .. 3
      /\ avail[p] \in Seq(Cell) /\ avail[q] \in Seq(Cell)
      /\ wire[p] \in Seq(Cell) /\ wire[q] \in Seq(Cell)
  BY <1>1 DEF Control, Reading
<1>3. PICK n \in 0 .. Len(avail[p]) : avail' = [avail EXCEPT ![p] = Rest(avail[p], n)]
  BY DEF Taken
<1>4. /\ Rest(avail[p], n) \in Seq(Cell)
      /\ avail'[p] = Rest(avail[p], n) /\ avail'[q] = avail[q]
      /\ avail' \in [Peers -> Seq(Cell)]
  <2>1. Rest(avail[p], n) \in Seq(Cell)
    BY <1>2, RestProperties
  <2>2. QED  BY <1>1, <1>3, <2>1 DEF Control
<1>5. PICK a \in Seq(Cell) :
        /\ Line(a, session[p], session[q])
        /\ wire'[q] = wire[q] \o a /\ wire'[p] = wire[p]
        /\ wire' \in [Peers -> Seq(Cell)]
  <2>1. CASE wire' = wire
    <3>1. <<>> \in Seq(Cell) /\ Line(<<>>, session[p], session[q])
      BY DEF Line, Unbroken, Ended, Dated
    <3>2. wire[q] \o <<>> = wire[q]
      BY <1>2, ConcatEmptySeq
    <3>3. QED  BY <2>1, <3>1, <3>2 DEF Control
  <2>2. ASSUME NEW f \in 1 .. session[q],
               wire' = [wire EXCEPT ![q] = @ \o Packets(Answers[p][step[p]], session[p], f)]
        PROVE  \E a \in Seq(Cell) :
                 /\ Line(a, session[p], session[q])
                 /\ wire'[q] = wire[q] \o a /\ wire'[p] = wire[p]
                 /\ wire' \in [Peers -> Seq(Cell)]
    <3> DEFINE a == Packets(Answers[p][step[p]], session[p], f)
    <3>1. session[p] \in 1 .. session[p] /\ f \in 0 .. session[q]
      BY <1>2
    <3>2. Line(a, session[p], session[q])
      BY <1>2, <3>1, PacketsLine
    <3> HIDE DEF a
    <3>3. wire' = [wire EXCEPT ![q] = @ \o a]
      BY <2>2 DEF a
    <3>4. a \in Seq(Cell) /\ wire[q] \o a \in Seq(Cell)
      BY <1>2, <3>2, ConcatProperties DEF Line
    <3>5. QED  BY <1>1, <3>2, <3>3, <3>4 DEF Control
  <2>3. QED  BY <2>1, <2>2 DEF Taken, q
<1>6. Inbound(p)' = Rest(Inbound(p), n)
  <2>1. Rest(avail[p], n) \o wire[p] = Rest(avail[p] \o wire[p], n)
    BY <1>2, RestConcat
  <2>2. QED  BY <1>4, <1>5, <2>1 DEF Inbound
<1>7. Inbound(q)' = Inbound(q) \o a
  <2>1. avail[q] \o (wire[q] \o a) = (avail[q] \o wire[q]) \o a
    <3>1. a \in Seq(Cell) /\ avail[q] \in Seq(Cell) /\ wire[q] \in Seq(Cell)
      BY <1>2, <1>5
    <3>2. QED  BY <3>1, Associative
  <2>2. QED  BY <1>4, <1>5, <2>1 DEF Inbound
<1>8. Line(Inbound(p), session[q], session[p]) /\ Line(Inbound(q), session[p], session[q])
  BY <1>1 DEF Lines, q
<1>9. Lines'
  <2>1. n \in 0 .. Len(Inbound(p))
    BY <1>2, <1>3, WithinBoth DEF Inbound
  <2>2. Line(Rest(Inbound(p), n), session[q], session[p])
    BY <1>2, <1>8, <2>1, RestLine
  <2>3. Line(Inbound(q) \o a, session[p], session[q])
    BY <1>2, <1>5, <1>8, ConcatLine
  <2>4. session' = session
    BY DEF Taken
  <2>5. Line(Inbound(p)', session'[q], session'[p]) /\ Line(Inbound(q)', session'[p], session'[q])
    BY <1>6, <1>7, <2>2, <2>3, <2>4
  <2>6. QED  BY <1>1, <2>5 DEF Lines, q
<1>10. DataNext(q)'
  <2>1. /\ waiting'[q] = waiting[q] /\ header'[q] = header[q] /\ session' = session
    BY <1>1 DEF Taken
  <2>2. session'[p] >= session[p] /\ session'[q] >= session[q] /\ session' \in [Peers -> Nat]
    BY <1>2, <2>1 DEF Control, Reading
  <2>3. Inbound(q) \in Seq(Cell)
    BY <1>8 DEF Line
  <2>4. QED  BY <1>1, <1>2, <1>5, <1>7, <2>1, <2>2, <2>3, DataNextKept
<1>11. QED  BY <1>4, <1>5, <1>9, <1>10 DEF q
-----------------------------------------------------------------------------
\* The device info of a packet.
InfoOf(m, n) == SubSeq(Packet("TX_INFO_ACK", m, n), HdrSize + 1, HdrSize + InfoSize)

\* Returning from COM_Handshake takes what was read, or everything.
LEMMA ReturnTaken ==
  ASSUME Control, NEW p \in Peers, NEW n \in 0 .. Len(avail[p]), NEW r,
         Return(p, r, Rest(avail[p], n))
  PROVE  /\ \E k \in 0 .. Len(avail[p]) : avail' = [avail EXCEPT ![p] = Rest(avail[p], k)]
         /\ waiting' = [waiting EXCEPT ![p] = "none"]
         /\ header' = [header EXCEPT ![p] = NoCell] /\ step' = step
<1>1. avail[p] \in Seq(Cell)
  BY DEF Control
<1>2. Rest(avail[p], Len(avail[p])) = <<>> /\ Len(avail[p]) \in 0 .. Len(avail[p])
  BY <1>1, RestAll
<1>3. \/ avail' = [avail EXCEPT ![p] = <<>>]
      \/ avail' = [avail EXCEPT ![p] = Rest(avail[p], n)]
  BY DEF Return, Conclude
<1>4. \E k \in 0 .. Len(avail[p]) : avail' = [avail EXCEPT ![p] = Rest(avail[p], k)]
  BY <1>2, <1>3
<1>5. QED  BY <1>4 DEF Return, Conclude

\* A failed read.
LEMMA FailTaken ==
  ASSUME Control, NEW p \in Peers, Running(p), NEW n \in 0 .. Len(avail[p]),
         session' = session, Fail(p, Rest(avail[p], n))
  PROVE  Taken(p) /\ Reading' /\ waiting'[p] # "data" /\ info' = info
<1>1. Return(p, "TIMEOUT", Rest(avail[p], n)) /\ wire' = wire /\ info' = info
  BY DEF Fail
<1>2. /\ \E k \in 0 .. Len(avail[p]) : avail' = [avail EXCEPT ![p] = Rest(avail[p], k)]
      /\ waiting' = [waiting EXCEPT ![p] = "none"]
      /\ header' = [header EXCEPT ![p] = NoCell] /\ step' = step
  BY <1>1, ReturnTaken
<1>3. Taken(p)
  BY <1>1, <1>2 DEF Taken, Control, Reading
<1>4. Reading'
  BY <1>1, <1>2 DEF Control, Reading, Running
<1>5. QED  BY <1>1, <1>2, <1>3, <1>4 DEF Control, Reading

\* A packet that was read whole.
LEMMA AcceptTaken ==
  ASSUME Control, NEW p \in Peers, Running(p), NEW n \in 0 .. Len(avail[p]),
         NEW h, h.from \in 1 .. session[Peer(p)], NEW data \in Seq(Cell),
         session' = session, Accept(p, h, data, Rest(avail[p], n))
  PROVE  /\ Taken(p) /\ Reading' /\ waiting'[p] # "data"
         /\ info' = info \/ (h.type = "TX_INFO_ACK" /\ info' = [info EXCEPT ![p] = data])
<1>1. CASE h.type # Awaited[p][step[p]]
  <2>1. Return(p, "INVALID", Rest(avail[p], n)) /\ wire' = wire /\ info' = info
    BY <1>1 DEF Accept
  <2>2. /\ \E k \in 0 .. Len(avail[p]) : avail' = [avail EXCEPT ![p] = Rest(avail[p], k)]
        /\ waiting' = [waiting EXCEPT ![p] = "none"]
        /\ header' = [header EXCEPT ![p] = NoCell] /\ step' = step
    BY <2>1, ReturnTaken
  <2>3. Taken(p)
    BY <2>1, <2>2 DEF Taken, Control, Reading
  <2>4. Reading'
    BY <2>1, <2>2 DEF Control, Reading, Running
  <2>5. QED  BY <2>1, <2>2, <2>3, <2>4 DEF Control, Reading
<1>2. CASE h.type = Awaited[p][step[p]]
  <2>1. /\ info' = info \/ (h.type = "TX_INFO_ACK" /\ info' = [info EXCEPT ![p] = data])
        /\ wire' = [wire EXCEPT ![Peer(p)] =
                      @ \o Packets(Answers[p][step[p]], session[p], h.from)]
    BY <1>2 DEF Accept
  <2>2. info' \in [Peers -> Seq(Cell)]
    BY <2>1 DEF Control, Reading
  <2>3. CASE step[p] = Len(Awaited[p])
    <3>1. Return(p, "OK", Rest(avail[p], n))
      BY <1>2, <2>3 DEF Accept
    <3>2. /\ \E k \in 0 .. Len(avail[p]) : avail' = [avail EXCEPT ![p] = Rest(avail[p], k)]
          /\ waiting' = [waiting EXCEPT ![p] = "none"]
          /\ header' = [header EXCEPT ![p] = NoCell] /\ step' = step
      BY <3>1, ReturnTaken
    <3>3. Taken(p)
      BY <2>1, <3>2 DEF Taken, Control, Reading
    <3>4. Reading'
      BY <2>2, <3>2 DEF Control, Reading, Running
    <3>5. QED  BY <2>1, <3>2, <3>3, <3>4 DEF Control, Reading
  <2>4. CASE step[p] # Len(Awaited[p])
    <3>1. /\ step' = [step EXCEPT ![p] = @ + 1]
          /\ waiting' = [waiting EXCEPT ![p] = "header"]
          /\ header' = [header EXCEPT ![p] = NoCell]
          /\ avail' = [avail EXCEPT ![p] = Rest(avail[p], n)]
      BY <1>2, <2>4 DEF Accept
    <3>2. step[p] + 1 \in 1 .. 3
      <4>1. Len(Awaited[p]) = 3
        BY DEF Awaited, Peers
      <4>2. step[p] \in 1 .. 3
        BY DEF Control, Reading
      <4>3. QED  BY <2>4, <4>1, <4>2
    <3>3. Taken(p)
      BY <2>1, <3>1 DEF Taken, Control, Reading
    <3>4. Reading'
      <4>1. session[p] >= 1
        BY DEF Control, Reading
      <4>2. step' \in [Peers -> 1 .. 3]
        BY <3>1, <3>2 DEF Control, Reading
      <4>3. QED  BY <2>2, <3>1, <4>1, <4>2 DEF Control, Reading, Running
    <3>5. QED  BY <2>1, <3>1, <3>3, <3>4 DEF Control, Reading
  <2>5. QED  BY <2>3, <2>4
<1>3. QED  BY <1>1, <1>2

\* An index of the first part of a sequence.
LEMMA InFirst ==
  ASSUME NEW a \in Nat, NEW b \in Nat, NEW i \in 1 .. a
  PROVE  i \in 1 .. a + b /\ i <= a
OBVIOUS

\* An index of the second part.
LEMMA InSecond ==
  ASSUME NEW a \in Nat, NEW b \in Nat, NEW i \in 1 .. b
  PROVE  a + i \in 1 .. a + b /\ ~ (a + i <= a) /\ (a + i) - a = i
OBVIOUS

\* What p can read are the first cells of what it has to read.
LEMMA Front ==
  ASSUME Control, Lines, NEW p \in Peers, NEW i \in 1 .. Len(avail[p])
  PROVE  /\ i \in DOMAIN Inbound(p) /\ Inbound(p)[i] = avail[p][i]
         /\ avail[p][i] \in Cell
         /\ avail[p][i].from \in 1 .. session[Peer(p)] /\ avail[p][i].re \in 0 .. session[p]
<1>1. /\ avail[p] \in Seq(Cell) /\ wire[p] \in Seq(Cell)
      /\ Len(avail[p]) \in Nat /\ Len(wire[p]) \in Nat
  BY LenProperties DEF Control
<1>2. /\ Inbound(p) \in Seq(Cell) /\ Len(Inbound(p)) = Len(avail[p]) + Len(wire[p])
      /\ \A k \in 1 .. Len(avail[p]) + Len(wire[p]) :
           Inbound(p)[k] = IF k <= Len(avail[p]) THEN avail[p][k] ELSE wire[p][k - Len(avail[p])]
  BY <1>1, ConcatProperties DEF Inbound
<1>3. DOMAIN Inbound(p) = 1 .. Len(avail[p]) + Len(wire[p])
  BY <1>2, LenProperties
<1>4. i \in 1 .. Len(avail[p]) + Len(wire[p]) /\ i <= Len(avail[p])
  BY <1>1, InFirst
<1>5. avail[p][i] \in Cell
  BY <1>1, ElementOfSeq
<1>6. QED  BY <1>2, <1>3, <1>4, <1>5 DEF Lines, Line, Dated
-----------------------------------------------------------------------------
\* What is taken of a sequence that is not empty.
LEMMA ShorterWithin ==
  ASSUME NEW m \in Nat \ {0}, NEW n \in Nat \ {0}
  PROVE  /\ Shorter(m, n) \in 1 .. n /\ Shorter(m, n) \in 0 .. n /\ Shorter(m, n) <= m
         /\ Shorter(m, n) \in Nat
BY DEF Shorter

\* The data of a packet follows a header that was read whole.
LEMMA HeaderData ==
  ASSUME NEW s, NEW m \in Nat, NEW k \in Nat, Line(s, m, k),
         HdrSize \in DOMAIN s, s[1].part = 1, DataLen(s[HdrSize].type) # 0
  PROVE  /\ s[HdrSize].type = "TX_INFO_ACK" /\ s[HdrSize].part = HdrSize
         /\ InfoSize <= Len(Rest(s, HdrSize))
         /\ \A j \in DOMAIN Rest(s, HdrSize) :
              j <= InfoSize => Rest(s, HdrSize)[j] = Later(s[HdrSize], j)
<1> DEFINE r == Rest(s, HdrSize)
<1>1. /\ s \in Seq(Cell) /\ Len(s) \in Nat /\ DOMAIN s = 1 .. Len(s)
      /\ HdrSize \in Nat \ {0} /\ InfoSize \in Nat
  BY Sizes, LenProperties DEF Line
<1>2. 1 \in DOMAIN s /\ HdrSize \in 0 .. Len(s) /\ HdrSize <= Len(s)
  BY <1>1
<1>3. /\ s[1] \in Cell /\ s[1].type \in Types /\ s[HdrSize] \in Cell
      /\ s[HdrSize].type \in Types
  BY <1>1, <1>2, ElementOfSeq DEF Cell
<1>4. s[HdrSize] = Later(s[1], HdrSize - 1)
  <2>1. 1 <= HdrSize /\ 1 + (HdrSize - 1) <= Size(s[1].type)
    BY <1>1, <1>3, Sizes
  <2>2. QED  BY <1>2, <2>1 DEF Line, Unbroken
<1>5. s[HdrSize].part = HdrSize
  <2>1. PICK t \in Types, f \in Nat, b \in Nat :
          s[1] = [type |-> t, from |-> f, re |-> b, part |-> 1]
    BY <1>3 DEF Cell
  <2>2. s[HdrSize] = [type |-> t, from |-> f, re |-> b, part |-> 1 + (HdrSize - 1)]
    BY <1>4, <2>1, LaterCell
  <2>3. QED  BY <1>1, <2>2
<1>6. s[HdrSize].type = "TX_INFO_ACK"
  BY <1>3, Sizes
<1>7. Size(s[HdrSize].type) = HdrSize + InfoSize
  BY <1>3, <1>6, Sizes
<1>8. /\ r \in Seq(Cell) /\ Len(r) = Len(s) - HdrSize /\ DOMAIN r = 1 .. Len(s) - HdrSize
      /\ \A i \in 1 .. Len(s) - HdrSize : r[i] = s[HdrSize + i]
  BY <1>1, <1>2, RestProperties, LenProperties
<1> HIDE DEF r
<1>9. InfoSize <= Len(r)
  <2>1. Size(s[HdrSize].type) - s[HdrSize].part <= Len(s) - HdrSize
    BY DEF Line, Ended
  <2>2. (HdrSize + InfoSize) - HdrSize = InfoSize
    BY <1>1
  <2>3. QED  BY <1>5, <1>7, <1>8, <2>1, <2>2
<1>10. ASSUME NEW j \in DOMAIN r, j <= InfoSize PROVE r[j] = Later(s[HdrSize], j)
  <2>1. /\ j \in Nat /\ HdrSize + j \in DOMAIN s /\ r[j] = s[HdrSize + j]
        /\ HdrSize <= HdrSize + j /\ (HdrSize + j) - HdrSize = j
    BY <1>1, <1>2, <1>8, <1>10
  <2>2. s[HdrSize].part + ((HdrSize + j) - HdrSize) <= Size(s[HdrSize].type)
    BY <1>1, <1>5, <1>7, <1>10, <2>1
  <2>3. s[HdrSize + j] = Later(s[HdrSize], (HdrSize + j) - HdrSize)
    BY <2>1, <2>2 DEF Line, Unbroken
  <2>4. QED  BY <2>1, <2>3
<1>11. QED  BY <1>5, <1>6, <1>9, <1>10 DEF r

\* The cells that follow a header make the info of one packet.
LEMMA DataIsInfo ==
  ASSUME NEW d \in Seq(Cell), Len(d) = InfoSize, NEW h \in Cell,
         h.type = "TX_INFO_ACK", h.part = HdrSize,
         \A j \in 1 .. InfoSize : d[j] = Later(h, j)
  PROVE  d = InfoOf(h.from, h.re)
<1> DEFINE P == Packet("TX_INFO_ACK", h.from, h.re)
<1>1. HdrSize \in Nat \ {0} /\ InfoSize \in Nat \ {0} /\ DataLen("TX_INFO_ACK") = InfoSize
  BY Sizes DEF Types
<1>2. h.from \in Nat /\ h.re \in Nat
      /\ h = [type |-> "TX_INFO_ACK", from |-> h.from, re |-> h.re, part |-> HdrSize]
  BY DEF Cell
<1>3. \A i \in 1 .. HdrSize + InfoSize :
        P[i] = [type |-> "TX_INFO_ACK", from |-> h.from, re |-> h.re, part |-> i]
  BY <1>1 DEF Packet
<1>4. \A i \in HdrSize + 1 .. HdrSize + InfoSize : P[i] \in Cell
  <2>1. \A i \in HdrSize + 1 .. HdrSize + InfoSize : i \in 1 .. HdrSize + InfoSize
    BY <1>1
  <2>2. Size("TX_INFO_ACK") = HdrSize + InfoSize /\ "TX_INFO_ACK" \in Types
    BY Sizes DEF Types
  <2>3. \A i \in 1 .. HdrSize + InfoSize :
          [type |-> "TX_INFO_ACK", from |-> h.from, re |-> h.re, part |-> i] \in Cell
    BY <1>1, <1>2, <2>2 DEF Cell
  <2>4. QED  BY <1>3, <2>1, <2>3
<1> HIDE DEF P
<1>5. /\ SubSeq(P, HdrSize + 1, HdrSize + InfoSize) \in Seq(Cell)
      /\ Len(SubSeq(P, HdrSize + 1, HdrSize + InfoSize)) = InfoSize
      /\ \A j \in 1 .. InfoSize :
           SubSeq(P, HdrSize + 1, HdrSize + InfoSize)[j] = P[HdrSize + j]
  <2>1. HdrSize + 1 \in Int /\ HdrSize + InfoSize \in Int
    BY <1>1
  <2>2. /\ SubSeq(P, HdrSize + 1, HdrSize + InfoSize) \in Seq(Cell)
        /\ Len(SubSeq(P, HdrSize + 1, HdrSize + InfoSize))
             = IF HdrSize + 1 <= HdrSize + InfoSize
               THEN (HdrSize + InfoSize) - (HdrSize + 1) + 1 ELSE 0
        /\ \A j \in 1 .. (HdrSize + InfoSize) - (HdrSize + 1) + 1 :
             SubSeq(P, HdrSize + 1, HdrSize + InfoSize)[j] = P[(HdrSize + 1) + j - 1]
    BY <1>4, <2>1, SubSeqProperties
  <2>3. /\ (HdrSize + InfoSize) - (HdrSize + 1) + 1 = InfoSize /\ HdrSize + 1 <= HdrSize + InfoSize
        /\ \A j \in 1 .. InfoSize : (HdrSize + 1) + j - 1 = HdrSize + j
    BY <1>1
  <2>4. QED  BY <2>2, <2>3
<1>6. ASSUME NEW j \in 1 .. InfoSize PROVE d[j] = P[HdrSize + j]
  <2>1. HdrSize + j \in 1 .. HdrSize + InfoSize
    BY <1>1
  <2>2. d[j] = [type |-> "TX_INFO_ACK", from |-> h.from, re |-> h.re, part |-> HdrSize + j]
    BY <1>2, LaterCell
  <2>3. QED  BY <1>3, <2>1, <2>2
<1>7. d = SubSeq(P, HdrSize + 1, HdrSize + InfoSize)
  BY <1>5, <1>6, SeqEqual
<1>8. QED  BY <1>7 DEF InfoOf, P
-----------------------------------------------------------------------------
\* There is something to read.
LEMMA Available ==
  ASSUME Control, NEW p \in Peers, avail[p] # <<>>, NEW m \in Nat \ {0}
  PROVE  /\ Len(avail[p]) \in Nat \ {0} /\ avail[p] \in Seq(Cell)
         /\ Shorter(m, Len(avail[p])) \in 1 .. Len(avail[p])
         /\ Shorter(m, Len(avail[p])) \in 0 .. Len(avail[p])
         /\ Shorter(m, Len(avail[p])) <= m /\ Shorter(m, Len(avail[p])) \in Nat
<1>1. avail[p] \in Seq(Cell) /\ Len(avail[p]) \in Nat
  BY LenProperties DEF Control
<1>2. Len(avail[p]) # 0
  BY <1>1, EmptySeq
<1>3. Len(avail[p]) \in Nat \ {0}
  BY <1>1, <1>2
<1>4. QED  BY <1>1, <1>3, ShorterWithin

\* The first read.
LEMMA ReadHeaderStep ==
  ASSUME IInv, NEW p \in Peers, ReadHeader(p)
  PROVE  Taken(p) /\ Reading' /\ DataNext(p)' /\ info' = info
<1> DEFINE n == Shorter(HdrSize, Len(avail[p]))
           h == avail[p][n]
           rest == Rest(avail[p], n)
<1>1. /\ Control /\ Lines /\ Running(p) /\ avail[p] # <<>> /\ session' = session
      /\ HdrSize \in Nat \ {0} /\ InfoSize \in Nat \ {0}
  BY Sizes DEF IInv, ReadHeader, Running
<1>2. /\ n \in 1 .. Len(avail[p]) /\ n \in 0 .. Len(avail[p]) /\ n <= HdrSize /\ n \in Nat
      /\ avail[p] \in Seq(Cell) /\ Len(avail[p]) \in Nat \ {0}
  BY <1>1, Available
<1>3. /\ h \in Cell /\ h.from \in 1 .. session[Peer(p)] /\ h.re \in 0 .. session[p]
      /\ n \in DOMAIN Inbound(p) /\ Inbound(p)[n] = h
  BY <1>1, <1>2, Front
<1>4. Inbound(p)[1] = avail[p][1]
  <2>1. 1 \in 1 .. Len(avail[p])
    BY <1>2
  <2>2. QED  BY <1>1, <2>1, Front
<1>5. CASE n < HdrSize \/ avail[p][1].part # 1
  <2>1. Fail(p, rest)
    BY <1>5 DEF ReadHeader
  <2>2. Taken(p) /\ Reading' /\ waiting'[p] # "data" /\ info' = info
    BY <1>1, <1>2, <2>1, FailTaken
  <2>3. QED  BY <2>2 DEF DataNext
<1>6. CASE ~ (n < HdrSize \/ avail[p][1].part # 1) /\ DataLen(h.type) = 0
  <2>1. Accept(p, h, <<>>, rest)
    BY <1>6 DEF ReadHeader
  <2>2. <<>> \in Seq(Cell)
    OBVIOUS
  <2>3. /\ Taken(p) /\ Reading' /\ waiting'[p] # "data"
        /\ info' = info \/ (h.type = "TX_INFO_ACK" /\ info' = [info EXCEPT ![p] = <<>>])
    <3> HIDE DEF h, n
    <3>1. rest = Rest(avail[p], n) /\ n \in 0 .. Len(avail[p])
      BY <1>2
    <3> HIDE DEF rest
    <3>2. Accept(p, h, <<>>, Rest(avail[p], n))
      BY <2>1, <3>1
    <3>3. QED  BY <1>1, <1>3, <3>1, <3>2, <2>2, AcceptTaken
  <2>4. h.type # "TX_INFO_ACK"
    BY <1>1, <1>6 DEF DataLen
  <2>5. QED  BY <2>3, <2>4 DEF DataNext
<1>7. CASE ~ (n < HdrSize \/ avail[p][1].part # 1) /\ DataLen(h.type) # 0
  <2>1. /\ header' = [header EXCEPT ![p] = h]
        /\ waiting' = [waiting EXCEPT ![p] = "data"]
        /\ avail' = [avail EXCEPT ![p] = rest]
        /\ wire' = wire /\ step' = step /\ result' = result /\ info' = info
    BY <1>7 DEF ReadHeader
  <2>2. n = HdrSize
    BY <1>1, <1>2, <1>7
  <2> HIDE DEF n, h, rest
  <2>3. avail' = [avail EXCEPT ![p] = Rest(avail[p], n)]
    BY <2>1 DEF rest
  <2>4. Taken(p)
    BY <1>1, <1>2, <2>1, <2>3 DEF Taken, Control, Reading
  <2>5. Reading'
    BY <1>1, <1>3, <2>1 DEF Control, Reading, Running
  <2>6. Inbound(p)' = Rest(Inbound(p), HdrSize)
    <3>1. wire[p] \in Seq(Cell) /\ avail'[p] = Rest(avail[p], n) /\ wire'[p] = wire[p]
      BY <1>1, <2>1, <2>3 DEF Control
    <3>2. Rest(avail[p], n) \o wire[p] = Rest(avail[p] \o wire[p], n)
      BY <1>2, <3>1, RestConcat
    <3>3. QED  BY <2>2, <3>1, <3>2 DEF Inbound
  <2>7. /\ Line(Inbound(p), session[Peer(p)], session[p])
        /\ session[Peer(p)] \in Nat /\ session[p] \in Nat
    BY <1>1, PeerProperties DEF Lines, Control, Reading
  <2>8. /\ HdrSize \in DOMAIN Inbound(p) /\ Inbound(p)[HdrSize] = h /\ Inbound(p)[1].part = 1
        /\ DataLen(Inbound(p)[HdrSize].type) # 0
    BY <1>3, <1>4, <1>7, <2>2
  <2>9. /\ h.type = "TX_INFO_ACK" /\ h.part = HdrSize
        /\ InfoSize <= Len(Rest(Inbound(p), HdrSize))
        /\ \A j \in DOMAIN Rest(Inbound(p), HdrSize) :
             j <= InfoSize => Rest(Inbound(p), HdrSize)[j] = Later(h, j)
    BY <2>7, <2>8, HeaderData
  <2>10. header'[p] = h /\ session' = session
    BY <1>1, <2>1 DEF Control, Reading
  <2>11. DataNext(p)'
    BY <1>3, <2>6, <2>9, <2>10 DEF DataNext
  <2>12. QED  BY <2>1, <2>4, <2>5, <2>11
<1>8. QED  BY <1>5, <1>6, <1>7

\* What the second read of full length takes is the info of the header.
LEMMA DataRead ==
  ASSUME IInv, NEW p \in Peers, ReadData(p), Complete(Shorter(InfoSize, Len(avail[p])))
  PROVE  /\ InfoOf(header[p].from, header[p].re) \in Seq(Cell)
         /\ Accept(p, header[p], InfoOf(header[p].from, header[p].re), Rest(avail[p], InfoSize))
<1> DEFINE n == Shorter(InfoSize, Len(avail[p]))
           d == SubSeq(avail[p], 1, n)
           h == header[p]
<1>1. /\ Control /\ Lines /\ avail[p] # <<>> /\ waiting[p] = "data" /\ DataNext(p)
      /\ HdrSize \in Nat \ {0} /\ InfoSize \in Nat \ {0}
  BY Sizes DEF IInv, ReadData
<1>2. /\ n \in 1 .. Len(avail[p]) /\ n \in Nat
      /\ avail[p] \in Seq(Cell) /\ Len(avail[p]) \in Nat \ {0}
  BY <1>1, Available
<1>3. Accept(p, h, d, Rest(avail[p], n))
  BY DEF ReadData
<1>4. n = InfoSize
  BY DEF Complete
<1>5. h \in Cell /\ h.type = "TX_INFO_ACK" /\ h.part = HdrSize
  BY <1>1 DEF DataNext
<1>6. /\ d \in Seq(Cell) /\ Len(d) = InfoSize
      /\ \A j \in 1 .. InfoSize : d[j] = avail[p][j]
  <2>1. \A i \in 1 .. n : i \in 1 .. Len(avail[p])
    BY <1>2
  <2>2. \A i \in 1 .. n : avail[p][i] \in Cell
    BY <1>2, <2>1, ElementOfSeq
  <2> HIDE DEF n
  <2>3. /\ d \in Seq(Cell) /\ Len(d) = IF 1 <= n THEN n - 1 + 1 ELSE 0
        /\ \A j \in 1 .. n - 1 + 1 : d[j] = avail[p][1 + j - 1]
    BY <1>2, <2>2, SubSeqProperties
  <2>4. n - 1 + 1 = n /\ 1 <= n /\ \A j \in 1 .. n : 1 + j - 1 = j
    BY <1>2
  <2>5. QED  BY <1>4, <2>3, <2>4
<1> HIDE DEF n, d, h
<1>7. ASSUME NEW j \in 1 .. InfoSize PROVE d[j] = Later(h, j)
  <2>1. j \in 1 .. Len(avail[p]) /\ j <= InfoSize
    BY <1>1, <1>2, <1>4
  <2>2. j \in DOMAIN Inbound(p) /\ Inbound(p)[j] = avail[p][j]
    BY <1>1, <2>1, Front
  <2>3. QED  BY <1>1, <1>6, <2>1, <2>2 DEF DataNext, h
<1>8. d = InfoOf(h.from, h.re)
  BY <1>5, <1>6, <1>7, DataIsInfo
<1>9. QED  BY <1>3, <1>4, <1>6, <1>8 DEF h

\* The second read.
LEMMA ReadDataStep ==
  ASSUME IInv, NEW p \in Peers, ReadData(p)
  PROVE  /\ Taken(p) /\ Reading' /\ waiting'[p] # "data"
         /\ \/ info' = info
            \/ \E m \in 1 .. session[Peer(p)], re \in 0 .. session[p] :
                 info' = [info EXCEPT ![p] = InfoOf(m, re)]
<1> DEFINE n == Shorter(InfoSize, Len(avail[p]))
           h == header[p]
<1>1. /\ Control /\ Running(p) /\ avail[p] # <<>> /\ session' = session
      /\ waiting[p] = "data" /\ DataNext(p) /\ InfoSize \in Nat \ {0}
  BY Sizes DEF IInv, ReadData, Running
<1>2. n \in 0 .. Len(avail[p])
  BY <1>1, Available
<1>3. CASE ~ Complete(n)
  <2>1. Fail(p, Rest(avail[p], n))
    BY <1>3 DEF ReadData
  <2>2. QED  BY <1>1, <1>2, <2>1, FailTaken
<1>4. CASE Complete(n)
  <2> DEFINE d == InfoOf(h.from, h.re)
  <2>1. Accept(p, h, d, Rest(avail[p], InfoSize)) /\ d \in Seq(Cell)
    BY <1>4, DataRead
  <2>2. n = InfoSize
    BY <1>4 DEF Complete
  <2>3. h.from \in 1 .. session[Peer(p)] /\ h.re \in 0 .. session[p]
    BY <1>1 DEF DataNext
  <2>4. InfoSize \in 0 .. Len(avail[p])
    BY <1>2, <2>2
  <2> HIDE DEF n, d, h
  <2>5. /\ Taken(p) /\ Reading' /\ waiting'[p] # "data"
        /\ info' = info \/ (h.type = "TX_INFO_ACK" /\ info' = [info EXCEPT ![p] = d])
    BY <1>1, <2>1, <2>3, <2>4, AcceptTaken
  <2>6. QED  BY <2>3, <2>5 DEF d
<1>5. QED  BY <1>3, <1>4
-----------------------------------------------------------------------------
\* The empty line.
LEMMA EmptyLine ==
  ASSUME NEW m, NEW n
  PROVE  Line(<<>>, m, n) /\ <<>> \in Seq(Cell)
BY DEF Line, Unbroken, Ended, Dated

\* Adding nothing.
LEMMA AddNothing ==
  \A s \in Seq(Cell) : s \o <<>> = s
BY ConcatEmptySeq

\* No session is undone.
Onward ==
  /\ session \in [Peers -> Nat] /\ session' \in [Peers -> Nat]
  /\ \A p \in Peers : session'[p] >= session[p]

\* Adding packets to what p has to read.
LEMMA LineGrows ==
  ASSUME Lines, Onward, NEW p \in Peers, NEW a, Line(a, session'[Peer(p)], session'[p]),
         Inbound(p)' = Inbound(p) \o a
  PROVE  Line(Inbound(p)', session'[Peer(p)], session'[p])
<1>1. Peer(p) \in Peers
  BY PeerProperties
<1>2. /\ session[p] \in Nat /\ session[Peer(p)] \in Nat
      /\ session'[p] \in Nat /\ session'[Peer(p)] \in Nat
      /\ session[p] <= session'[p] /\ session[Peer(p)] <= session'[Peer(p)]
  BY <1>1 DEF Onward
<1>3. Line(Inbound(p), session'[Peer(p)], session'[p])
  BY <1>1, <1>2, LineLater DEF Lines
<1>4. QED  BY <1>2, <1>3, ConcatLine

\* WholeInfo, with the device info named.
LEMMA WholeInfoOf ==
  WholeInfo <=>
    \A p \in Peers : info[p] # <<>> =>
      \E m \in 1 .. session[Peer(p)], re \in 0 .. session[p] : info[p] = InfoOf(m, re)
BY DEF WholeInfo, InfoOf

\* What is not copied anew stays an info of the peer.
LEMMA WholeInfoKept ==
  ASSUME WholeInfo, Onward,
         \A p \in Peers :
           \/ info'[p] = info[p] \/ info'[p] = <<>>
           \/ \E m \in 1 .. session'[Peer(p)], re \in 0 .. session'[p] : info'[p] = InfoOf(m, re)
  PROVE  WholeInfo'
<1> SUFFICES ASSUME NEW p \in Peers, info'[p] # <<>>
    PROVE  \E m \in 1 .. session'[Peer(p)], re \in 0 .. session'[p] : info'[p] = InfoOf(m, re)
  BY DEF WholeInfo, InfoOf
<1>1. \A m, n \in Nat : m >= n => 1 .. n \subseteq 1 .. m /\ 0 .. n \subseteq 0 .. m
  OBVIOUS
<1>2. Peer(p) \in Peers
  BY PeerProperties
<1>3. /\ 1 .. session[Peer(p)] \subseteq 1 .. session'[Peer(p)]
      /\ 0 .. session[p] \subseteq 0 .. session'[p]
  BY <1>1, <1>2 DEF Onward
<1>4. CASE info'[p] = info[p]
  <2>1. PICK m \in 1 .. session[Peer(p)], re \in 0 .. session[p] : info[p] = InfoOf(m, re)
    BY <1>4, WholeInfoOf
  <2>2. QED  BY <1>3, <1>4, <2>1
<1>5. QED  BY <1>4

\* A read that times out.
LEMMA TimeoutStep ==
  ASSUME IInv, NEW p \in Peers, Timeout(p)
  PROVE  Taken(p) /\ Reading' /\ waiting'[p] # "data" /\ info' = info
<1>1. Control /\ Running(p) /\ Fail(p, <<>>) /\ session' = session /\ avail[p] \in Seq(Cell)
  BY DEF IInv, Control, Timeout
<1>2. Rest(avail[p], Len(avail[p])) = <<>> /\ Len(avail[p]) \in 0 .. Len(avail[p])
  BY <1>1, RestAll
<1>3. Fail(p, Rest(avail[p], Len(avail[p])))
  BY <1>1, <1>2
<1>4. QED  BY <1>1, <1>2, <1>3, FailTaken

\* Every read keeps the invariant.
LEMMA ReceiveStep ==
  ASSUME IInv, NEW p \in Peers, Receive(p)
  PROVE  IInv'
<1>1. /\ Control /\ Lines /\ (\A q \in Peers : DataNext(q)) /\ WholeInfo
  BY DEF IInv
<1>2. Running(p)
  BY DEF Receive, ReadHeader, ReadData, Timeout, Running
<1>3. /\ Taken(p) /\ Reading' /\ DataNext(p)'
      /\ \/ info' = info
         \/ \E m \in 1 .. session[Peer(p)], re \in 0 .. session[p] :
              info' = [info EXCEPT ![p] = InfoOf(m, re)]
  <2>1. CASE ReadHeader(p)
    BY <2>1, ReadHeaderStep
  <2>2. CASE ReadData(p)
    BY <2>2, ReadDataStep DEF DataNext
  <2>3. CASE Timeout(p)
    BY <2>3, TimeoutStep DEF DataNext
  <2>4. QED  BY <2>1, <2>2, <2>3 DEF Receive
<1>4. /\ wire' \in [Peers -> Seq(Cell)] /\ avail' \in [Peers -> Seq(Cell)]
      /\ Lines' /\ DataNext(Peer(p))'
  BY <1>1, <1>2, <1>3, TakenLines
<1>5. \A q \in Peers : DataNext(q)'
  <2>1. \A q \in Peers : q = p \/ q = Peer(p)
    BY PeerProperties
  <2>2. QED  BY <1>3, <1>4, <2>1
<1>6. WholeInfo'
  <2>1. session' = session /\ info \in [Peers -> Seq(Cell)] /\ session \in [Peers -> Nat]
    BY <1>1, <1>3 DEF Taken, Control, Reading
  <2>2. Onward
    BY <2>1 DEF Onward
  <2>3. \A q \in Peers :
          \/ info'[q] = info[q]
          \/ \E m \in 1 .. session'[Peer(q)], re \in 0 .. session'[q] : info'[q] = InfoOf(m, re)
    BY <1>3, <2>1
  <2>4. QED  BY <1>1, <2>2, <2>3, WholeInfoKept
<1>7. QED  BY <1>3, <1>4, <1>5, <1>6 DEF IInv, Control

\* An attempt or a run begins.
LEMMA StartStep ==
  ASSUME IInv, NEW p \in Peers, Start(p)
  PROVE  IInv'
<1>1. /\ Control /\ Lines /\ (\A q \in Peers : DataNext(q)) /\ WholeInfo
      /\ session \in [Peers -> Nat] /\ Peer(p) \in Peers
      /\ \A q \in Peers : wire[q] \in Seq(Cell) /\ avail[q] \in Seq(Cell)
  BY PeerProperties DEF IInv, Control, Reading
<1>2. /\ session' = [session EXCEPT ![p] = @ + 1]
      /\ waiting' = [waiting EXCEPT ![p] = "header"] /\ step' = [step EXCEPT ![p] = 1]
      /\ avail' = avail /\ header' = header
      /\ info' = IF p = "client" THEN [info EXCEPT ![p] = <<>>] ELSE info
  BY DEF Start
<1>3. Onward
  BY <1>1, <1>2 DEF Onward
<1>4. session'[p] \in Nat /\ session'[p] >= 1 /\ session'[Peer(p)] \in Nat
  BY <1>1, <1>2
<1>5. Reading'
  <2>1. step' \in [Peers -> 1 .. 3]
    BY <1>1, <1>2 DEF Control, Reading
  <2>2. info' \in [Peers -> Seq(Cell)]
    BY <1>1, <1>2 DEF Control, Reading
  <2>3. \A q \in Peers : Running(q)' => session'[q] >= 1
    BY <1>1, <1>2, <1>4 DEF Control, Reading, Running
  <2>4. QED  BY <1>1, <1>2, <1>3, <2>1, <2>2, <2>3 DEF Onward, Control, Reading
<1>6. ASSUME NEW q \in Peers
      PROVE  \E a \in Seq(Cell) :
               /\ Line(a, session'[Peer(q)], session'[q])
               /\ wire'[q] = wire[q] \o a /\ wire'[q] \in Seq(Cell)
  <2>1. CASE wire'[q] = wire[q]
    BY <1>1, <2>1, EmptyLine, AddNothing
  <2>2. CASE p = "host" /\ q = "client"
    <3> DEFINE a == Packet("INIT_C", session'[p], 0)
    <3>1. Peer(q) = p /\ session'[q] \in Nat /\ session'[p] \in 1 .. session'[p] /\ 0 \in 0 .. session'[q]
      BY <1>3, <1>4, <2>2 DEF Peer, Onward
    <3>2. Line(a, session'[p], session'[q])
      BY <1>4, <3>1, PacketLine DEF Types
    <3>3. wire'[q] = wire[q] \o a
      BY <2>2 DEF Start, Control, IInv
    <3> HIDE DEF a
    <3>4. a \in Seq(Cell) /\ wire[q] \o a \in Seq(Cell)
      BY <1>1, <3>2, ConcatProperties DEF Line
    <3>5. QED  BY <3>1, <3>2, <3>3, <3>4
  <2>3. QED  BY <2>1, <2>2, <1>1 DEF Start, Peers, Control
<1>7. wire' \in [Peers -> Seq(Cell)]
  <2>1. wire' = [q \in Peers |-> wire'[q]]
    BY <1>1 DEF Start, Control
  <2>2. QED  BY <1>6, <2>1
<1>8. ASSUME NEW q \in Peers
      PROVE  Line(Inbound(q)', session'[Peer(q)], session'[q]) /\ DataNext(q)'
  <2>1. PICK a \in Seq(Cell) :
          Line(a, session'[Peer(q)], session'[q]) /\ wire'[q] = wire[q] \o a
    BY <1>6
  <2>2. Inbound(q)' = Inbound(q) \o a
    <3>1. avail[q] \in Seq(Cell) /\ wire[q] \in Seq(Cell)
      BY <1>1
    <3>2. avail[q] \o (wire[q] \o a) = (avail[q] \o wire[q]) \o a
      BY <2>1, <3>1, Associative
    <3>3. QED  BY <1>2, <2>1, <3>2 DEF Inbound
  <2>3. Line(Inbound(q)', session'[Peer(q)], session'[q])
    BY <1>1, <1>3, <2>1, <2>2, LineGrows
  <2>4. CASE q = p
    BY <1>1, <1>2, <2>3, <2>4 DEF DataNext, Control, Reading
  <2>5. CASE q # p
    <3>1. waiting'[q] = waiting[q] /\ header'[q] = header[q] /\ Peer(q) \in Peers
      BY <1>1, <1>2, <2>5, PeerProperties DEF Control, Reading
    <3>2. Inbound(q) \in Seq(Cell) /\ DataNext(q)
      BY <1>1 DEF Lines, Line
    <3>3. DataNext(q)'
      BY <1>1, <1>3, <2>1, <2>2, <3>1, <3>2, DataNextKept DEF Onward
    <3>4. QED  BY <2>3, <3>3
  <2>6. QED  BY <2>4, <2>5
<1>9. WholeInfo'
  <2>1. \A q \in Peers : info'[q] = info[q] \/ info'[q] = <<>>
    BY <1>1, <1>2 DEF Control, Reading
  <2>2. QED  BY <1>1, <1>3, <2>1, WholeInfoKept
<1>10. QED  BY <1>1, <1>2, <1>5, <1>7, <1>8, <1>9 DEF IInv, Control, Lines
-----------------------------------------------------------------------------
\* The same without a channel.
LEMMA StartUnconnectedStep ==
  ASSUME IInv, NEW p \in Peers, StartUnconnected(p)
  PROVE  IInv'
<1>1. /\ Control /\ Lines /\ (\A q \in Peers : DataNext(q)) /\ WholeInfo
      /\ session \in [Peers -> Nat]
  BY DEF IInv, Control, Reading
<1>2. /\ session' = [session EXCEPT ![p] = @ + 1]
      /\ wire' = wire /\ avail' = avail /\ waiting' = waiting /\ step' = step /\ header' = header
      /\ info' = IF p = "client" THEN [info EXCEPT ![p] = <<>>] ELSE info
  BY DEF StartUnconnected
<1>3. Onward
  BY <1>1, <1>2 DEF Onward
<1>4. Reading'
  <2>1. info' \in [Peers -> Seq(Cell)]
    BY <1>1, <1>2 DEF Control, Reading
  <2>2. \A q \in Peers : Running(q)' => session'[q] >= 1
    <3>1. \A m, n \in Nat : m >= n /\ n >= 1 => m >= 1
      OBVIOUS
    <3>2. QED  BY <1>2, <1>3, <1>1, <3>1 DEF Onward, Control, Reading, Running
  <2>3. QED  BY <1>1, <1>2, <1>3, <2>1, <2>2 DEF Onward, Control, Reading
<1>5. ASSUME NEW q \in Peers
      PROVE  Line(Inbound(q)', session'[Peer(q)], session'[q]) /\ DataNext(q)'
  <2>1. Inbound(q) \in Seq(Cell) /\ Inbound(q)' = Inbound(q) \o <<>>
    <3>1. Inbound(q) \in Seq(Cell) /\ Inbound(q)' = Inbound(q)
      BY <1>1, <1>2 DEF Inbound, Lines, Line
    <3>2. QED  BY <3>1, AddNothing
  <2>2. Line(Inbound(q)', session'[Peer(q)], session'[q])
    BY <1>1, <1>3, <2>1, EmptyLine, LineGrows
  <2>3. Peer(q) \in Peers /\ waiting'[q] = waiting[q] /\ header'[q] = header[q] /\ DataNext(q)
    BY <1>1, <1>2, PeerProperties
  <2>4. DataNext(q)'
    BY <1>1, <1>3, <2>1, <2>3, EmptyLine, DataNextKept DEF Onward
  <2>5. QED  BY <2>2, <2>4
<1>6. WholeInfo'
  <2>1. \A q \in Peers : info'[q] = info[q] \/ info'[q] = <<>>
    BY <1>1, <1>2 DEF Control, Reading
  <2>2. QED  BY <1>1, <1>3, <2>1, WholeInfoKept
<1>7. QED  BY <1>1, <1>2, <1>4, <1>5, <1>6 DEF IInv, Control, Lines

\* Delivering cells leaves what p has to read as it is.
LEMMA DeliverSame ==
  ASSUME Control, NEW p \in Peers, Deliver(p)
  PROVE  /\ wire' \in [Peers -> Seq(Cell)] /\ avail' \in [Peers -> Seq(Cell)]
         /\ \A q \in Peers : Inbound(q)' = Inbound(q)
<1>1. \A q \in Peers : wire[q] \in Seq(Cell) /\ avail[q] \in Seq(Cell)
  BY DEF Control
<1>2. PICK n \in 1 .. Len(wire[p]) :
        /\ avail' = [avail EXCEPT ![p] = @ \o SubSeq(wire[p], 1, n)]
        /\ wire' = [wire EXCEPT ![p] = Rest(@, n)]
  BY DEF Deliver
<1>3. /\ SubSeq(wire[p], 1, n) \in Seq(Cell) /\ Rest(wire[p], n) \in Seq(Cell)
      /\ (avail[p] \o SubSeq(wire[p], 1, n)) \o Rest(wire[p], n) = avail[p] \o wire[p]
  BY <1>1, <1>2, Delivered
<1>4. wire' \in [Peers -> Seq(Cell)] /\ avail' \in [Peers -> Seq(Cell)]
  <2>1. avail[p] \o SubSeq(wire[p], 1, n) \in Seq(Cell)
    BY <1>1, <1>3, ConcatProperties
  <2>2. QED  BY <1>1, <1>2, <1>3, <2>1 DEF Control
<1>5. \A q \in Peers : Inbound(q)' = Inbound(q)
  <2>1. avail'[p] = avail[p] \o SubSeq(wire[p], 1, n) /\ wire'[p] = Rest(wire[p], n)
    BY <1>1, <1>2 DEF Control
  <2>2. \A q \in Peers \ {p} : avail'[q] = avail[q] /\ wire'[q] = wire[q]
    BY <1>1, <1>2 DEF Control
  <2>3. QED  BY <1>3, <2>1, <2>2 DEF Inbound
<1>6. QED  BY <1>4, <1>5

\* Nor does it change anything else.
LEMMA DeliverStep ==
  ASSUME IInv, NEW p \in Peers, Deliver(p)
  PROVE  IInv'
<1>1. /\ Control /\ Lines /\ (\A q \in Peers : DataNext(q)) /\ WholeInfo
  BY DEF IInv
<1>2. /\ wire' \in [Peers -> Seq(Cell)] /\ avail' \in [Peers -> Seq(Cell)]
      /\ \A q \in Peers : Inbound(q)' = Inbound(q)
  BY <1>1, DeliverSame
<1>3. /\ waiting' = waiting /\ step' = step /\ header' = header /\ session' = session
      /\ info' = info
  BY DEF Deliver
<1>4. Reading'
  BY <1>1, <1>3 DEF Control, Reading, Running
<1>5. Lines'
  BY <1>1, <1>2, <1>3 DEF Lines
<1>6. \A q \in Peers : DataNext(q)'
  BY <1>1, <1>2, <1>3 DEF DataNext
<1>7. WholeInfo'
  BY <1>1, <1>3 DEF WholeInfo
<1>8. QED  BY <1>2, <1>4, <1>5, <1>6, <1>7 DEF IInv, Control

\* A toggle empties the lines, and nobody is left between two reads.
LEMMA ToggleStep ==
  ASSUME IInv, Toggle
  PROVE  IInv'
<1>1. /\ Control /\ Lines /\ WholeInfo /\ Reading
      /\ session \in [Peers -> Nat] /\ info \in [Peers -> Seq(Cell)]
  BY DEF IInv, Control, Reading
<1>2. /\ wire' = [p \in Peers |-> <<>>] /\ avail' = [p \in Peers |-> <<>>]
      /\ info' = [info EXCEPT !["host"] = <<>>] /\ session' = session
      /\ waiting["host"] = "none"
  BY DEF Toggle, Running
<1>3. /\ step' = step
      /\ \/ waiting' = [waiting EXCEPT !["client"] = "none"]
            /\ header' = [header EXCEPT !["client"] = NoCell]
         \/ waiting' = waiting /\ header' = header /\ waiting["client"] = "none"
  BY DEF Toggle, Conclude, Running
<1>4. \A p \in Peers : waiting'[p] = "none"
  BY <1>1, <1>2, <1>3 DEF Reading, Peers
<1>5. wire' \in [Peers -> Seq(Cell)] /\ avail' \in [Peers -> Seq(Cell)]
  BY <1>2
<1>6. Reading'
  <2>1. info' \in [Peers -> Seq(Cell)]
    <3>1. <<>> \in Seq(Cell)
      OBVIOUS
    <3>2. QED  BY <1>1, <1>2, <3>1
  <2>2. waiting' \in [Peers -> {"none", "header", "data"}] /\ header' \in [Peers -> Cell \cup {NoCell}]
    BY <1>1, <1>3 DEF Reading
  <2>3. QED  BY <1>1, <1>2, <1>3, <1>4, <2>1, <2>2 DEF Reading, Running
<1>7. Lines'
  <2>1. \A p \in Peers : Inbound(p)' = <<>>
    <3>1. <<>> \o <<>> = <<>>
      BY EmptyLine, AddNothing
    <3>2. QED  BY <1>2, <3>1 DEF Inbound
  <2>2. QED  BY <2>1, EmptyLine DEF Lines
<1>8. \A p \in Peers : DataNext(p)'
  BY <1>4 DEF DataNext
<1>9. WholeInfo'
  <2>1. Onward
    BY <1>1, <1>2 DEF Onward
  <2>2. \A p \in Peers : info'[p] = info[p] \/ info'[p] = <<>>
    BY <1>1, <1>2
  <2>3. QED  BY <1>1, <2>1, <2>2, WholeInfoKept
<1>10. QED  BY <1>5, <1>6, <1>7, <1>8, <1>9 DEF IInv, Control

\* IInv is inductive.
LEMMA Invariance == InfoSpec => []IInv
<1>1. Init => IInv
  <2> SUFFICES ASSUME Init PROVE IInv
    OBVIOUS
  <2>1. Control
    BY DEF Init, Control, Reading, Running
  <2>2. Lines
    <3>1. \A p \in Peers : Inbound(p) = <<>>
      <4>1. <<>> \o <<>> = <<>>
        BY EmptyLine, AddNothing
      <4>2. QED  BY <4>1 DEF Init, Inbound
    <3>2. QED  BY <3>1, EmptyLine DEF Lines
  <2>3. (\A p \in Peers : DataNext(p)) /\ WholeInfo
    BY DEF Init, DataNext, WholeInfo
  <2>4. QED  BY <2>1, <2>2, <2>3 DEF IInv
<1>2. IInv /\ [InfoNext]_allVars => IInv'
  <2> SUFFICES ASSUME IInv, [InfoNext]_allVars PROVE IInv'
    OBVIOUS
  <2>1. CASE Toggle
    BY <2>1, ToggleStep
  <2>2. ASSUME NEW p \in Peers, Start(p) PROVE IInv'
    BY <2>2, StartStep
  <2>3. ASSUME NEW p \in Peers, StartUnconnected(p) PROVE IInv'
    BY <2>3, StartUnconnectedStep
  <2>4. ASSUME NEW p \in Peers, Deliver(p) PROVE IInv'
    BY <2>4, DeliverStep
  <2>5. ASSUME NEW p \in Peers, Receive(p) PROVE IInv'
    BY <2>5, ReceiveStep
  <2>6. CASE UNCHANGED allVars
    <3>1. UNCHANGED <<wire, avail, waiting, step, header, session, info>>
      BY <2>6 DEF allVars, vars
    <3>2. QED
      BY <3>1 DEF IInv, Control, Reading, Running, Lines, Inbound, DataNext, WholeInfo
  <2>7. QED  BY <2>1, <2>2, <2>3, <2>4, <2>5, <2>6 DEF InfoNext, Next
<1>3. QED  BY <1>1, <1>2, PTL DEF InfoSpec, InfoInit

\* WholeInfo: whatever the sizes, however the line cuts the bytes into reads and
\* whatever earlier attempts left on it, what waitPkt copies into a device info
\* is the info of one packet of the peer, whole and in order (com.c).
THEOREM InfoWhole == InfoSpec => []WholeInfo
<1>1. IInv => WholeInfo
  BY DEF IInv
<1>2. QED  BY <1>1, Invariance, PTL
-----------------------------------------------------------------------------
\* The bounds, and what COM_Handshake has returned.
Results == {"none", "OK", "TIMEOUT", "INVALID"}
Book ==
  /\ timely \in BOOLEAN /\ channel \in BOOLEAN /\ resets \in 0 .. MaxResets
  /\ \A p \in Peers : session[p] \in 0 .. MaxSessions[p]
  /\ result = [p \in Peers |-> result[p]]
  /\ \A p \in Peers : result[p] \in [1 .. MaxSessions[p] -> Results]

\* The host has copied the client's info when it waits for the last packet.
Copied == waiting["host"] # "none" /\ step["host"] = 3 => info["host"] # <<>>

\* A handshake returns r.
Outcome(p, r) == result' = [result EXCEPT ![p][session[p]] = r]

\* What a step of p in its handshake does to the results: a handshake that
\* succeeds has copied an info, the client's in that very step.
Finishes(p) ==
  \/ /\ waiting'[p] # "none" /\ result' = result
     /\ p = "client" => info' = info
  \/ /\ waiting'[p] = "none" /\ \E r \in {"TIMEOUT", "INVALID"} : Outcome(p, r)
     /\ info' = info
  \/ /\ waiting'[p] = "none" /\ Outcome(p, "OK") /\ info'[p] # <<>>
     /\ p = "client" => waiting[p] = "data"
     /\ p = "host" => info' = info

\* What a packet that was read whole leads to.
LEMMA AcceptOutcome ==
  ASSUME Control, Copied, NEW p \in Peers, Running(p), NEW h, NEW data, NEW rest,
         h.type = "TX_INFO_ACK" => data # <<>> /\ waiting[p] = "data",
         Accept(p, h, data, rest)
  PROVE  Finishes(p) /\ Copied'
<1>1. /\ waiting \in [Peers -> {"none", "header", "data"}] /\ step \in [Peers -> 1 .. 3]
      /\ info \in [Peers -> Seq(Cell)] /\ "host" \in Peers
      /\ waiting[p] # "none"
  BY DEF Control, Reading, Peers, Running
<1>2. CASE h.type # Awaited[p][step[p]]
  <2>1. Return(p, "INVALID", rest) /\ info' = info
    BY <1>2 DEF Accept
  <2>2. Finishes(p)
    BY <1>1, <2>1 DEF Return, Conclude, Outcome, Finishes
  <2>3. Copied'
    BY <1>1, <2>1 DEF Return, Conclude, Copied
  <2>4. QED  BY <2>2, <2>3
<1>3. CASE h.type = Awaited[p][step[p]]
  <2>1. /\ h.type = "TX_INFO_ACK" => info' = [info EXCEPT ![p] = data]
        /\ h.type # "TX_INFO_ACK" => info' = info
    BY <1>3 DEF Accept
  <2>2. Len(Awaited[p]) = 3
    BY DEF Awaited, Peers
  <2>3. CASE step[p] = 3
    <3>1. Return(p, "OK", rest)
      BY <1>3, <2>2, <2>3 DEF Accept
    <3>2. waiting'[p] = "none" /\ Outcome(p, "OK")
      BY <1>1, <3>1 DEF Return, Conclude, Outcome
    <3>3. CASE p = "host"
      <4>1. h.type = "TX_INFO"
        BY <1>3, <2>3, <3>3 DEF Awaited
      <4>2. info' = info /\ info[p] # <<>>
        BY <1>1, <2>1, <2>3, <3>3, <4>1 DEF Copied
      <4>3. Finishes(p)
        BY <3>3, <3>2, <4>2 DEF Finishes
      <4>4. Copied'
        BY <3>1, <3>3, <1>1 DEF Return, Conclude, Copied
      <4>5. QED  BY <4>3, <4>4
    <3>4. CASE p = "client"
      <4>1. h.type = "TX_INFO_ACK"
        BY <1>3, <2>3, <3>4 DEF Awaited
      <4>2. info' = [info EXCEPT ![p] = data] /\ data # <<>>
        BY <2>1, <4>1
      <4>3. info'[p] # <<>>
        BY <1>1, <4>2
      <4>4. waiting[p] = "data"
        BY <4>1
      <4>5. Finishes(p)
        BY <3>4, <3>2, <4>3, <4>4 DEF Finishes
      <4>6. Copied'
        BY <1>1, <3>1, <3>4, <4>2 DEF Return, Conclude, Copied
      <4>7. QED  BY <4>5, <4>6
    <3>5. QED  BY <3>3, <3>4 DEF Peers
  <2>4. CASE step[p] # 3
    <3>1. /\ step' = [step EXCEPT ![p] = @ + 1] /\ result' = result
          /\ waiting' = [waiting EXCEPT ![p] = "header"]
      BY <1>3, <2>2, <2>4 DEF Accept
    <3>2. Finishes(p)
      <4>1. waiting'[p] = "header"
        BY <1>1, <3>1
      <4>2. p = "client" => h.type # "TX_INFO_ACK"
        <5>1. step[p] = 1 \/ step[p] = 2
          BY <1>1, <2>4
        <5>2. ASSUME p = "client" PROVE h.type \in {"INIT_C", "TX_INFO"}
          BY <1>3, <5>1, <5>2 DEF Awaited
        <5>3. QED  BY <5>2
      <4>3. QED  BY <2>1, <3>1, <4>1, <4>2 DEF Finishes
    <3>3. CASE p = "host"
      <4>1. step'[p] = 3 => step[p] = 2
        <5>1. step'[p] = step[p] + 1
          BY <1>1, <3>1
        <5>2. step[p] \in 1 .. 3
          BY <1>1
        <5>3. QED  BY <5>1, <5>2
      <4>2. step[p] = 2 => h.type = "TX_INFO_ACK"
        BY <1>3, <3>3 DEF Awaited
      <4>3. step'[p] = 3 => info'[p] # <<>>
        BY <1>1, <2>1, <4>1, <4>2
      <4>4. QED  BY <3>2, <3>3, <4>3 DEF Copied
    <3>4. CASE p = "client"
      <4>1. /\ waiting'["host"] = waiting["host"] /\ step'["host"] = step["host"]
            /\ info'["host"] = info["host"]
        BY <1>1, <2>1, <3>1, <3>4
      <4>2. QED  BY <3>2, <4>1 DEF Copied
    <3>5. QED  BY <3>3, <3>4 DEF Peers
  <2>5. QED  BY <2>3, <2>4
<1>4. QED  BY <1>2, <1>3

\* What a read of p leads to.
LEMMA ReceiveOutcome ==
  ASSUME IInv, Copied, NEW p \in Peers, Receive(p)
  PROVE  Finishes(p) /\ Copied' /\ session' = session /\ UNCHANGED line
<1>1. /\ Control /\ Running(p) /\ session' = session /\ UNCHANGED line
      /\ waiting \in [Peers -> {"none", "header", "data"}] /\ "host" \in Peers
      /\ InfoSize \in Nat \ {0} /\ HdrSize \in Nat \ {0}
  BY Sizes DEF IInv, Control, Reading, Receive, ReadHeader, ReadData, Timeout, Running, Peers
<1>2. ASSUME NEW rest, Fail(p, rest) PROVE Finishes(p) /\ Copied'
  <2>1. Finishes(p)
    BY <1>1, <1>2 DEF Fail, Return, Conclude, Outcome, Finishes
  <2>2. Copied'
    BY <1>1, <1>2 DEF Fail, Return, Conclude, Copied
  <2>3. QED  BY <2>1, <2>2
<1>3. CASE ReadHeader(p)
  <2> DEFINE n == Shorter(HdrSize, Len(avail[p]))
             h == avail[p][n]
             rest == Rest(avail[p], n)
  <2>1. CASE n < HdrSize \/ avail[p][1].part # 1
    BY <1>2, <1>3, <2>1 DEF ReadHeader
  <2>2. CASE ~ (n < HdrSize \/ avail[p][1].part # 1) /\ DataLen(h.type) = 0
    <3>1. Accept(p, h, <<>>, rest)
      BY <1>3, <2>2 DEF ReadHeader
    <3>2. h.type # "TX_INFO_ACK"
      BY <1>1, <2>2 DEF DataLen
    <3> HIDE DEF h, rest
    <3>3. QED  BY <1>1, <3>1, <3>2, AcceptOutcome
  <2>3. CASE ~ (n < HdrSize \/ avail[p][1].part # 1) /\ DataLen(h.type) # 0
    <3>1. /\ waiting' = [waiting EXCEPT ![p] = "data"]
          /\ step' = step /\ result' = result /\ info' = info
      BY <1>3, <2>3 DEF ReadHeader
    <3>2. Copied'
      <4>1. waiting["host"] # "none" \/ waiting'["host"] = waiting["host"]
        BY <1>1, <3>1 DEF Running
      <4>2. QED  BY <3>1, <4>1 DEF Copied
    <3>3. QED  BY <1>1, <3>1, <3>2 DEF Finishes
  <2>4. QED  BY <2>1, <2>2, <2>3
<1>4. CASE ReadData(p)
  <2> DEFINE n == Shorter(InfoSize, Len(avail[p]))
             d == SubSeq(avail[p], 1, n)
  <2>1. CASE ~ Complete(n)
    BY <1>2, <1>4, <2>1 DEF ReadData
  <2>2. CASE Complete(n)
    <3>1. Accept(p, header[p], d, Rest(avail[p], n))
      BY <1>4, <2>2 DEF ReadData
    <3>2. /\ n \in 1 .. Len(avail[p]) /\ avail[p] \in Seq(Cell) /\ Len(avail[p]) \in Nat \ {0}
      BY <1>1, <1>4, Available DEF ReadData
    <3>3. d # <<>>
      <4>1. \A i \in 1 .. n : i \in 1 .. Len(avail[p])
        BY <3>2
      <4>2. \A i \in 1 .. n : avail[p][i] \in Cell
        BY <3>2, <4>1, ElementOfSeq
      <4> HIDE DEF n
      <4>3. Len(d) = IF 1 <= n THEN n - 1 + 1 ELSE 0
        BY <3>2, <4>2, SubSeqProperties
      <4>4. IF 1 <= n THEN n - 1 + 1 # 0 ELSE FALSE
        BY <3>2
      <4>5. QED  BY <4>3, <4>4, EmptySeq
    <3> HIDE DEF d
    <3>4. QED  BY <1>1, <1>4, <3>1, <3>3, AcceptOutcome DEF ReadData
  <2>3. QED  BY <2>1, <2>2
<1>5. CASE Timeout(p)
  BY <1>2, <1>5 DEF Timeout
<1>6. QED  BY <1>1, <1>3, <1>4, <1>5 DEF Receive
-----------------------------------------------------------------------------
\* A handshake that succeeds has copied an info.
Ends ==
  \A p \in Peers :
    result'[p] # result[p] /\ result'[p][session'[p]] = "OK" => info'[p] # <<>>

\* One session's result is recorded.
LEMMA Recorded ==
  ASSUME Book, NEW p \in Peers, NEW n \in 1 .. MaxSessions[p], NEW r \in Results,
         result' = [result EXCEPT ![p][n] = r]
  PROVE  /\ result' = [q \in Peers |-> result'[q]]
         /\ \A q \in Peers : result'[q] \in [1 .. MaxSessions[q] -> Results]
         /\ result'[p][n] = r
         /\ \A q \in Peers \ {p} : result'[q] = result[q]
<1>1. /\ result = [q \in Peers |-> result[q]]
      /\ \A q \in Peers : result[q] \in [1 .. MaxSessions[q] -> Results]
  BY DEF Book
<1>2. /\ DOMAIN result = Peers /\ DOMAIN result' = Peers
      /\ result'[p] = [result[p] EXCEPT ![n] = r]
      /\ \A q \in Peers \ {p} : result'[q] = result[q]
  BY <1>1
<1>3. result'[p] \in [1 .. MaxSessions[p] -> Results] /\ result'[p][n] = r
  BY <1>1, <1>2
<1>4. result' = [q \in Peers |-> result'[q]]
  <2>1. result' = [q \in Peers |-> IF q = p THEN [result[p] EXCEPT ![n] = r] ELSE result[q]]
    BY <1>1
  <2>2. QED  BY <2>1
<1>5. QED  BY <1>1, <1>2, <1>3, <1>4

\* The bounds of the two peers.
LEMMA MaxSessionsNat == \A p \in Peers : MaxSessions[p] \in Nat
BY HandshakeAssumption DEF MaxSessions, Peers

\* The number of a session that runs.
LEMMA RunningSession ==
  ASSUME IInv, Book, NEW p \in Peers, Running(p)
  PROVE  session[p] \in 1 .. MaxSessions[p]
<1>1. session[p] \in 0 .. MaxSessions[p] /\ session[p] >= 1
  BY DEF IInv, Control, Reading, Book
<1>2. QED  BY <1>1, MaxSessionsNat

\* Every step keeps the bounds, and every handshake that ends well has copied.
LEMMA BookStep ==
  ASSUME IInv, Book, Copied, Next
  PROVE  Book' /\ Copied' /\ Ends
<1>1. /\ Control /\ "host" \in Peers /\ "client" \in Peers
      /\ session \in [Peers -> Nat] /\ info \in [Peers -> Seq(Cell)]
      /\ waiting \in [Peers -> {"none", "header", "data"}] /\ step \in [Peers -> 1 .. 3]
      /\ timely \in BOOLEAN /\ channel \in BOOLEAN /\ resets \in 0 .. MaxResets
  BY DEF IInv, Control, Reading, Peers, Book
<1>2. ASSUME NEW p \in Peers, Receive(p) PROVE Book' /\ Copied' /\ Ends
  <2>1. Finishes(p) /\ Copied' /\ session' = session /\ UNCHANGED line
    BY <1>2, ReceiveOutcome
  <2>2. session[p] \in 1 .. MaxSessions[p]
    <3>1. Running(p)
      BY <1>2 DEF Receive, ReadHeader, ReadData, Timeout, Running
    <3>2. QED  BY <3>1, RunningSession
  <2>3. CASE result' = result
    BY <2>1, <2>3 DEF Book, Ends, line
  <2>4. ASSUME NEW r \in Results, Outcome(p, r), r = "OK" => info'[p] # <<>>
        PROVE  Book' /\ Copied' /\ Ends
    <3>1. result' = [result EXCEPT ![p][session[p]] = r]
      BY <2>4 DEF Outcome
    <3>2. /\ result' = [q \in Peers |-> result'[q]]
          /\ \A q \in Peers : result'[q] \in [1 .. MaxSessions[q] -> Results]
          /\ result'[p][session[p]] = r
          /\ \A q \in Peers \ {p} : result'[q] = result[q]
      BY <2>2, <3>1, Recorded
    <3>3. Book'
      BY <2>1, <3>2 DEF Book, line
    <3>4. Ends
      BY <2>1, <2>4, <3>2 DEF Ends
    <3>5. QED  BY <2>1, <3>3, <3>4
  <2>5. QED  BY <2>1, <2>3, <2>4 DEF Finishes, Results
<1>3. ASSUME NEW p \in Peers, Start(p) PROVE Book' /\ Copied' /\ Ends
  <2>1. /\ session' = [session EXCEPT ![p] = @ + 1] /\ session[p] < MaxSessions[p]
        /\ waiting' = [waiting EXCEPT ![p] = "header"] /\ step' = [step EXCEPT ![p] = 1]
        /\ info' = IF p = "client" THEN [info EXCEPT ![p] = <<>>] ELSE info
        /\ result' = result /\ UNCHANGED line
    BY <1>3 DEF Start
  <2>2. session[p] + 1 \in 0 .. MaxSessions[p]
    BY <1>1, <2>1, MaxSessionsNat
  <2>3. Book'
    BY <1>1, <2>1, <2>2 DEF Book, line
  <2>4. CASE p = "host"
    <3>1. step'["host"] = 1
      BY <1>1, <2>1, <2>4
    <3>2. QED  BY <2>1, <2>3, <3>1 DEF Copied, Ends
  <2>5. CASE p = "client"
    <3>1. /\ step'["host"] = step["host"] /\ waiting'["host"] = waiting["host"]
          /\ info'["host"] = info["host"]
      BY <1>1, <2>1, <2>5
    <3>2. QED  BY <2>1, <2>3, <3>1 DEF Copied, Ends
  <2>6. QED  BY <2>4, <2>5 DEF Peers
<1>4. ASSUME NEW p \in Peers, StartUnconnected(p) PROVE Book' /\ Copied' /\ Ends
  <2>1. /\ session' = [session EXCEPT ![p] = @ + 1] /\ session[p] < MaxSessions[p]
        /\ waiting' = waiting /\ step' = step
        /\ info' = IF p = "client" THEN [info EXCEPT ![p] = <<>>] ELSE info
        /\ UNCHANGED line
    BY <1>4 DEF StartUnconnected
  <2>2. session[p] + 1 \in 1 .. MaxSessions[p] /\ session[p] + 1 \in 0 .. MaxSessions[p]
    BY <1>1, <2>1, MaxSessionsNat
  <2>3. result' = [result EXCEPT ![p][session[p] + 1] = "TIMEOUT"] /\ session'[p] = session[p] + 1
    <3>1. session'[p] = session[p] + 1
      BY <1>1, <2>1
    <3>2. QED  BY <1>4, <3>1 DEF StartUnconnected
  <2>4. /\ result' = [q \in Peers |-> result'[q]]
        /\ \A q \in Peers : result'[q] \in [1 .. MaxSessions[q] -> Results]
        /\ result'[p][session[p] + 1] = "TIMEOUT"
        /\ \A q \in Peers \ {p} : result'[q] = result[q]
    <3>1. "TIMEOUT" \in Results
      BY DEF Results
    <3>2. QED  BY <2>2, <2>3, <3>1, Recorded
  <2>5. Book'
    BY <1>1, <2>1, <2>2, <2>4 DEF Book, line
  <2>6. Ends
    BY <2>3, <2>4 DEF Ends
  <2>7. Copied'
    <3>1. info'["host"] = info["host"]
      BY <1>1, <2>1
    <3>2. QED  BY <2>1, <3>1 DEF Copied
  <2>8. QED  BY <2>5, <2>6, <2>7
<1>5. ASSUME NEW p \in Peers, Deliver(p) PROVE Book' /\ Copied' /\ Ends
  <2>1. UNCHANGED <<waiting, step, session, result, info, line>>
    BY <1>5 DEF Deliver
  <2>2. QED  BY <2>1 DEF Book, Copied, Ends, line
<1>6. CASE Toggle
  <2>1. /\ resets' = resets + 1 /\ resets < MaxResets /\ channel' \in BOOLEAN
        /\ session' = session /\ timely' = timely
        /\ waiting["host"] = "none"
    BY <1>6 DEF Toggle, Running
  <2>2. resets' \in 0 .. MaxResets
    BY <1>1, <2>1, HandshakeAssumption
  <2>3. waiting'["host"] = "none"
    BY <1>1, <1>6, <2>1 DEF Toggle, Conclude
  <2>4. Copied'
    BY <2>3 DEF Copied
  <2>5. CASE ~ Running("client")
    <3>1. result' = result
      BY <1>6, <2>5 DEF Toggle
    <3>2. Book'
      BY <2>1, <2>2, <3>1 DEF Book
    <3>3. QED  BY <2>4, <3>1, <3>2 DEF Ends
  <2>6. CASE Running("client")
    <3>1. result' = [result EXCEPT !["client"][session["client"]] = "TIMEOUT"]
      BY <1>6, <2>6 DEF Toggle, Conclude
    <3>2. session["client"] \in 1 .. MaxSessions["client"] /\ "TIMEOUT" \in Results
      BY <1>1, <2>6, RunningSession DEF Results
    <3>3. /\ result' = [q \in Peers |-> result'[q]]
          /\ \A q \in Peers : result'[q] \in [1 .. MaxSessions[q] -> Results]
          /\ result'["client"][session["client"]] = "TIMEOUT"
          /\ \A q \in Peers \ {"client"} : result'[q] = result[q]
      BY <1>1, <3>1, <3>2, Recorded
    <3>4. Book'
      BY <2>1, <2>2, <3>3 DEF Book
    <3>5. Ends
      BY <2>1, <3>3 DEF Ends
    <3>6. QED  BY <2>4, <3>4, <3>5
  <2>7. QED  BY <2>5, <2>6
<1>7. QED  BY <1>2, <1>3, <1>4, <1>5, <1>6 DEF Next

\* So do all reachable states.
LEMMA BookInvariance == InfoSpec => [](Book /\ Copied)
<1>1. InfoInit => Book /\ Copied
  <2> SUFFICES ASSUME Init PROVE Book /\ Copied
    BY DEF InfoInit
  <2>1. \A p \in Peers : session[p] \in 0 .. MaxSessions[p]
    BY MaxSessionsNat DEF Init
  <2>2. 0 \in 0 .. MaxResets
    BY HandshakeAssumption
  <2>3. Book
    BY <2>1, <2>2 DEF Init, Book, Results
  <2>4. Copied
    BY DEF Init, Copied, Peers
  <2>5. QED  BY <2>3, <2>4
<1>2. IInv /\ (Book /\ Copied) /\ [InfoNext]_allVars => (Book /\ Copied)'
  <2> SUFFICES ASSUME IInv, Book, Copied, [InfoNext]_allVars PROVE Book' /\ Copied'
    OBVIOUS
  <2>1. CASE InfoNext
    BY <2>1, BookStep DEF InfoNext
  <2>2. CASE UNCHANGED allVars
    <3>1. UNCHANGED <<waiting, step, session, result, info, timely, channel, resets>>
      BY <2>2 DEF allVars, vars, line
    <3>2. QED  BY <3>1 DEF Book, Copied
  <2>3. QED  BY <2>1, <2>2
<1>3. QED  BY <1>1, <1>2, Invariance, PTL DEF InfoSpec

\* The types of the handshake's variables, for every bound.
THEOREM TypeCorrect == InfoSpec => []TypeOK
<1>1. IInv /\ Book => TypeOK
  <2> SUFFICES ASSUME IInv, Book PROVE TypeOK
    OBVIOUS
  <2>1. \A c \in Cell : IsCell(c)
    BY DEF Cell, Size, IsCell, Types
  <2>2. ASSUME NEW p \in Peers
        PROVE  /\ \A i \in DOMAIN wire[p] : IsCell(wire[p][i])
               /\ \A i \in DOMAIN avail[p] : IsCell(avail[p][i])
    <3>1. wire[p] \in Seq(Cell) /\ avail[p] \in Seq(Cell)
      BY DEF IInv, Control
    <3>2. /\ \A i \in DOMAIN wire[p] : wire[p][i] \in Cell
          /\ \A i \in DOMAIN avail[p] : avail[p][i] \in Cell
      BY <3>1, ElementOfSeq, LenProperties
    <3>3. QED  BY <2>1, <3>2
  <2>3. ASSUME NEW p \in Peers
        PROVE  /\ waiting[p] \in {"none", "header", "data"} /\ step[p] \in DOMAIN Awaited[p]
               /\ waiting[p] = "data" => header[p].type = "TX_INFO_ACK"
    <3>1. DOMAIN Awaited[p] = 1 .. 3
      BY DEF Awaited, Peers
    <3>2. QED  BY <3>1 DEF IInv, Control, Reading, DataNext
  <2>4. QED  BY <2>2, <2>3 DEF TypeOK, Book, Results
<1>2. QED  BY <1>1, Invariance, BookInvariance, PTL

\* What is shown depends only on what the machines let be read.
LEMMA SameMachines ==
  ASSUME failed' = failed
  PROVE  MenuHostInfo' = MenuHostInfo /\ ClientGathered' = ClientGathered
BY DEF MenuHostInfo, ClientGathered, Fields, CPUName, Model, ModelInCPUInfo

\* ShownTarget: a page that shows a target shows what the client gathered, and
\* the host as the menu knows it (printDeviceInfo, deviceInfo.c).
THEOREM TargetTrue == InfoSpec => []ShownTarget
<1>1. InfoInit => ShownTarget
  BY DEF InfoInit, ShownTarget, NoPage
<1>2. IInv /\ Book /\ Copied /\ ShownTarget /\ [InfoNext]_allVars => ShownTarget'
  <2> SUFFICES ASSUME IInv, Book, Copied, ShownTarget, [InfoNext]_allVars PROVE ShownTarget'
    OBVIOUS
  <2>1. CASE InfoNext
    <3>1. Ends /\ failed' = failed
      BY <2>1, BookStep DEF InfoNext
    <3>2. MenuHostInfo' = MenuHostInfo /\ ClientGathered' = ClientGathered
      BY <3>1, SameMachines
    <3>3. ASSUME NEW p \in Peers, shown'[p].target # NoTarget
          PROVE  shown'[p] = [host |-> MenuHostInfo, target |-> ClientGathered]
      <4>1. CASE result'[p] = result[p]
        <5>1. shown'[p] = shown[p]
          BY <2>1, <4>1 DEF InfoNext, ShowPage
        <5>2. QED  BY <3>3, <5>1 DEF ShownTarget
      <4>2. CASE result'[p] # result[p]
        <5>1. shown'[p] = [host |-> HostInfo(p)', target |-> Target(p, result[p][session[p]])']
          BY <2>1, <4>2 DEF InfoNext, ShowPage, Page
        <5>2. result'[p][session'[p]] = "OK"
          BY <3>3, <5>1 DEF Target, NoTarget
        <5>3. info'[p] # <<>>
          BY <3>1, <4>2, <5>2 DEF Ends
        <5>4. HostInfo(p)' = MenuHostInfo'
          BY <5>3 DEF HostInfo
        <5>5. Target(p, result[p][session[p]])' = ClientGathered'
          BY <5>2, <5>3 DEF Target, ClientInfo
        <5>6. QED  BY <3>2, <5>1, <5>4, <5>5
      <4>3. QED  BY <4>1, <4>2
    <3>4. QED  BY <3>2, <3>3 DEF ShownTarget, NoTarget
  <2>2. CASE UNCHANGED allVars
    <3>1. failed' = failed /\ shown' = shown
      BY <2>2 DEF allVars
    <3>2. MenuHostInfo' = MenuHostInfo /\ ClientGathered' = ClientGathered
      BY <3>1, SameMachines
    <3>3. QED  BY <3>1, <3>2 DEF ShownTarget, NoTarget
  <2>3. QED  BY <2>1, <2>2
<1>3. QED  BY <1>1, <1>2, Invariance, BookInvariance, PTL DEF InfoSpec
-----------------------------------------------------------------------------
\* A session that has not returned has no result.
Fresh ==
  \A p \in Peers : \A n \in 1 .. MaxSessions[p] :
    n > session[p] \/ (n = session[p] /\ Running(p)) => result[p][n] = "none"

\* The host's info is sent only by attempts that succeed: Heard of the cells s
\* and the results res of the host.
Heard(s, res) == \A i \in DOMAIN s : s[i].type = "TX_INFO_ACK" => res[s[i].from] = "OK"
Told == Heard(Inbound("client"), result["host"])

\* If a run of the client has succeeded, so has some attempt of the host; which
\* one, ExchangeSpec says.
ClientAfterHost ==
  \A n \in 1 .. MaxRuns :
    result["client"][n] = "OK" =>
      \E a \in 1 .. session["host"] : result["host"][a] = "OK"

\* Taking cells away.
LEMMA HeardRest ==
  ASSUME NEW s \in Seq(Cell), NEW n \in 0 .. Len(s), NEW res, Heard(s, res)
  PROVE  Heard(Rest(s, n), res)
<1>1. Len(s) \in Nat /\ n \in Nat /\ DOMAIN s = 1 .. Len(s)
  BY LenProperties
<1>2. /\ Rest(s, n) \in Seq(Cell) /\ Len(Rest(s, n)) = Len(s) - n
      /\ \A i \in 1 .. Len(s) - n : Rest(s, n)[i] = s[n + i]
  BY RestProperties
<1>3. DOMAIN Rest(s, n) = 1 .. Len(s) - n
  BY <1>2, LenProperties
<1>4. \A i \in 1 .. Len(s) - n : n + i \in 1 .. Len(s)
  BY <1>1
<1>5. \A i \in DOMAIN Rest(s, n) : n + i \in DOMAIN s /\ Rest(s, n)[i] = s[n + i]
  BY <1>1, <1>2, <1>3, <1>4
<1>6. QED  BY <1>5 DEF Heard

\* Adding cells.
LEMMA HeardConcat ==
  ASSUME NEW s \in Seq(Cell), NEW t \in Seq(Cell), NEW res, Heard(s, res), Heard(t, res)
  PROVE  Heard(s \o t, res)
<1>1. /\ Len(s) \in Nat /\ Len(t) \in Nat
      /\ DOMAIN s = 1 .. Len(s) /\ DOMAIN t = 1 .. Len(t)
  BY LenProperties
<1>2. /\ s \o t \in Seq(Cell) /\ Len(s \o t) = Len(s) + Len(t)
      /\ \A i \in 1 .. Len(s) + Len(t) : (s \o t)[i] = IF i <= Len(s) THEN s[i] ELSE t[i - Len(s)]
  BY ConcatProperties
<1>3. DOMAIN (s \o t) = 1 .. Len(s) + Len(t)
  BY <1>2, LenProperties
<1>4. \A i \in 1 .. Len(s) + Len(t) :
        IF i <= Len(s) THEN i \in 1 .. Len(s) ELSE i - Len(s) \in 1 .. Len(t)
  BY <1>1
<1>5. QED  BY <1>1, <1>2, <1>3, <1>4 DEF Heard

\* Sending a packet.
LEMMA HeardPacket ==
  ASSUME NEW t \in Types, NEW f \in Nat, NEW r \in Nat, NEW res,
         t = "TX_INFO_ACK" => res[f] = "OK"
  PROVE  Heard(Packet(t, f, r), res)
<1>1. \A i \in DOMAIN Packet(t, f, r) :
        Packet(t, f, r)[i] = [type |-> t, from |-> f, re |-> r, part |-> i]
  BY DEF Packet
<1>2. QED  BY <1>1 DEF Heard

\* The host sends its info with the answer to the last packet it waits for.
LEMMA HeardAnswer ==
  ASSUME NEW i \in 1 .. 3, NEW f \in Nat, NEW r \in Nat, NEW res, i = 3 => res[f] = "OK"
  PROVE  Heard(Packets(Answers["host"][i], f, r), res)
<1>1. Heard(<<>>, res)
  BY DEF Heard
<1>2. ASSUME NEW t \in Types, t = "TX_INFO_ACK" => res[f] = "OK"
      PROVE  Heard(Packets(<<t>>, f, r), res)
  <2>1. Packets(<<t>>, f, r) = Packet(t, f, r) \o <<>>
    BY DEF Packets
  <2>2. Packet(t, f, r) \in Seq(Cell)
    <3>1. HdrSize + DataLen(t) = Size(t) /\ Size(t) \in Nat
      BY Sizes DEF Size
    <3>2. \A k \in 1 .. Size(t) : [type |-> t, from |-> f, re |-> r, part |-> k] \in Cell
      BY <3>1 DEF Cell
    <3>3. Packet(t, f, r) \in [1 .. Size(t) -> Cell]
      BY <3>1, <3>2 DEF Packet
    <3>4. QED  BY <3>1, <3>3
  <2>3. Packet(t, f, r) \o <<>> = Packet(t, f, r)
    BY <2>2, AddNothing
  <2>4. QED  BY <1>2, <2>1, <2>3, HeardPacket
<1>3. CASE i = 1
  <2>1. Answers["host"][i] = <<"TX_INFO">>
    BY <1>3 DEF Answers
  <2>2. QED  BY <1>2, <2>1 DEF Types
<1>4. CASE i = 2
  <2>1. Packets(Answers["host"][i], f, r) = <<>>
    BY <1>4 DEF Answers, Packets
  <2>2. QED  BY <1>1, <2>1
<1>5. CASE i = 3
  <2>1. Answers["host"][i] = <<"TX_INFO_ACK">>
    BY <1>5 DEF Answers
  <2>2. QED  BY <1>2, <1>5, <2>1 DEF Types
<1>6. QED  BY <1>3, <1>4, <1>5

\* What the host returns and sends when it has read a packet.
LEMMA AcceptAnswer ==
  ASSUME IInv, Book, Running("host"), NEW h, NEW data, NEW rest, session' = session,
         h.from \in Nat, Accept("host", h, data, rest)
  PROVE  \/ wire' = wire
         \/ \E a \in {Packets(Answers["host"][step["host"]], session["host"], h.from)} :
              /\ wire' = [wire EXCEPT !["client"] = @ \o a]
              /\ Heard(a, result'["host"])
<1>1. /\ session["host"] \in 1 .. MaxSessions["host"] /\ session["host"] \in Nat
      /\ step["host"] \in 1 .. 3
  BY RunningSession DEF IInv, Control, Reading, Peers
<1>2. CASE h.type # Awaited["host"][step["host"]]
  BY <1>2 DEF Accept
<1>3. CASE h.type = Awaited["host"][step["host"]]
  <2> DEFINE a == Packets(Answers["host"][step["host"]], session["host"], h.from)
  <2>1. wire' = [wire EXCEPT !["client"] = @ \o a]
    BY <1>3 DEF Accept, Peer
  <2>2. step["host"] = 3 => result'["host"][session["host"]] = "OK"
    <3> SUFFICES ASSUME step["host"] = 3 PROVE result'["host"][session["host"]] = "OK"
      OBVIOUS
    <3>1. Len(Awaited["host"]) = 3
      BY DEF Awaited
    <3>2. result' = [result EXCEPT !["host"][session["host"]] = "OK"]
      BY <1>3, <3>1 DEF Accept, Return, Conclude
    <3>3. "host" \in Peers /\ "OK" \in Results
      BY DEF Peers, Results
    <3>4. QED  BY <1>1, <3>2, <3>3, Recorded
  <2>3. Heard(a, result'["host"])
    BY <1>1, <2>2, HeardAnswer
  <2>4. QED  BY <2>1, <2>3
<1>4. QED  BY <1>2, <1>3

\* Hence of every read of the host.
LEMMA HostAnswer ==
  ASSUME IInv, Book, Receive("host")
  PROVE  \/ wire' = wire
         \/ \E a \in Seq(Cell) : /\ wire' = [wire EXCEPT !["client"] = @ \o a]
                                 /\ Heard(a, result'["host"])
<1>1. /\ Control /\ Lines /\ Running("host") /\ session' = session /\ "host" \in Peers
      /\ InfoSize \in Nat \ {0} /\ HdrSize \in Nat \ {0}
  BY Sizes DEF IInv, Receive, ReadHeader, ReadData, Timeout, Running, Peers
<1>2. ASSUME NEW h, NEW data, NEW rest, h.from \in 1 .. session["client"],
             Accept("host", h, data, rest)
      PROVE  \/ wire' = wire
             \/ \E a \in Seq(Cell) : /\ wire' = [wire EXCEPT !["client"] = @ \o a]
                                     /\ Heard(a, result'["host"])
  <2>1. /\ session["host"] \in Nat /\ session["client"] \in Nat /\ h.from \in Nat
        /\ session["host"] \in 1 .. session["host"] /\ h.from \in 0 .. session["client"]
        /\ step["host"] \in 1 .. 3
    <3>1. /\ session["host"] \in Nat /\ session["client"] \in Nat /\ session["host"] >= 1
          /\ step["host"] \in 1 .. 3
      BY <1>1 DEF Control, Reading, Peers
    <3>2. QED  BY <1>2, <3>1
  <2> DEFINE a == Packets(Answers["host"][step["host"]], session["host"], h.from)
  <2>2. a \in Seq(Cell)
    BY <1>1, <2>1, PacketsLine DEF Line
  <2> HIDE DEF a
  <2>3. \/ wire' = wire
        \/ /\ wire' = [wire EXCEPT !["client"] = @ \o a]
           /\ Heard(a, result'["host"])
    BY <1>1, <1>2, <2>1, AcceptAnswer DEF a
  <2>4. QED  BY <2>2, <2>3
<1>3. CASE ReadHeader("host")
  <2> DEFINE n == Shorter(HdrSize, Len(avail["host"]))
             h == avail["host"][n]
  <2>1. n \in 1 .. Len(avail["host"])
    BY <1>1, <1>3, Available DEF ReadHeader
  <2>2. h.from \in 1 .. session["client"]
    BY <1>1, <2>1, Front DEF Peer
  <2>3. wire' = wire \/ Accept("host", h, <<>>, Rest(avail["host"], n))
    BY <1>3 DEF ReadHeader, Fail
  <2> HIDE DEF h, n
  <2>4. QED  BY <1>2, <2>2, <2>3
<1>4. CASE ReadData("host")
  <2>1. header["host"].from \in 1 .. session["client"]
    BY <1>1, <1>4 DEF IInv, ReadData, DataNext, Peer
  <2>2. \/ wire' = wire
        \/ \E data, rest : Accept("host", header["host"], data, rest)
    BY <1>4 DEF ReadData, Fail
  <2>3. QED  BY <1>2, <2>1, <2>2
<1>5. CASE Timeout("host")
  BY <1>5 DEF Timeout, Fail
<1>6. QED  BY <1>3, <1>4, <1>5 DEF Receive
-----------------------------------------------------------------------------
\* No success of the host is taken back.
Kept ==
  \A n \in 1 .. MaxSessions["host"] : result["host"][n] = "OK" => result'["host"][n] = "OK"

\* So what was heard stays true.
LEMMA HeardLater ==
  ASSUME IInv, Book, Kept, Told
  PROVE  Heard(Inbound("client"), result'["host"])
<1>1. /\ Dated(Inbound("client"), session["host"], session["client"])
      /\ session["host"] \in 0 .. MaxSessions["host"]
      /\ session["host"] \in Nat /\ MaxSessions["host"] \in Nat
  BY MaxSessionsNat DEF IInv, Lines, Line, Peer, Peers, Book, Control, Reading
<1>2. 1 .. session["host"] \subseteq 1 .. MaxSessions["host"]
  BY <1>1
<1>3. QED  BY <1>1, <1>2 DEF Dated, Told, Heard, Kept

\* What is recorded for a session that has no result takes none back.
LEMMA RecordedKept ==
  ASSUME Book, NEW p \in Peers, NEW n \in 1 .. MaxSessions[p], NEW r \in Results,
         result' = [result EXCEPT ![p][n] = r], result[p][n] = "none"
  PROVE  /\ Kept
         /\ \A q \in Peers : \A k \in 1 .. MaxSessions[q] :
              q # p \/ k # n => result'[q][k] = result[q][k]
<1>1. \A q \in Peers : result[q] \in [1 .. MaxSessions[q] -> Results]
  BY DEF Book
<1>2. /\ \A q \in Peers \ {p} : result'[q] = result[q]
      /\ result'[p] = [result[p] EXCEPT ![n] = r]
  BY DEF Book
<1>3. \A q \in Peers : \A k \in 1 .. MaxSessions[q] :
        q # p \/ k # n => result'[q][k] = result[q][k]
  BY <1>1, <1>2
<1>4. QED  BY <1>3 DEF Kept, Peers

\* A result of the client, seen from the host's.
Followed == \E a \in 1 .. session["host"] : result["host"][a] = "OK"

\* The header the client has read before a host's info was heard.
LEMMA HeaderHeard ==
  ASSUME IInv, Told, waiting["client"] = "data"
  PROVE  /\ header["client"].from \in 1 .. session["host"]
         /\ result["host"][header["client"].from] = "OK"
<1> DEFINE s == Inbound("client")
           h == header["client"]
<1>1. /\ h \in Cell /\ h.type = "TX_INFO_ACK" /\ h.from \in 1 .. session["host"]
      /\ InfoSize <= Len(s) /\ \A j \in DOMAIN s : j <= InfoSize => s[j] = Later(h, j)
  BY DEF IInv, DataNext, Peer, Peers
<1>2. s \in Seq(Cell) /\ DOMAIN s = 1 .. Len(s) /\ Len(s) \in Nat
  BY LenProperties DEF IInv, Lines, Line, Peers
<1> HIDE DEF s, h
<1>3. 1 \in DOMAIN s /\ 1 <= InfoSize
  BY <1>1, <1>2, Sizes
<1>4. s[1] = Later(h, 1)
  BY <1>1, <1>3
<1>5. s[1].type = h.type /\ s[1].from = h.from
  <2>1. PICK t \in Types, f \in Nat, b \in Nat, k \in Nat :
          h = [type |-> t, from |-> f, re |-> b, part |-> k]
    BY <1>1 DEF Cell
  <2>2. s[1] = [type |-> t, from |-> f, re |-> b, part |-> k + 1]
    BY <1>4, <2>1, LaterCell
  <2>3. QED  BY <2>1, <2>2
<1>6. QED  BY <1>1, <1>3, <1>5 DEF Told, Heard, s, h

\* Every read takes cells off the line.
LEMMA ReceiveTaken ==
  ASSUME IInv, NEW p \in Peers, Receive(p)
  PROVE  Taken(p) /\ Running(p)
<1>1. CASE ReadHeader(p)
  BY <1>1, ReadHeaderStep DEF ReadHeader, Running
<1>2. CASE ReadData(p)
  BY <1>2, ReadDataStep DEF ReadData, Running
<1>3. CASE Timeout(p)
  BY <1>3, TimeoutStep DEF Timeout
<1>4. QED  BY <1>1, <1>2, <1>3 DEF Receive

\* Every step of a handshake.
LEMMA ReceiveOrder ==
  ASSUME IInv, Book, Copied, Fresh, Told, ClientAfterHost, NEW p \in Peers, Receive(p)
  PROVE  Fresh' /\ Told' /\ ClientAfterHost'
<1>1. /\ Control /\ Lines /\ (\A q \in Peers : DataNext(q)) /\ Running(p) /\ session' = session
      /\ "host" \in Peers /\ "client" \in Peers
      /\ avail["client"] \in Seq(Cell) /\ wire["client"] \in Seq(Cell)
  BY DEF IInv, Control, Receive, ReadHeader, ReadData, Timeout, Running, Peers
<1>2. session[p] \in 1 .. MaxSessions[p] /\ result[p][session[p]] = "none"
  <2>1. session[p] \in 1 .. MaxSessions[p]
    BY <1>1, RunningSession
  <2>2. QED  BY <1>1, <2>1 DEF Fresh
<1>3. Taken(p)
  BY ReceiveTaken
<1>4. \A q \in Peers \ {p} : waiting'[q] = waiting[q]
  BY <1>3 DEF Taken
<1>5. /\ Kept /\ Fresh'
      /\ (\A n \in 1 .. MaxSessions["client"] : result'["client"][n] = "OK" =>
            result["client"][n] = "OK" \/ waiting["client"] = "data")
  <2>1. CASE result' = result
    BY <1>1, <1>4, <2>1 DEF Kept, Fresh, Running
  <2>2. ASSUME NEW r \in Results, Outcome(p, r), waiting'[p] = "none",
               p = "client" /\ r = "OK" => waiting["client"] = "data"
        PROVE  /\ Kept /\ Fresh'
               /\ (\A n \in 1 .. MaxSessions["client"] : result'["client"][n] = "OK" =>
                     result["client"][n] = "OK" \/ waiting["client"] = "data")
    <3>1. result' = [result EXCEPT ![p][session[p]] = r]
      BY <2>2 DEF Outcome
    <3>2. /\ Kept
          /\ \A q \in Peers : \A k \in 1 .. MaxSessions[q] :
               q # p \/ k # session[p] => result'[q][k] = result[q][k]
      BY <1>2, <3>1, RecordedKept
    <3>3. result'[p][session[p]] = r
      BY <1>2, <3>1, Recorded
    <3>4. Fresh'
      <4> SUFFICES ASSUME NEW q \in Peers, NEW n \in 1 .. MaxSessions[q],
                          n > session[q] \/ (n = session[q] /\ Running(q)')
                   PROVE  result'[q][n] = "none"
        BY <1>1 DEF Fresh
      <4>1. session[p] \in Nat /\ n \in Nat
        BY <1>1 DEF Control, Reading
      <4>2. CASE q # p
        BY <1>4, <3>2, <4>2 DEF Fresh, Running
      <4>3. CASE q = p
        <5>1. n # session[p]
          BY <2>2, <4>1, <4>3 DEF Running
        <5>2. QED  BY <3>2, <4>3, <5>1 DEF Fresh
      <4>4. QED  BY <4>2, <4>3
    <3>5. ASSUME NEW n \in 1 .. MaxSessions["client"], result'["client"][n] = "OK"
          PROVE  result["client"][n] = "OK" \/ waiting["client"] = "data"
      <4>1. CASE p = "client" /\ n = session[p]
        BY <2>2, <3>3, <3>5, <4>1
      <4>2. CASE ~ (p = "client" /\ n = session[p])
        BY <1>1, <3>2, <3>5, <4>2
      <4>3. QED  BY <4>1, <4>2
    <3>6. QED  BY <3>2, <3>4, <3>5
  <2>3. Finishes(p)
    BY ReceiveOutcome
  <2>4. QED  BY <2>1, <2>2, <2>3 DEF Finishes, Results
<1>6. Heard(Inbound("client"), result'["host"])
  BY <1>5, HeardLater
<1>7. Told'
  <2>1. CASE p = "host"
    <3>1. avail'["client"] = avail["client"]
      BY <1>1, <1>3, <2>1 DEF Taken, Control
    <3>2. CASE wire' = wire
      BY <1>6, <3>1, <3>2 DEF Told, Inbound
    <3>3. ASSUME NEW a \in Seq(Cell), wire' = [wire EXCEPT !["client"] = @ \o a],
                 Heard(a, result'["host"])
          PROVE  Told'
      <4>1. wire'["client"] = wire["client"] \o a
        BY <1>1, <3>3 DEF Control
      <4>2. avail["client"] \o (wire["client"] \o a) = (avail["client"] \o wire["client"]) \o a
        BY <1>1, Associative
      <4>3. Inbound("client")' = Inbound("client") \o a
        BY <3>1, <4>1, <4>2 DEF Inbound
      <4>4. Inbound("client") \in Seq(Cell)
        BY <1>1 DEF Lines, Line
      <4>5. Heard(Inbound("client") \o a, result'["host"])
        BY <1>6, <3>3, <4>4, HeardConcat
      <4>6. QED  BY <4>3, <4>5 DEF Told
    <3>4. QED  BY <2>1, <3>2, <3>3, HostAnswer
  <2>2. CASE p = "client"
    <3>1. PICK n \in 0 .. Len(avail["client"]) :
            avail' = [avail EXCEPT !["client"] = Rest(avail["client"], n)]
      BY <1>3, <2>2 DEF Taken
    <3>2. wire'["client"] = wire["client"]
      BY <1>1, <1>3, <2>2 DEF Taken, Control, Peer
    <3>3. Inbound("client")' = Rest(Inbound("client"), n)
      <4>1. Rest(avail["client"], n) \o wire["client"] = Rest(avail["client"] \o wire["client"], n)
        BY <1>1, <3>1, RestConcat
      <4>2. avail'["client"] = Rest(avail["client"], n)
        BY <1>1, <3>1 DEF Control
      <4>3. QED  BY <3>2, <4>1, <4>2 DEF Inbound
    <3>4. Inbound("client") \in Seq(Cell) /\ n \in 0 .. Len(Inbound("client"))
      BY <1>1, <3>1, WithinBoth DEF Lines, Line, Inbound
    <3>5. Heard(Rest(Inbound("client"), n), result'["host"])
      BY <1>6, <3>4, HeardRest
    <3>6. QED  BY <3>3, <3>5 DEF Told
  <2>3. QED  BY <2>1, <2>2 DEF Peers
<1>8. ClientAfterHost'
  <2> SUFFICES ASSUME NEW n \in 1 .. MaxRuns, result'["client"][n] = "OK"
               PROVE  \E a \in 1 .. session["host"] : result'["host"][a] = "OK"
    BY <1>1 DEF ClientAfterHost
  <2>1. Followed
    <3>1. MaxSessions["client"] = MaxRuns
      BY DEF MaxSessions
    <3>2. result["client"][n] = "OK" \/ waiting["client"] = "data"
      BY <1>5, <3>1
    <3>3. QED  BY <3>2, HeaderHeard DEF ClientAfterHost, Followed
  <2>2. 1 .. session["host"] \subseteq 1 .. MaxSessions["host"]
    <3>1. session["host"] \in 0 .. MaxSessions["host"] /\ MaxSessions["host"] \in Nat
      BY <1>1, MaxSessionsNat DEF Book
    <3>2. QED  BY <3>1
  <2>3. QED  BY <1>5, <2>1, <2>2 DEF Followed, Kept
<1>9. QED  BY <1>5, <1>7, <1>8
-----------------------------------------------------------------------------
\* A step without a new success of the client.
LEMMA AfterHostKept ==
  ASSUME Book, Onward, Kept, ClientAfterHost,
         \A n \in 1 .. MaxSessions["client"] :
           result'["client"][n] = "OK" => result["client"][n] = "OK"
  PROVE  ClientAfterHost'
<1>1. /\ session["host"] \in Nat /\ session'["host"] \in Nat
      /\ session["host"] <= session'["host"]
      /\ session["host"] \in 0 .. MaxSessions["host"] /\ MaxSessions["host"] \in Nat
      /\ MaxSessions["client"] = MaxRuns
  BY MaxSessionsNat DEF Onward, Book, Peers, MaxSessions
<1>2. /\ 1 .. session["host"] \subseteq 1 .. session'["host"]
      /\ 1 .. session["host"] \subseteq 1 .. MaxSessions["host"]
  BY <1>1
<1>3. QED  BY <1>1, <1>2 DEF Kept, ClientAfterHost

\* What was heard stays so when the client's line stays.
LEMMA ToldKept ==
  ASSUME IInv, Book, Kept, Told, Inbound("client")' = Inbound("client")
  PROVE  Told'
<1>1. Heard(Inbound("client"), result'["host"])
  BY HeardLater
<1>2. QED  BY <1>1 DEF Told

\* Every step.
LEMMA OrderStep ==
  ASSUME IInv, Book, Copied, Fresh, Told, ClientAfterHost, Next
  PROVE  Fresh' /\ Told' /\ ClientAfterHost'
<1>1. /\ Control /\ Lines /\ "host" \in Peers /\ "client" \in Peers
      /\ session \in [Peers -> Nat] /\ waiting \in [Peers -> {"none", "header", "data"}]
      /\ avail["client"] \in Seq(Cell) /\ wire["client"] \in Seq(Cell)
  BY DEF IInv, Control, Reading, Peers
<1>2. ASSUME result' = result PROVE Kept
  BY <1>2 DEF Kept
<1>3. ASSUME session' = session PROVE Onward
  BY <1>1, <1>3 DEF Onward
<1>4. ASSUME NEW p \in Peers, session' = [session EXCEPT ![p] = @ + 1] PROVE Onward
  BY <1>1, <1>4 DEF Onward
<1>5. ASSUME NEW p \in Peers, Receive(p) PROVE Fresh' /\ Told' /\ ClientAfterHost'
  BY <1>5, ReceiveOrder
<1>6. ASSUME NEW p \in Peers, Start(p) PROVE Fresh' /\ Told' /\ ClientAfterHost'
  <2>1. /\ session' = [session EXCEPT ![p] = @ + 1] /\ result' = result /\ avail' = avail
        /\ waiting' = [waiting EXCEPT ![p] = "header"]
    BY <1>6 DEF Start
  <2>2. Kept /\ Onward
    BY <1>2, <1>4, <2>1
  <2>3. Fresh'
    <3> SUFFICES ASSUME NEW q \in Peers, NEW n \in 1 .. MaxSessions[q],
                        n > session'[q] \/ (n = session'[q] /\ Running(q)')
                 PROVE  result[q][n] = "none"
      BY <2>1 DEF Fresh
    <3>1. CASE q = p
      <4>1. session'[q] = session[q] + 1 /\ session[q] \in Nat /\ n \in Nat
        BY <1>1, <2>1, <3>1
      <4>2. n > session[q]
        BY <4>1
      <4>3. QED  BY <4>2 DEF Fresh
    <3>2. CASE q # p
      BY <1>1, <2>1, <3>2 DEF Fresh, Running
    <3>3. QED  BY <3>1, <3>2
  <2>4. Told'
    <3>1. CASE wire'["client"] = wire["client"]
      BY <2>1, <2>2, <3>1, ToldKept DEF Inbound
    <3>2. CASE p = "host"
      <4> DEFINE a == Packet("INIT_C", session'["host"], 0)
      <4>1. wire'["client"] = wire["client"] \o a
        BY <1>1, <1>6, <3>2 DEF Start, Control
      <4>2. session'["host"] \in Nat /\ session'["client"] \in Nat /\ 0 \in 0 .. session'["client"]
            /\ session'["host"] \in 1 .. session'["host"]
        <5>1. session'["host"] = session["host"] + 1 /\ session["host"] \in Nat
          BY <1>1, <2>1, <3>2
        <5>2. session'["client"] \in Nat
          BY <1>1, <2>2 DEF Onward
        <5>3. QED  BY <5>1, <5>2
      <4>3. a \in Seq(Cell) /\ Heard(a, result'["host"])
        BY <4>2, PacketLine, HeardPacket DEF Types, Line
      <4> HIDE DEF a
      <4>4. avail["client"] \o (wire["client"] \o a) = (avail["client"] \o wire["client"]) \o a
        BY <1>1, <4>3, Associative
      <4>5. Inbound("client")' = Inbound("client") \o a
        BY <2>1, <4>1, <4>4 DEF Inbound
      <4>6. Inbound("client") \in Seq(Cell) /\ Heard(Inbound("client"), result'["host"])
        BY <1>1, <2>2, HeardLater DEF Lines, Line
      <4>7. Heard(Inbound("client") \o a, result'["host"])
        BY <4>3, <4>6, HeardConcat
      <4>8. QED  BY <4>5, <4>7 DEF Told
    <3>3. QED  BY <1>6, <3>1, <3>2 DEF Start, Peers
  <2>5. ClientAfterHost'
    BY <2>1, <2>2, AfterHostKept
  <2>6. QED  BY <2>3, <2>4, <2>5
<1>7. ASSUME NEW p \in Peers, StartUnconnected(p) PROVE Fresh' /\ Told' /\ ClientAfterHost'
  <2>1. /\ session' = [session EXCEPT ![p] = @ + 1] /\ session[p] < MaxSessions[p]
        /\ session'[p] = session[p] + 1 /\ session[p] \in Nat
        /\ result' = [result EXCEPT ![p][session'[p]] = "TIMEOUT"]
        /\ waiting' = waiting /\ wire' = wire /\ avail' = avail
        /\ waiting[p] = "none"
    BY <1>1, <1>7 DEF StartUnconnected, Running
  <2>2. session'[p] \in 1 .. MaxSessions[p] /\ session'[p] > session[p]
    BY <2>1, MaxSessionsNat
  <2>3. result[p][session'[p]] = "none" /\ "TIMEOUT" \in Results
    BY <2>2 DEF Fresh, Results
  <2>4. /\ Kept
        /\ \A q \in Peers : \A k \in 1 .. MaxSessions[q] :
             q # p \/ k # session'[p] => result'[q][k] = result[q][k]
    BY <2>1, <2>2, <2>3, RecordedKept
  <2>5. result'[p][session'[p]] = "TIMEOUT"
    BY <2>1, <2>2, <2>3, Recorded
  <2>6. Fresh'
    <3> SUFFICES ASSUME NEW q \in Peers, NEW n \in 1 .. MaxSessions[q],
                        n > session'[q] \/ (n = session'[q] /\ waiting[q] # "none")
                 PROVE  result'[q][n] = "none"
      BY <2>1 DEF Fresh, Running
    <3>1. CASE q = p
      <4>1. n > session'[p] /\ n \in Nat
        BY <2>1, <3>1
      <4>2. n # session'[p] /\ n > session[p]
        BY <2>1, <2>2, <4>1
      <4>3. QED  BY <2>4, <3>1, <4>2 DEF Fresh
    <3>2. CASE q # p
      BY <1>1, <2>1, <2>4, <3>2 DEF Fresh, Running
    <3>3. QED  BY <3>1, <3>2
  <2>7. Told'
    BY <2>1, <2>4, ToldKept DEF Inbound
  <2>8. ClientAfterHost'
    <3>1. \A n \in 1 .. MaxSessions["client"] :
            result'["client"][n] = "OK" => result["client"][n] = "OK"
      BY <1>1, <2>4, <2>5
    <3>2. Onward
      BY <1>4, <2>1
    <3>3. QED  BY <2>4, <3>1, <3>2, AfterHostKept
  <2>9. QED  BY <2>6, <2>7, <2>8
<1>8. ASSUME NEW p \in Peers, Deliver(p) PROVE Fresh' /\ Told' /\ ClientAfterHost'
  <2>1. waiting' = waiting /\ session' = session /\ result' = result
    BY <1>8 DEF Deliver
  <2>2. Inbound("client")' = Inbound("client")
    BY <1>1, <1>8, DeliverSame
  <2>3. Kept /\ Onward
    BY <1>2, <1>3, <2>1
  <2>4. QED  BY <2>1, <2>2, <2>3, ToldKept, AfterHostKept DEF Fresh, Running
<1>9. CASE Toggle
  <2>1. /\ session' = session /\ Inbound("client")' = <<>>
        /\ \/ result' = result /\ waiting' = waiting
           \/ /\ Running("client")
              /\ result' = [result EXCEPT !["client"][session["client"]] = "TIMEOUT"]
              /\ waiting' = [waiting EXCEPT !["client"] = "none"]
    <3>1. <<>> \o <<>> = <<>>
      BY EmptyLine, AddNothing
    <3>2. QED  BY <1>1, <1>9, <3>1 DEF Toggle, Conclude, Inbound
  <2>2. Told'
    BY <2>1 DEF Told, Heard
  <2>3. Onward
    BY <1>3, <2>1
  <2>4. CASE result' = result /\ waiting' = waiting
    <3>1. Fresh'
      BY <2>1, <2>4 DEF Fresh, Running
    <3>2. QED  BY <1>2, <2>2, <2>3, <2>4, <3>1, AfterHostKept
  <2>5. CASE /\ Running("client")
             /\ result' = [result EXCEPT !["client"][session["client"]] = "TIMEOUT"]
             /\ waiting' = [waiting EXCEPT !["client"] = "none"]
    <3>1. session["client"] \in 1 .. MaxSessions["client"] /\ "TIMEOUT" \in Results
      BY <1>1, <2>5, RunningSession DEF Results
    <3>2. result["client"][session["client"]] = "none"
      BY <1>1, <2>5, <3>1 DEF Fresh
    <3>3. /\ Kept
          /\ \A q \in Peers : \A k \in 1 .. MaxSessions[q] :
               q # "client" \/ k # session["client"] => result'[q][k] = result[q][k]
      BY <1>1, <2>5, <3>1, <3>2, RecordedKept
    <3>4. result'["client"][session["client"]] = "TIMEOUT"
      BY <1>1, <2>5, <3>1, Recorded
    <3>5. Fresh'
      <4> SUFFICES ASSUME NEW q \in Peers, NEW n \in 1 .. MaxSessions[q],
                          n > session[q] \/ (n = session[q] /\ waiting'[q] # "none")
                   PROVE  result'[q][n] = "none"
        BY <2>1 DEF Fresh, Running
      <4>1. CASE q = "client"
        <5>1. n > session[q] /\ n \in Nat /\ session[q] \in Nat
          BY <1>1, <2>5, <4>1
        <5>2. n # session[q]
          BY <5>1
        <5>3. QED  BY <3>3, <4>1, <5>1, <5>2 DEF Fresh
      <4>2. CASE q # "client"
        BY <1>1, <2>5, <3>3, <4>2 DEF Fresh, Running
      <4>3. QED  BY <4>1, <4>2
    <3>6. ClientAfterHost'
      <4>1. \A n \in 1 .. MaxSessions["client"] :
              result'["client"][n] = "OK" => result["client"][n] = "OK"
        BY <1>1, <3>3, <3>4
      <4>2. QED  BY <2>3, <3>3, <4>1, AfterHostKept
    <3>7. QED  BY <2>2, <3>5, <3>6
  <2>6. QED  BY <2>1, <2>4, <2>5
<1>10. QED  BY <1>5, <1>6, <1>7, <1>8, <1>9 DEF Next

\* So is it in all reachable states.
LEMMA OrderInvariance == InfoSpec => [](Fresh /\ Told /\ ClientAfterHost)
<1>1. InfoInit => Fresh /\ Told /\ ClientAfterHost
  <2> SUFFICES ASSUME Init PROVE Fresh /\ Told /\ ClientAfterHost
    BY DEF InfoInit
  <2>1. Told
    <3>1. <<>> \o <<>> = <<>>
      BY EmptyLine, AddNothing
    <3>2. Inbound("client") = <<>>
      BY <3>1 DEF Init, Inbound, Peers
    <3>3. QED  BY <3>2 DEF Told, Heard
  <2>2. Fresh
    BY DEF Init, Fresh
  <2>3. ClientAfterHost
    BY DEF Init, ClientAfterHost, MaxSessions, Peers
  <2>4. QED  BY <2>1, <2>2, <2>3
<1>2. /\ IInv /\ Book /\ Copied /\ Fresh /\ Told /\ ClientAfterHost /\ [InfoNext]_allVars
      => (Fresh /\ Told /\ ClientAfterHost)'
  <2> SUFFICES ASSUME IInv, Book, Copied, Fresh, Told, ClientAfterHost, [InfoNext]_allVars
               PROVE  Fresh' /\ Told' /\ ClientAfterHost'
    OBVIOUS
  <2>1. CASE InfoNext
    BY <2>1, OrderStep DEF InfoNext
  <2>2. CASE UNCHANGED allVars
    <3>1. UNCHANGED <<wire, avail, waiting, session, result>>
      BY <2>2 DEF allVars, vars
    <3>2. QED  BY <3>1 DEF Fresh, Running, Told, Inbound, ClientAfterHost
  <2>3. QED  BY <2>1, <2>2
<1>3. QED  BY <1>1, <1>2, Invariance, BookInvariance, PTL DEF InfoSpec
-----------------------------------------------------------------------------
\* What there is of a packet: nothing, the data that follow a header, or all.
Chunks == Types \cup {"none", "data"}
Extent(c) == IF c = "none" THEN 0 ELSE IF c = "data" THEN InfoSize ELSE Size(c)

\* If c is a packet, it begins after i cells of s.
Begins(s, i, c) == c \in Types => s[i + 1].type = c /\ s[i + 1].part = 1

\* The cells s are a and then b, and each is among the first n whole or not at
\* all; of a packet that was begun, the data have arrived.
Parcel(s, n, a, b) ==
  /\ Len(s) = Extent(a) + Extent(b)
  /\ Begins(s, 0, a) /\ Begins(s, Extent(a), b)
  /\ n \in {0, Extent(a), Extent(a) + Extent(b)}
  /\ a = "data" => n # 0

\* What p has still to read, and the state of its handshake.
Holds(p, a, b) == Parcel(Inbound(p), Len(avail[p]), a, b)
At(p, w, s, a, b) == waiting[p] = w /\ step[p] = s /\ Holds(p, a, b)

\* A moment of the exchange.
Moment(hw, hs, a, b, cw, cs, c) == At("host", hw, hs, a, b) /\ At("client", cw, cs, c, "none")

\* The course of the first attempt of the host when nothing is late.
Unstarted ==
  \E w \in {"none", "header"} : Moment("none", 1, "none", "none", w, 1, "none")
Called ==
  \E w \in {"none", "header"} : Moment("header", 1, "none", "none", w, 1, "INIT_C")
Heeded == Moment("header", 1, "INIT_H", "none", "header", 2, "none")
Asked == Moment("header", 2, "none", "none", "header", 2, "TX_INFO")
Sent == Moment("header", 2, "TX_INFO_ACK", "TX_INFO", "header", 3, "none")
Opened == Moment("data", 2, "data", "TX_INFO", "header", 3, "none")
Copying == Moment("header", 3, "TX_INFO", "none", "header", 3, "none")
Closing == Moment("none", 3, "none", "none", "header", 3, "TX_INFO_ACK")
Closed == Moment("none", 3, "none", "none", "data", 3, "data")

\* The host gave up, before the client had begun to answer.
GaveUp == ~ Running("host") /\ \A n \in 1 .. MaxAttempts : result["host"][n] # "OK"

\* A run of the client has succeeded.
Reached == ~ Running("host") /\ \E n \in 1 .. MaxRuns : result["client"][n] = "OK"

OnTime == timely /\ resets = 0 /\ session["host"] <= 1
Course ==
  OnTime =>
    /\ channel
    /\ \/ session["host"] = 0 /\ Unstarted
       \/ session["host"] = 1 /\
            (Called \/ Heeded \/ Asked \/ Sent \/ Opened \/ Copying \/ Closing \/ Closed
             \/ GaveUp \/ Reached)
-----------------------------------------------------------------------------
\* How much there is of a packet.
LEMMA Extents ==
  /\ Extent("none") = 0 /\ Extent("data") = InfoSize
  /\ \A c \in Chunks : Extent(c) \in Nat /\ (c # "none" => Extent(c) >= 1)
  /\ \A t \in Types : t \in Chunks /\ Extent(t) = Size(t) /\ Extent(t) >= HdrSize
  /\ Extent("TX_INFO_ACK") = HdrSize + InfoSize
  /\ \A t \in Types \ {"TX_INFO_ACK"} : Extent(t) = HdrSize
<1>1. "none" \notin Types /\ "data" \notin Types /\ "TX_INFO_ACK" \in Types
  BY DEF Types
<1>2. \A t \in Types : t \in Chunks /\ Extent(t) = Size(t)
  BY <1>1 DEF Extent, Chunks
<1>3. Extent("none") = 0 /\ Extent("data") = InfoSize
  BY DEF Extent
<1>4. \A t \in Types : Size(t) \in Nat /\ Size(t) >= HdrSize /\ Size(t) >= 1
  BY Sizes
<1>5. \A c \in Chunks : Extent(c) \in Nat /\ (c # "none" => Extent(c) >= 1)
  BY <1>2, <1>3, <1>4, Sizes DEF Chunks
<1>6. QED  BY <1>1, <1>2, <1>3, <1>4, <1>5, Sizes

\* When cells were taken off the front, and e is left of the first packet.
LEMMA Cut ==
  ASSUME NEW s \in Seq(Cell), NEW n \in 1 .. Len(s), NEW a \in Chunks,
         NEW b \in Types \cup {"none"}, Parcel(s, n, a, b),
         NEW e \in {"none", "data"}, NEW k \in Nat, Extent(a) = k + Extent(e)
  PROVE  k <= n /\ Parcel(Rest(s, k), n - k, e, b)
<1>1. /\ Extent(a) \in Nat /\ Extent(b) \in Nat /\ Extent(e) \in Nat /\ Len(s) \in Nat
      /\ e \notin Types /\ (b \in Types => Extent(b) >= 1) /\ (e = "data" => Extent(e) >= 1)
      /\ b # "data" /\ n \in Nat /\ n # 0
  <2>1. "none" \notin Types /\ "data" \notin Types
    BY DEF Types
  <2>2. b \in Chunks /\ e \in Chunks
    BY DEF Chunks
  <2>3. QED  BY <2>1, <2>2, Extents, LenProperties
<1>2. n = Extent(a) \/ n = Extent(a) + Extent(b)
  BY <1>1 DEF Parcel
<1>3. k <= n /\ k \in 0 .. Len(s) /\ Len(s) = Extent(a) + Extent(b)
  BY <1>1, <1>2 DEF Parcel
<1>4. /\ Len(Rest(s, k)) = Len(s) - k
      /\ \A i \in 1 .. Len(s) - k : Rest(s, k)[i] = s[k + i]
  BY <1>3, RestProperties
<1>5. Len(Rest(s, k)) = Extent(e) + Extent(b)
  BY <1>1, <1>3, <1>4
<1>6. Begins(Rest(s, k), Extent(e), b)
  <2> SUFFICES ASSUME b \in Types
               PROVE  Rest(s, k)[Extent(e) + 1].type = b /\ Rest(s, k)[Extent(e) + 1].part = 1
    BY DEF Begins
  <2>1. Extent(e) + 1 \in 1 .. Len(s) - k /\ k + (Extent(e) + 1) = Extent(a) + 1
    BY <1>1, <1>3
  <2>2. Rest(s, k)[Extent(e) + 1] = s[Extent(a) + 1]
    BY <1>4, <2>1
  <2>3. QED  BY <2>2 DEF Parcel, Begins
<1>7. Begins(Rest(s, k), 0, e)
  BY <1>1 DEF Begins
<1>8. n - k \in {Extent(e), Extent(e) + Extent(b)} /\ (e = "data" => n - k # 0)
  BY <1>1, <1>2
<1>9. QED  BY <1>3, <1>5, <1>6, <1>7, <1>8 DEF Parcel

\* Nothing is left of the first packet.
LEMMA Shift ==
  ASSUME NEW s, NEW n, NEW b \in Types \cup {"none"}, Parcel(s, n, "none", b)
  PROVE  Parcel(s, n, b, "none")
<1>1. Extent("none") = 0 /\ Extent(b) \in Nat /\ 0 + Extent(b) = Extent(b) /\ Extent(b) + 0 = Extent(b)
      /\ b # "data" /\ "none" \notin Types
  BY Extents DEF Types, Chunks
<1>2. QED  BY <1>1 DEF Parcel, Begins

\* Nothing is left at all.
LEMMA NothingLeft ==
  ASSUME NEW s \in Seq(Cell), NEW t \in Seq(Cell), NEW a \in Chunks, NEW b \in Chunks,
         Parcel(s \o t, Len(s), a, b)
  PROVE  /\ a = "none" /\ b = "none" => s = <<>> /\ t = <<>>
         /\ s = <<>> /\ t = <<>> => a = "none" /\ b = "none"
<1>1. Len(s) \in Nat /\ Len(t) \in Nat /\ Len(s) + Len(t) = Extent(a) + Extent(b)
  BY LenProperties, ConcatProperties DEF Parcel
<1>2. /\ Extent(a) \in Nat /\ Extent(b) \in Nat /\ Extent("none") = 0
      /\ (a # "none" => Extent(a) >= 1) /\ (b # "none" => Extent(b) >= 1)
  BY Extents
<1>3. (Len(s) = 0 <=> s = <<>>) /\ (Len(t) = 0 <=> t = <<>>)
  BY EmptySeq
<1>4. QED  BY <1>1, <1>2, <1>3

\* The two parts of what p has still to read.
LEMMA Ahead ==
  ASSUME Control, NEW p \in Peers
  PROVE  /\ avail[p] \in Seq(Cell) /\ wire[p] \in Seq(Cell) /\ Inbound(p) \in Seq(Cell)
         /\ Len(avail[p]) \in Nat /\ Len(wire[p]) \in Nat
         /\ Len(Inbound(p)) = Len(avail[p]) + Len(wire[p])
         /\ \A k \in 1 .. Len(avail[p]) : Inbound(p)[k] = avail[p][k]
         /\ \A k \in 1 .. Len(wire[p]) : Inbound(p)[Len(avail[p]) + k] = wire[p][k]
<1>1. /\ avail[p] \in Seq(Cell) /\ wire[p] \in Seq(Cell)
      /\ Len(avail[p]) \in Nat /\ Len(wire[p]) \in Nat
  BY LenProperties DEF Control
<1>2. /\ Inbound(p) \in Seq(Cell) /\ Len(Inbound(p)) = Len(avail[p]) + Len(wire[p])
      /\ \A k \in 1 .. Len(avail[p]) + Len(wire[p]) :
           Inbound(p)[k] = IF k <= Len(avail[p]) THEN avail[p][k] ELSE wire[p][k - Len(avail[p])]
  BY <1>1, ConcatProperties DEF Inbound
<1>3. \A k \in 1 .. Len(avail[p]) : k \in 1 .. Len(avail[p]) + Len(wire[p]) /\ k <= Len(avail[p])
  BY <1>1, InFirst
<1>4. \A k \in 1 .. Len(wire[p]) :
        /\ Len(avail[p]) + k \in 1 .. Len(avail[p]) + Len(wire[p])
        /\ ~ (Len(avail[p]) + k <= Len(avail[p])) /\ (Len(avail[p]) + k) - Len(avail[p]) = k
  BY <1>1, InSecond
<1>5. QED  BY <1>1, <1>2, <1>3, <1>4

\* A packet that is not late is delivered whole.
LEMMA HoldsDelivered ==
  ASSUME Control, timely, NEW p \in Peers, Deliver(p), NEW q \in Peers,
         NEW a \in Chunks, NEW b \in Types \cup {"none"}, Holds(q, a, b)
  PROVE  Holds(q, a, b)'
<1>1. Inbound(q)' = Inbound(q)
  BY DeliverSame
<1>2. PICK n \in 1 .. Len(wire[p]) :
        /\ n = Size(Head(wire[p]).type)
        /\ avail' = [avail EXCEPT ![p] = @ \o SubSeq(wire[p], 1, n)]
  BY DEF Deliver, Size
<1>3. CASE q # p
  <2>1. avail'[q] = avail[q]
    BY <1>2, <1>3 DEF Control
  <2>2. QED  BY <1>1, <2>1 DEF Holds
<1>4. CASE q = p
  <2> DEFINE m == Len(avail[p])
  <2>1. /\ avail[p] \in Seq(Cell) /\ wire[p] \in Seq(Cell) /\ m \in Nat /\ Len(wire[p]) \in Nat
        /\ Len(Inbound(p)) = m + Len(wire[p]) /\ n \in Nat /\ n >= 1 /\ n <= Len(wire[p])
    <3>1. /\ avail[p] \in Seq(Cell) /\ wire[p] \in Seq(Cell) /\ m \in Nat /\ Len(wire[p]) \in Nat
          /\ Len(Inbound(p)) = m + Len(wire[p])
      BY Ahead
    <3>2. n \in Nat /\ n >= 1 /\ n <= Len(wire[p])
      <4>1. Len(wire[p]) \in Nat /\ n \in 1 .. Len(wire[p])
        BY <3>1
      <4>2. QED  BY <4>1
    <3>3. QED  BY <3>1, <3>2
  <2>2. Head(wire[p]) = Inbound(p)[m + 1]
    <3>1. 1 \in 1 .. Len(wire[p])
      BY <2>1
    <3>2. Inbound(p)[m + 1] = wire[p][1]
      BY <3>1, Ahead
    <3>3. QED  BY <3>2
  <2>3. Len(avail'[p]) = m + n
    <3>1. \A i \in 1 .. n : wire[p][i] \in Cell
      <4>1. \A i \in 1 .. n : i \in 1 .. Len(wire[p])
        BY <2>1
      <4>2. QED  BY <2>1, <4>1, ElementOfSeq
    <3>2. SubSeq(wire[p], 1, n) \in Seq(Cell) /\ Len(SubSeq(wire[p], 1, n)) = n
      <4>1. Len(SubSeq(wire[p], 1, n)) = IF 1 <= n THEN n - 1 + 1 ELSE 0
        BY <2>1, <3>1, SubSeqProperties
      <4>2. SubSeq(wire[p], 1, n) \in Seq(Cell)
        BY <2>1, <3>1, SubSeqProperties
      <4>3. QED  BY <2>1, <4>1, <4>2
    <3>3. avail'[p] = avail[p] \o SubSeq(wire[p], 1, n)
      BY <1>2 DEF Control
    <3>4. QED  BY <2>1, <3>2, <3>3, ConcatProperties
  <2>4. /\ Extent(a) \in Nat /\ Extent(b) \in Nat /\ Extent("none") = 0
        /\ (a \in Types => Extent(a) = Size(a)) /\ (b \in Types => Extent(b) = Size(b))
        /\ (a # "data" => a = "none" \/ a \in Types) /\ (b = "none" \/ b \in Types)
    BY Extents DEF Chunks
  <2>5. Parcel(Inbound(p), m, a, b)
    BY <1>4 DEF Holds
  <2> HIDE DEF m
  <2>6. m = 0 \/ m = Extent(a) \/ m = Extent(a) + Extent(b)
    BY <2>5 DEF Parcel
  <2>7. m # Extent(a) + Extent(b)
    BY <2>1, <2>5 DEF Parcel
  <2>8. CASE m = Extent(a)
    <3>1. b \in Types
      BY <2>4, <2>7, <2>8
    <3>2. Inbound(p)[m + 1].type = b
      BY <2>5, <2>8, <3>1 DEF Parcel, Begins
    <3>3. n = Extent(b)
      BY <1>2, <2>2, <2>4, <3>1, <3>2
    <3>4. Parcel(Inbound(p), m + n, a, b)
      BY <2>1, <2>5, <2>8, <3>3 DEF Parcel
    <3>5. QED  BY <1>1, <1>4, <2>3, <3>4 DEF Holds
  <2>9. CASE m = 0 /\ m # Extent(a)
    <3>1. a \in Types
      BY <2>4, <2>5, <2>9 DEF Parcel
    <3>2. Inbound(p)[m + 1].type = a
      <4>1. m + 1 = 0 + 1
        BY <2>9
      <4>2. QED  BY <2>5, <3>1, <4>1 DEF Parcel, Begins
    <3>3. n = Extent(a)
      BY <1>2, <2>2, <2>4, <3>1, <3>2
    <3>4. m + n = Extent(a) /\ m + n # 0
      BY <2>1, <2>9, <3>3
    <3>5. Parcel(Inbound(p), m + n, a, b)
      BY <2>5, <3>4 DEF Parcel
    <3>6. QED  BY <1>1, <1>4, <2>3, <3>5 DEF Holds
  <2>10. QED  BY <2>6, <2>7, <2>8, <2>9
<1>5. QED  BY <1>3, <1>4

\* Nothing is left to read.
LEMMA HoldsNothing ==
  ASSUME Control, NEW p \in Peers, NEW a \in Chunks, NEW b \in Chunks, Holds(p, a, b)
  PROVE  (a = "none" /\ b = "none") <=> (avail[p] = <<>> /\ wire[p] = <<>>)
<1>1. avail[p] \in Seq(Cell) /\ wire[p] \in Seq(Cell)
  BY Ahead
<1>2. Parcel(avail[p] \o wire[p], Len(avail[p]), a, b)
  BY DEF Holds, Inbound
<1>3. QED  BY <1>1, <1>2, NothingLeft

\* When nothing is late, nobody waits 5 s while there is something to read.
LEMMA NoTimeout ==
  ASSUME Control, timely, NEW p \in Peers, Timeout(p)
  PROVE  /\ \A a, b \in Chunks : Holds(p, a, b) => a = "none"
         /\ Running(Peer(p)) => \A a, b \in Chunks : Holds(Peer(p), a, b) => a = "none"
<1>1. /\ avail[p] = <<>> /\ wire[p] = <<>> /\ Peer(p) \in Peers
      /\ Running(Peer(p)) => wire[Peer(p)] = <<>> /\ avail[Peer(p)] = <<>>
  BY PeerProperties DEF Timeout, Expires
<1>2. QED  BY <1>1, HoldsNothing

\* What p does when it can read a packet: its state and the rest of the line.
Ready(p, w, a, b) ==
  /\ Control /\ Lines /\ DataNext(p)
  /\ p \in Peers /\ waiting[p] = w /\ Holds(p, a, b)
  /\ a \in Chunks /\ b \in Types \cup {"none"}

\* Then it can read at once.
LEMMA ReadyLength ==
  ASSUME NEW p, NEW w, NEW a, NEW b, Ready(p, w, a, b), avail[p] # <<>>
  PROVE  /\ Len(avail[p]) \in 1 .. Len(Inbound(p)) /\ Len(avail[p]) \in Nat
         /\ Extent(a) <= Len(avail[p])
<1>1. /\ Len(avail[p]) \in Nat /\ Len(wire[p]) \in Nat /\ Len(avail[p]) # 0
      /\ Len(Inbound(p)) = Len(avail[p]) + Len(wire[p])
  BY Ahead, EmptySeq DEF Ready
<1>2. Extent(a) \in Nat /\ Extent(b) \in Nat
  BY Extents DEF Ready, Chunks
<1>3. Len(avail[p]) = Extent(a) \/ Len(avail[p]) = Extent(a) + Extent(b)
  BY <1>1 DEF Ready, Holds, Parcel
<1>4. Extent(a) <= Len(avail[p])
  BY <1>1, <1>2, <1>3
<1>5. Len(avail[p]) \in 1 .. Len(Inbound(p))
  <2>1. \A m, n \in Nat : m # 0 => m \in 1 .. m + n
    OBVIOUS
  <2>2. QED  BY <1>1, <2>1
<1>6. QED  BY <1>1, <1>4, <1>5

\* What is left when p has read k cells of the first packet.
LEMMA HoldsRead ==
  ASSUME NEW p, NEW w, NEW a, NEW b, Ready(p, w, a, b), avail[p] # <<>>,
         NEW e \in {"none", "data"}, NEW k \in Nat, Extent(a) = k + Extent(e),
         avail'[p] = Rest(avail[p], k), wire'[p] = wire[p]
  PROVE  Holds(p, e, b)' /\ (e = "none" => Holds(p, b, "none")')
<1>1. /\ Control /\ p \in Peers /\ a \in Chunks /\ b \in Types \cup {"none"}
      /\ Parcel(Inbound(p), Len(avail[p]), a, b)
      /\ avail[p] \in Seq(Cell) /\ wire[p] \in Seq(Cell) /\ Inbound(p) \in Seq(Cell)
  BY Ahead DEF Ready, Holds
<1>2. Len(avail[p]) \in 1 .. Len(Inbound(p)) /\ Len(avail[p]) \in Nat
  BY ReadyLength
<1>3. k <= Len(avail[p]) /\ Parcel(Rest(Inbound(p), k), Len(avail[p]) - k, e, b)
  BY <1>1, <1>2, Cut
<1>4. k \in 0 .. Len(avail[p])
  BY <1>2, <1>3
<1>5. Rest(avail[p], k) \o wire[p] = Rest(Inbound(p), k) /\ Len(Rest(avail[p], k)) = Len(avail[p]) - k
  BY <1>1, <1>4, RestConcat, RestProperties DEF Inbound
<1>6. Parcel(Inbound(p)', Len(avail'[p]), e, b)
  BY <1>3, <1>5 DEF Inbound
<1>7. e = "none" => Parcel(Inbound(p)', Len(avail'[p]), b, "none")
  BY <1>1, <1>6, Shift
<1>8. QED  BY <1>6, <1>7 DEF Holds
-----------------------------------------------------------------------------
\* A header that p can read is read whole, and is that of the first packet.
LEMMA HeaderIs ==
  ASSUME NEW p, NEW a \in Types, NEW b, Ready(p, "header", a, b), ReadHeader(p)
  PROVE  /\ avail[p] # <<>> /\ session' = session
         /\ a # "TX_INFO_ACK" =>
              \E h \in Cell : h.type = a /\ Accept(p, h, <<>>, Rest(avail[p], HdrSize))
         /\ a = "TX_INFO_ACK" =>
              /\ waiting' = [waiting EXCEPT ![p] = "data"]
              /\ avail' = [avail EXCEPT ![p] = Rest(avail[p], HdrSize)]
              /\ wire' = wire /\ step' = step /\ result' = result
<1>1. /\ avail[p] # <<>> /\ p \in Peers /\ a \in Chunks /\ session' = session
      /\ HdrSize \in Nat \ {0} /\ InfoSize \in Nat \ {0}
  BY Sizes, Extents DEF Ready, ReadHeader
<1>2. HdrSize <= Len(avail[p]) /\ Len(avail[p]) \in Nat
  <2>1. Extent(a) >= HdrSize /\ Extent(a) \in Nat
    BY <1>1, Extents
  <2>2. Extent(a) <= Len(avail[p]) /\ Len(avail[p]) \in Nat
    BY <1>1, ReadyLength
  <2>3. QED  BY <1>1, <2>1, <2>2
<1>3. Shorter(HdrSize, Len(avail[p])) = HdrSize
  BY <1>1, <1>2 DEF Shorter
<1>4. 1 \in 1 .. Len(avail[p]) /\ HdrSize \in 1 .. Len(avail[p])
  BY <1>1, <1>2
<1>5. /\ 1 \in DOMAIN Inbound(p) /\ Inbound(p)[1] = avail[p][1] /\ avail[p][1] \in Cell
      /\ HdrSize \in DOMAIN Inbound(p) /\ Inbound(p)[HdrSize] = avail[p][HdrSize]
      /\ avail[p][HdrSize] \in Cell
  BY <1>1, <1>4, Front DEF Ready
<1>6. avail[p][1].type = a /\ avail[p][1].part = 1
  <2>1. Inbound(p)[0 + 1].type = a /\ Inbound(p)[0 + 1].part = 1
    BY DEF Ready, Holds, Parcel, Begins
  <2>2. 0 + 1 = 1
    OBVIOUS
  <2>3. QED  BY <1>5, <2>1, <2>2
<1>7. avail[p][HdrSize].type = a
  <2>1. 1 <= HdrSize /\ 1 + (HdrSize - 1) <= Size(a)
    BY <1>1, Sizes
  <2>2. avail[p][HdrSize] = Later(avail[p][1], HdrSize - 1)
    <3>1. Unbroken(Inbound(p))
      BY <1>1 DEF Ready, Lines, Line
    <3>2. QED  BY <1>5, <1>6, <2>1, <3>1 DEF Unbroken
  <2>3. PICK f \in Nat, r \in Nat :
          avail[p][1] = [type |-> a, from |-> f, re |-> r, part |-> 1]
    BY <1>5, <1>6 DEF Cell
  <2>4. avail[p][HdrSize] = [type |-> a, from |-> f, re |-> r, part |-> 1 + (HdrSize - 1)]
    BY <2>2, <2>3, LaterCell
  <2>5. QED  BY <2>4
<1>8. CASE a # "TX_INFO_ACK"
  <2>1. DataLen(avail[p][HdrSize].type) = 0
    BY <1>7, <1>8, Sizes
  <2>2. Accept(p, avail[p][HdrSize], <<>>, Rest(avail[p], HdrSize))
    BY <1>1, <1>3, <1>6, <2>1 DEF ReadHeader
  <2>3. QED  BY <1>1, <1>5, <1>7, <1>8, <2>2
<1>9. CASE a = "TX_INFO_ACK"
  <2>1. DataLen(avail[p][HdrSize].type) # 0
    BY <1>1, <1>7, <1>9, Sizes
  <2>2. QED  BY <1>1, <1>3, <1>6, <1>9, <2>1 DEF ReadHeader
<1>10. QED  BY <1>8, <1>9

\* Data that p can read are read whole.
LEMMA DataIs ==
  ASSUME NEW p, NEW b, Ready(p, "data", "data", b), ReadData(p)
  PROVE  /\ avail[p] # <<>> /\ session' = session
         /\ header[p].type = "TX_INFO_ACK"
         /\ \E d : Accept(p, header[p], d, Rest(avail[p], InfoSize))
<1>1. /\ avail[p] # <<>> /\ p \in Peers /\ session' = session
      /\ InfoSize \in Nat /\ header[p].type = "TX_INFO_ACK"
  BY Sizes DEF Ready, ReadData, DataNext
<1>2. InfoSize <= Len(avail[p]) /\ Len(avail[p]) \in Nat
  BY <1>1, ReadyLength, Extents
<1>3. Shorter(InfoSize, Len(avail[p])) = InfoSize
  BY <1>1, <1>2 DEF Shorter
<1>4. QED  BY <1>1, <1>3 DEF ReadData, Complete

\* The packets of ts are c and then d.
Sends(ts, c, d) ==
  \/ ts = <<>> /\ c = "none" /\ d = "none"
  \/ ts = <<c>> /\ c \in Types /\ d = "none"
  \/ ts = <<c, d>> /\ c \in Types /\ d \in Types

\* A packet begins with its first cell.
LEMMA PacketBegins ==
  ASSUME NEW t \in Types, NEW f \in Nat \ {0}, NEW r \in Nat
  PROVE  /\ Packet(t, f, r) \in Seq(Cell) /\ Len(Packet(t, f, r)) = Extent(t)
         /\ Extent(t) \in Nat \ {0}
         /\ Packet(t, f, r)[1].type = t /\ Packet(t, f, r)[1].part = 1
<1>1. Extent(t) \in Nat \ {0} /\ Extent(t) = HdrSize + DataLen(t)
  BY Extents, Sizes DEF Size
<1>2. f \in 1 .. f /\ r \in 0 .. r
  OBVIOUS
<1>3. Packet(t, f, r) \in Seq(Cell)
  BY <1>2, PacketLine DEF Line
<1>4. DOMAIN Packet(t, f, r) = 1 .. Extent(t)
  BY <1>1 DEF Packet
<1>5. Len(Packet(t, f, r)) = Extent(t)
  BY <1>1, <1>3, <1>4, LenProperties
<1>6. 1 \in 1 .. HdrSize + DataLen(t)
  BY <1>1
<1>7. QED  BY <1>1, <1>3, <1>5, <1>6 DEF Packet

\* What is sent to a peer with nothing left to read.
LEMMA PacketsParcel ==
  ASSUME NEW ts, NEW c, NEW d, Sends(ts, c, d), NEW f \in Nat \ {0}, NEW r \in Nat
  PROVE  Packets(ts, f, r) \in Seq(Cell) /\ Parcel(Packets(ts, f, r), 0, c, d)
<1>1. Extent("none") = 0 /\ "none" \notin Types /\ "data" \notin Types
  BY Extents DEF Types
<1>2. CASE ts = <<>> /\ c = "none" /\ d = "none"
  <2>1. Packets(ts, f, r) = <<>> /\ <<>> \in Seq(Cell) /\ Len(<<>>) = 0
    BY <1>2, EmptyLine, EmptySeq DEF Packets
  <2>2. Begins(<<>>, 0, "none") /\ 0 + 0 = 0
    BY <1>1 DEF Begins
  <2>3. Parcel(<<>>, 0, "none", "none")
    BY <1>1, <2>1, <2>2 DEF Parcel
  <2>4. QED  BY <1>2, <2>1, <2>3
<1>3. CASE ts = <<c>> /\ c \in Types /\ d = "none"
  <2> DEFINE P == Packet(c, f, r)
  <2>1. /\ P \in Seq(Cell) /\ Len(P) = Extent(c) /\ Extent(c) \in Nat \ {0}
        /\ P[1].type = c /\ P[1].part = 1
    BY <1>3, PacketBegins
  <2>2. Packets(ts, f, r) = P \o <<>>
    BY <1>3 DEF Packets
  <2> HIDE DEF P
  <2>3. Packets(ts, f, r) = P
    BY <2>1, <2>2, AddNothing
  <2>4. Parcel(P, 0, c, d)
    <3>1. Begins(P, 0, c)
      <4>1. 0 + 1 = 1
        OBVIOUS
      <4>2. QED  BY <2>1, <4>1 DEF Begins
    <3>2. Extent(c) + 0 = Extent(c)
      BY <2>1
    <3>3. QED  BY <1>1, <1>3, <2>1, <3>1, <3>2 DEF Parcel, Begins
  <2>5. QED  BY <2>1, <2>3, <2>4
<1>4. CASE ts = <<c, d>> /\ c \in Types /\ d \in Types
  <2> DEFINE P == Packet(c, f, r)
             Q == Packet(d, f, r)
  <2>1. /\ P \in Seq(Cell) /\ Len(P) = Extent(c) /\ Extent(c) \in Nat \ {0}
        /\ P[1].type = c /\ P[1].part = 1
        /\ Q \in Seq(Cell) /\ Len(Q) = Extent(d) /\ Extent(d) \in Nat \ {0}
        /\ Q[1].type = d /\ Q[1].part = 1
    BY <1>4, PacketBegins
  <2>2. Packets(ts, f, r) = P \o Q
    BY <1>4 DEF Packets
  <2> HIDE DEF P, Q
  <2>3. /\ P \o Q \in Seq(Cell) /\ Len(P \o Q) = Len(P) + Len(Q)
        /\ \A i \in 1 .. Len(P) + Len(Q) :
             (P \o Q)[i] = IF i <= Len(P) THEN P[i] ELSE Q[i - Len(P)]
    BY <2>1, ConcatProperties
  <2>4. Begins(P \o Q, 0, c)
    <3>1. 0 + 1 \in 1 .. Len(P) + Len(Q) /\ 0 + 1 <= Len(P) /\ 0 + 1 = 1
      BY <2>1
    <3>2. (P \o Q)[0 + 1] = P[1]
      BY <2>3, <3>1
    <3>3. QED  BY <2>1, <3>2 DEF Begins
  <2>5. Begins(P \o Q, Extent(c), d)
    <3>1. /\ Extent(c) + 1 \in 1 .. Len(P) + Len(Q) /\ ~ (Extent(c) + 1 <= Len(P))
          /\ (Extent(c) + 1) - Len(P) = 1
      BY <2>1
    <3>2. (P \o Q)[Extent(c) + 1] = Q[1]
      BY <2>3, <3>1
    <3>3. QED  BY <2>1, <3>2 DEF Begins
  <2>6. QED  BY <1>1, <1>4, <2>1, <2>2, <2>3, <2>4, <2>5 DEF Parcel
<1>5. QED  BY <1>2, <1>3, <1>4 DEF Sends

\* What the peer has to read after an answer.
LEMMA HoldsSent ==
  ASSUME Control, NEW q \in Peers, Holds(q, "none", "none"), avail'[q] = avail[q],
         NEW ts, NEW c, NEW d, Sends(ts, c, d), NEW f \in Nat \ {0}, NEW r \in Nat,
         wire'[q] = wire[q] \o Packets(ts, f, r)
  PROVE  Holds(q, c, d)'
<1> DEFINE s == Packets(ts, f, r)
<1>1. s \in Seq(Cell) /\ Parcel(s, 0, c, d)
  BY PacketsParcel
<1> HIDE DEF s
<1>2. avail[q] = <<>> /\ wire[q] = <<>>
  BY HoldsNothing DEF Chunks
<1>3. <<>> \o (<<>> \o s) = s /\ Len(<<>>) = 0
  BY <1>1, ConcatEmptySeq, EmptySeq
<1>4. Inbound(q)' = s /\ Len(avail'[q]) = 0
  BY <1>2, <1>3 DEF Inbound, s
<1>5. QED  BY <1>1, <1>4 DEF Holds
-----------------------------------------------------------------------------
\* p, which was at its step s, has read its first packet with b after it, and
\* the peer gets c and d in answer; after the last packet p has succeeded.
Turned(p, s, b, c, d) ==
  /\ Holds(Peer(p), c, d)' /\ session' = session
  /\ waiting'[Peer(p)] = waiting[Peer(p)] /\ step'[Peer(p)] = step[Peer(p)]
  /\ s # 3 => At(p, "header", s + 1, b, "none")' /\ result' = result
  /\ s = 3 => waiting'[p] = "none" /\ step'[p] = 3 /\ Outcome(p, "OK")
  /\ s = 3 /\ p = "host" => Holds(p, b, "none")'

\* p has a packet to read that it waits for, the peer has nothing to read.
Facing(p, w, s, a, b, c, d) ==
  /\ Ready(p, w, a, b) /\ step[p] = s /\ s \in 1 .. 3
  /\ Holds(Peer(p), "none", "none") /\ Sends(Answers[p][s], c, d)

\* The packet is taken.
LEMMA AcceptTurn ==
  ASSUME NEW p, NEW w, NEW s, NEW a, NEW b, NEW c, NEW d, Facing(p, w, s, a, b, c, d),
         w # "none", avail[p] # <<>>, session' = session,
         NEW h \in Cell, h.type = Awaited[p][s],
         NEW data, Accept(p, h, data, Rest(avail[p], Extent(a)))
  PROVE  Turned(p, s, b, c, d)
<1> DEFINE q == Peer(p)
<1>1. /\ p \in Peers /\ q \in Peers /\ q # p /\ Control /\ step[p] = s /\ Running(p)
      /\ Holds(q, "none", "none") /\ Extent(a) \in Nat /\ Extent(a) = Extent(a) + Extent("none")
  BY PeerProperties, Extents DEF Facing, Ready, Running
<1>2. session[p] \in Nat \ {0} /\ h.from \in Nat
  BY <1>1 DEF Control, Reading, Cell
<1>3. wire' = [wire EXCEPT ![q] = @ \o Packets(Answers[p][s], session[p], h.from)]
  BY <1>1 DEF Accept
<1>4. Len(Awaited[p]) = 3
  BY <1>1 DEF Awaited, Peers
<1> HIDE DEF q
<1>5. wire'[q] = wire[q] \o Packets(Answers[p][s], session[p], h.from) /\ wire'[p] = wire[p]
  BY <1>1, <1>3 DEF Control
<1>6. CASE s # 3
  <2>1. /\ step' = [step EXCEPT ![p] = @ + 1] /\ waiting' = [waiting EXCEPT ![p] = "header"]
        /\ avail' = [avail EXCEPT ![p] = Rest(avail[p], Extent(a))] /\ result' = result
    BY <1>1, <1>4, <1>6 DEF Accept
  <2>2. /\ step'[p] = s + 1 /\ waiting'[p] = "header" /\ avail'[p] = Rest(avail[p], Extent(a))
        /\ step'[q] = step[q] /\ waiting'[q] = waiting[q] /\ avail'[q] = avail[q]
    BY <1>1, <2>1 DEF Control, Reading
  <2>3. Holds(p, b, "none")'
    BY <1>1, <1>5, <2>2, HoldsRead DEF Facing
  <2>4. Holds(q, c, d)'
    BY <1>1, <1>2, <1>5, <2>2, HoldsSent DEF Facing
  <2>5. At(p, "header", s + 1, b, "none")'
    BY <2>2, <2>3 DEF At
  <2>6. QED  BY <1>6, <2>1, <2>2, <2>4, <2>5 DEF Turned, q
<1>7. CASE s = 3
  <2>1. Return(p, "OK", Rest(avail[p], Extent(a)))
    BY <1>1, <1>4, <1>7 DEF Accept
  <2>2. /\ step' = step /\ waiting' = [waiting EXCEPT ![p] = "none"] /\ Outcome(p, "OK")
        /\ avail' = [avail EXCEPT ![p] =
                       IF p = "client" THEN <<>> ELSE Rest(avail[p], Extent(a))]
    BY <2>1 DEF Return, Conclude, Outcome
  <2>3. /\ step'[p] = 3 /\ waiting'[p] = "none"
        /\ step'[q] = step[q] /\ waiting'[q] = waiting[q] /\ avail'[q] = avail[q]
        /\ p = "host" => avail'[p] = Rest(avail[p], Extent(a))
    BY <1>1, <1>7, <2>2 DEF Control, Reading
  <2>4. p = "host" => Holds(p, b, "none")'
    BY <1>1, <1>5, <2>3, HoldsRead DEF Facing
  <2>5. Holds(q, c, d)'
    BY <1>1, <1>2, <1>5, <2>3, HoldsSent DEF Facing
  <2>6. QED  BY <1>7, <2>2, <2>3, <2>4, <2>5 DEF Turned, q
<1>8. QED  BY <1>6, <1>7

\* The packet is a header.
LEMMA HeaderTurn ==
  ASSUME NEW p, NEW s, NEW a \in Types \ {"TX_INFO_ACK"}, NEW b, NEW c, NEW d,
         Facing(p, "header", s, a, b, c, d), a = Awaited[p][s], ReadHeader(p)
  PROVE  Turned(p, s, b, c, d)
<1>1. PICK h \in Cell : h.type = a /\ Accept(p, h, <<>>, Rest(avail[p], HdrSize))
  BY HeaderIs DEF Facing
<1>2. avail[p] # <<>> /\ session' = session /\ Extent(a) = HdrSize
  BY HeaderIs, Extents DEF Facing
<1>3. QED  BY <1>1, <1>2, AcceptTurn

\* The data of a packet are read.
LEMMA DataTurn ==
  ASSUME NEW p, NEW s, NEW b, NEW c, NEW d,
         Facing(p, "data", s, "data", b, c, d), Awaited[p][s] = "TX_INFO_ACK", ReadData(p)
  PROVE  Turned(p, s, b, c, d)
<1>1. PICK data : Accept(p, header[p], data, Rest(avail[p], InfoSize))
  BY DataIs DEF Facing
<1>2. /\ avail[p] # <<>> /\ session' = session /\ Extent("data") = InfoSize
      /\ header[p] \in Cell /\ header[p].type = "TX_INFO_ACK"
  BY DataIs, Extents DEF Facing, Ready, DataNext
<1>3. QED  BY <1>1, <1>2, AcceptTurn

\* The header of a packet with data is read.
LEMMA HeaderOpens ==
  ASSUME NEW p, NEW b, Ready(p, "header", "TX_INFO_ACK", b), ReadHeader(p)
  PROVE  /\ waiting'[p] = "data" /\ Holds(p, "data", b)'
         /\ waiting'[Peer(p)] = waiting[Peer(p)]
         /\ \A c, d : Holds(Peer(p), c, d) => Holds(Peer(p), c, d)'
         /\ step' = step /\ session' = session /\ result' = result
<1>1. /\ avail[p] # <<>> /\ waiting' = [waiting EXCEPT ![p] = "data"]
      /\ avail' = [avail EXCEPT ![p] = Rest(avail[p], HdrSize)]
      /\ wire' = wire /\ step' = step /\ result' = result /\ session' = session
  BY HeaderIs DEF Types
<1>2. /\ p \in Peers /\ Peer(p) \in Peers /\ Peer(p) # p /\ Control
      /\ HdrSize \in Nat /\ Extent("TX_INFO_ACK") = HdrSize + Extent("data")
  BY PeerProperties, Extents, Sizes DEF Ready
<1>3. /\ waiting'[p] = "data" /\ waiting'[Peer(p)] = waiting[Peer(p)]
      /\ avail'[p] = Rest(avail[p], HdrSize) /\ avail'[Peer(p)] = avail[Peer(p)]
  BY <1>1, <1>2 DEF Control, Reading
<1>4. Holds(p, "data", b)'
  BY <1>1, <1>2, <1>3, HoldsRead
<1>5. \A c, d : Holds(Peer(p), c, d) => Holds(Peer(p), c, d)'
  BY <1>1, <1>3 DEF Holds, Inbound
<1>6. QED  BY <1>1, <1>3, <1>4, <1>5

\* A peer with nothing to read does not read.
LEMMA Idle ==
  ASSUME Control, NEW p \in Peers, Holds(p, "none", "none")
  PROVE  ~ ReadHeader(p) /\ ~ ReadData(p)
<1>1. avail[p] = <<>>
  BY HoldsNothing DEF Chunks
<1>2. QED  BY <1>1 DEF ReadHeader, ReadData

\* What p has to read, and what it knows, make it ready.
LEMMA ReadyAt ==
  ASSUME IInv, NEW p \in Peers, NEW w, NEW s, NEW a \in Chunks, NEW b \in Types \cup {"none"},
         At(p, w, s, a, b)
  PROVE  Ready(p, w, a, b) /\ waiting[p] = w /\ step[p] = s /\ Holds(p, a, b)
BY DEF IInv, Ready, At
-----------------------------------------------------------------------------
\* What a step of p's handshake does when both sides are running.
LEMMA MomentTime ==
  ASSUME IInv, timely, NEW hw, NEW hs, NEW a \in Chunks, NEW b \in Types \cup {"none"},
         NEW cw, NEW cs, NEW c \in Chunks, Moment(hw, hs, a, b, cw, cs, c)
  PROVE  /\ Timeout("host") => hw # "none" /\ a = "none" /\ (cw # "none" => c = "none")
         /\ Timeout("client") => cw # "none" /\ c = "none" /\ (hw # "none" => a = "none")
<1>1. /\ Control /\ "host" \in Peers /\ "client" \in Peers
      /\ Peer("host") = "client" /\ Peer("client") = "host"
      /\ b \in Chunks /\ "none" \in Chunks
  BY DEF IInv, Peers, Peer, Chunks
<1>2. /\ waiting["host"] = hw /\ Holds("host", a, b)
      /\ waiting["client"] = cw /\ Holds("client", c, "none")
  BY DEF Moment, At
<1>3. ASSUME Timeout("host")
      PROVE  hw # "none" /\ a = "none" /\ (cw # "none" => c = "none")
  <2>1. hw # "none"
    BY <1>2, <1>3 DEF Timeout, Running
  <2>2. a = "none"
    BY <1>1, <1>2, <1>3, NoTimeout
  <2>3. cw # "none" => c = "none"
    BY <1>1, <1>2, <1>3, NoTimeout DEF Running
  <2>4. QED  BY <2>1, <2>2, <2>3
<1>4. ASSUME Timeout("client")
      PROVE  cw # "none" /\ c = "none" /\ (hw # "none" => a = "none")
  <2>1. cw # "none"
    BY <1>2, <1>4 DEF Timeout, Running
  <2>2. c = "none"
    BY <1>1, <1>2, <1>4, NoTimeout
  <2>3. hw # "none" => a = "none"
    BY <1>1, <1>2, <1>4, NoTimeout DEF Running
  <2>4. QED  BY <2>1, <2>2, <2>3
<1>5. QED  BY <1>3, <1>4

\* Where the host has something to read and the client has not, it is the host
\* that reads.
LEMMA HostMoves ==
  ASSUME IInv, timely, NEW p \in Peers, Receive(p),
         NEW hw \in {"header", "data"}, NEW hs,
         NEW a \in Chunks \ {"none"}, NEW b \in Types \cup {"none"}, NEW cw, NEW cs,
         Moment(hw, hs, a, b, cw, cs, "none")
  PROVE  /\ p = "host" /\ (hw = "header" => ReadHeader("host")) /\ (hw = "data" => ReadData("host"))
         /\ Ready("host", hw, a, b) /\ step["host"] = hs
         /\ waiting["client"] = cw /\ step["client"] = cs /\ Holds("client", "none", "none")
<1>1. /\ Control /\ "host" \in Peers /\ "client" \in Peers /\ "none" \in Chunks
      /\ waiting["host"] = hw
      /\ waiting["client"] = cw /\ step["client"] = cs /\ Holds("client", "none", "none")
  BY DEF IInv, Peers, Chunks, Moment, At
<1>2. Ready("host", hw, a, b) /\ step["host"] = hs
  BY <1>1, ReadyAt DEF Moment
<1>3. ~ Timeout("host") /\ ~ Timeout("client")
  BY <1>1, MomentTime
<1>4. p # "client"
  BY <1>1, <1>3, Idle DEF Receive
<1>5. p = "host"
  BY <1>4 DEF Peers
<1>6. ReadHeader("host") \/ ReadData("host")
  BY <1>3, <1>5 DEF Receive
<1>7. (hw = "header" => ReadHeader("host")) /\ (hw = "data" => ReadData("host"))
  BY <1>1, <1>6 DEF ReadHeader, ReadData
<1>8. QED  BY <1>1, <1>2, <1>5, <1>7

\* And the other way round.
LEMMA ClientMoves ==
  ASSUME IInv, timely, NEW p \in Peers, Receive(p),
         NEW hw, NEW hs, NEW cw \in {"header", "data"}, NEW cs, NEW c \in Chunks \ {"none"},
         Moment(hw, hs, "none", "none", cw, cs, c)
  PROVE  /\ p = "client"
         /\ (cw = "header" => ReadHeader("client")) /\ (cw = "data" => ReadData("client"))
         /\ Ready("client", cw, c, "none") /\ step["client"] = cs
         /\ waiting["host"] = hw /\ step["host"] = hs /\ Holds("host", "none", "none")
<1>1. /\ Control /\ "host" \in Peers /\ "client" \in Peers /\ "none" \in Chunks
      /\ waiting["client"] = cw
      /\ waiting["host"] = hw /\ step["host"] = hs /\ Holds("host", "none", "none")
  BY DEF IInv, Peers, Chunks, Moment, At
<1>2. Ready("client", cw, c, "none") /\ step["client"] = cs
  BY <1>1, ReadyAt DEF Moment
<1>3. ~ Timeout("host") /\ ~ Timeout("client")
  BY <1>1, MomentTime
<1>4. p # "host"
  BY <1>1, <1>3, Idle DEF Receive
<1>5. p = "client"
  BY <1>4 DEF Peers
<1>6. ReadHeader("client") \/ ReadData("client")
  BY <1>3, <1>5 DEF Receive
<1>7. (cw = "header" => ReadHeader("client")) /\ (cw = "data" => ReadData("client"))
  BY <1>1, <1>6 DEF ReadHeader, ReadData
<1>8. QED  BY <1>1, <1>2, <1>5, <1>7

\* What it reads is a header, when it waits for one.
LEMMA ClientReads ==
  ASSUME IInv, timely, NEW p \in Peers, Receive(p),
         NEW hw, NEW hs, NEW cs, NEW c \in Chunks \ {"none"},
         Moment(hw, hs, "none", "none", "header", cs, c)
  PROVE  /\ ReadHeader("client") /\ Ready("client", "header", c, "none") /\ step["client"] = cs
         /\ waiting["host"] = hw /\ step["host"] = hs /\ Holds("host", "none", "none")
<1>1. "header" \in {"header", "data"}
  OBVIOUS
<1>2. QED  BY <1>1, ClientMoves

\* The programs' packets, one step at a time.
LEMMA ExchangeMoves ==
  /\ Peer("host") = "client" /\ Peer("client") = "host"
  /\ "host" \in Peers /\ "client" \in Peers /\ "none" \in Chunks /\ "data" \in Chunks
  /\ "INIT_C" \in Types \ {"TX_INFO_ACK"} /\ "INIT_C" \in Chunks \ {"none"}
  /\ "INIT_H" \in Types \ {"TX_INFO_ACK"} /\ "INIT_H" \in Chunks \ {"none"}
  /\ "TX_INFO" \in Types \ {"TX_INFO_ACK"} /\ "TX_INFO" \in Chunks \ {"none"}
  /\ "TX_INFO_ACK" \in Types /\ "TX_INFO_ACK" \in Chunks \ {"none"}
  /\ "TX_INFO" \in Types \cup {"none"} /\ "none" \in Types \cup {"none"}
  /\ "none" \notin Types /\ "data" \notin Types /\ "data" \in Chunks \ {"none"}
  /\ Awaited["client"][1] = "INIT_C" /\ Sends(Answers["client"][1], "INIT_H", "none")
  /\ Awaited["host"][1] = "INIT_H" /\ Sends(Answers["host"][1], "TX_INFO", "none")
  /\ Awaited["client"][2] = "TX_INFO" /\ Sends(Answers["client"][2], "TX_INFO_ACK", "TX_INFO")
  /\ Awaited["host"][2] = "TX_INFO_ACK" /\ Sends(Answers["host"][2], "none", "none")
  /\ Awaited["host"][3] = "TX_INFO" /\ Sends(Answers["host"][3], "TX_INFO_ACK", "none")
  /\ Awaited["client"][3] = "TX_INFO_ACK" /\ Sends(Answers["client"][3], "none", "none")
BY DEF Peer, Peers, Chunks, Types, Awaited, Answers, Sends

\* The client answers INIT_C with INIT_H.
LEMMA CalledRead ==
  ASSUME IInv, timely, NEW p \in Peers, Receive(p),
         Moment("header", 1, "none", "none", "header", 1, "INIT_C")
  PROVE  Heeded'
<1>1. /\ ReadHeader("client") /\ Ready("client", "header", "INIT_C", "none")
      /\ step["client"] = 1 /\ waiting["host"] = "header" /\ step["host"] = 1
      /\ Holds("host", "none", "none")
  BY ClientMoves, ExchangeMoves
<1>2. Facing("client", "header", 1, "INIT_C", "none", "INIT_H", "none")
  BY <1>1, ExchangeMoves DEF Facing
<1>3. Turned("client", 1, "none", "INIT_H", "none")
  BY <1>1, <1>2, HeaderTurn, ExchangeMoves
<1>4. QED  BY <1>1, <1>3, ExchangeMoves DEF Turned, Heeded, Moment, At

\* The host answers INIT_H with TX_INFO.
LEMMA HeededRead ==
  ASSUME IInv, timely, NEW p \in Peers, Receive(p), Heeded
  PROVE  Asked'
<1>1. /\ ReadHeader("host") /\ Ready("host", "header", "INIT_H", "none")
      /\ step["host"] = 1 /\ waiting["client"] = "header" /\ step["client"] = 2
      /\ Holds("client", "none", "none")
  BY HostMoves, ExchangeMoves DEF Heeded
<1>2. Facing("host", "header", 1, "INIT_H", "none", "TX_INFO", "none")
  BY <1>1, ExchangeMoves DEF Facing
<1>3. Turned("host", 1, "none", "TX_INFO", "none")
  BY <1>1, <1>2, HeaderTurn, ExchangeMoves
<1>4. QED  BY <1>1, <1>3, ExchangeMoves DEF Turned, Asked, Moment, At

\* The client answers with its info, and asks for the host's.
LEMMA AskedRead ==
  ASSUME IInv, timely, NEW p \in Peers, Receive(p), Asked
  PROVE  Sent'
<1>1. /\ ReadHeader("client") /\ Ready("client", "header", "TX_INFO", "none")
      /\ step["client"] = 2 /\ waiting["host"] = "header" /\ step["host"] = 2
      /\ Holds("host", "none", "none")
  <2>1. Moment("header", 2, "none", "none", "header", 2, "TX_INFO")
    BY DEF Asked
  <2>2. "TX_INFO" \in Chunks \ {"none"}
    BY ExchangeMoves
  <2>3. QED  BY <2>1, <2>2, ClientReads
<1>2. Facing("client", "header", 2, "TX_INFO", "none", "TX_INFO_ACK", "TX_INFO")
  BY <1>1, ExchangeMoves DEF Facing
<1>3. Turned("client", 2, "none", "TX_INFO_ACK", "TX_INFO")
  BY <1>1, <1>2, HeaderTurn, ExchangeMoves
<1>4. QED  BY <1>1, <1>3, ExchangeMoves DEF Turned, Sent, Moment, At

\* The host reads the header of the client's info.
LEMMA SentRead ==
  ASSUME IInv, timely, NEW p \in Peers, Receive(p), Sent
  PROVE  Opened'
<1>1. /\ ReadHeader("host") /\ Ready("host", "header", "TX_INFO_ACK", "TX_INFO")
      /\ step["host"] = 2 /\ waiting["client"] = "header" /\ step["client"] = 3
      /\ Holds("client", "none", "none")
  BY HostMoves, ExchangeMoves DEF Sent
<1>2. QED  BY <1>1, HeaderOpens, ExchangeMoves DEF Opened, Moment, At

\* The host copies it, and says nothing.
LEMMA OpenedRead ==
  ASSUME IInv, timely, NEW p \in Peers, Receive(p), Opened
  PROVE  Copying'
<1>1. /\ ReadData("host") /\ Ready("host", "data", "data", "TX_INFO")
      /\ step["host"] = 2 /\ waiting["client"] = "header" /\ step["client"] = 3
      /\ Holds("client", "none", "none")
  BY HostMoves, ExchangeMoves DEF Opened
<1>2. Facing("host", "data", 2, "data", "TX_INFO", "none", "none")
  BY <1>1, ExchangeMoves DEF Facing
<1>3. Turned("host", 2, "TX_INFO", "none", "none")
  BY <1>1, <1>2, DataTurn, ExchangeMoves
<1>4. QED  BY <1>1, <1>3, ExchangeMoves DEF Turned, Copying, Moment, At

\* The host sends its own info and has succeeded.
LEMMA CopyingRead ==
  ASSUME IInv, timely, NEW p \in Peers, Receive(p), Copying
  PROVE  Closing'
<1>1. /\ ReadHeader("host") /\ Ready("host", "header", "TX_INFO", "none")
      /\ step["host"] = 3 /\ waiting["client"] = "header" /\ step["client"] = 3
      /\ Holds("client", "none", "none")
  BY HostMoves, ExchangeMoves DEF Copying
<1>2. Facing("host", "header", 3, "TX_INFO", "none", "TX_INFO_ACK", "none")
  BY <1>1, ExchangeMoves DEF Facing
<1>3. Turned("host", 3, "none", "TX_INFO_ACK", "none")
  BY <1>1, <1>2, HeaderTurn, ExchangeMoves
<1>4. QED  BY <1>1, <1>3, ExchangeMoves DEF Turned, Closing, Moment, At

\* The client reads the header of the host's info.
LEMMA ClosingRead ==
  ASSUME IInv, timely, NEW p \in Peers, Receive(p), Closing
  PROVE  Closed'
<1>1. /\ ReadHeader("client") /\ Ready("client", "header", "TX_INFO_ACK", "none")
      /\ step["client"] = 3 /\ waiting["host"] = "none" /\ step["host"] = 3
      /\ Holds("host", "none", "none")
  <2>1. Moment("none", 3, "none", "none", "header", 3, "TX_INFO_ACK")
    BY DEF Closing
  <2>2. "TX_INFO_ACK" \in Chunks \ {"none"}
    BY ExchangeMoves
  <2>3. QED  BY <2>1, <2>2, ClientReads
<1>2. QED  BY <1>1, HeaderOpens, ExchangeMoves DEF Closed, Moment, At

\* The client has succeeded.
LEMMA ClosedRead ==
  ASSUME IInv, Book, timely, NEW p \in Peers, Receive(p), Closed
  PROVE  Reached'
<1>1. /\ ReadData("client") /\ Ready("client", "data", "data", "none")
      /\ step["client"] = 3 /\ waiting["host"] = "none" /\ step["host"] = 3
      /\ waiting["client"] = "data" /\ Holds("host", "none", "none")
  BY ClientMoves, ExchangeMoves DEF Closed, Moment, At
<1>2. Facing("client", "data", 3, "data", "none", "none", "none")
  BY <1>1, ExchangeMoves DEF Facing
<1>3. Turned("client", 3, "none", "none", "none")
  BY <1>1, <1>2, DataTurn, ExchangeMoves
<1>4. waiting'["host"] = "none" /\ result' = [result EXCEPT !["client"][session["client"]] = "OK"]
  BY <1>1, <1>3, ExchangeMoves DEF Turned, Outcome
<1>5. session["client"] \in 1 .. MaxSessions["client"] /\ MaxSessions["client"] = MaxRuns
  BY <1>1, RunningSession, ExchangeMoves DEF Running, MaxSessions
<1>6. result'["client"][session["client"]] = "OK"
  BY <1>4, <1>5, Recorded, ExchangeMoves DEF Results
<1>7. QED  BY <1>4, <1>5, <1>6 DEF Reached, Running
-----------------------------------------------------------------------------
\* A timeout leaves the line as it is.
LEMMA TimeoutSame ==
  ASSUME Control, NEW p \in Peers, Timeout(p)
  PROVE  /\ wire' = wire /\ avail' = avail /\ step' = step /\ session' = session
         /\ waiting' = [waiting EXCEPT ![p] = "none"] /\ Outcome(p, "TIMEOUT")
<1>1. Return(p, "TIMEOUT", <<>>) /\ wire' = wire /\ session' = session /\ avail[p] = <<>>
  BY DEF Timeout, Fail
<1>2. avail' = [avail EXCEPT ![p] = <<>>]
  BY <1>1 DEF Return, Conclude
<1>3. avail' = avail
  BY <1>1, <1>2 DEF Control
<1>4. QED  BY <1>1, <1>3 DEF Return, Conclude, Outcome

\* Before the host has called, a client can only give up.
LEMMA UnstartedReceive ==
  ASSUME IInv, timely, NEW p \in Peers, Receive(p), Unstarted
  PROVE  Unstarted'
<1>1. PICK w \in {"none", "header"} : Moment("none", 1, "none", "none", w, 1, "none")
  BY DEF Unstarted
<1>2. /\ Control /\ waiting["host"] = "none" /\ step["host"] = 1 /\ Holds("host", "none", "none")
      /\ waiting["client"] = w /\ step["client"] = 1 /\ Holds("client", "none", "none")
  BY <1>1 DEF IInv, Moment, At
<1>3. Timeout("client") /\ p = "client"
  <2>1. p # "host"
    BY <1>2 DEF Receive, ReadHeader, ReadData, Timeout, Running
  <2>2. p = "client"
    BY <2>1, ExchangeMoves DEF Peers
  <2>3. QED  BY <1>2, <2>2, Idle, ExchangeMoves DEF Receive
<1>4. /\ wire' = wire /\ avail' = avail /\ step' = step
      /\ waiting' = [waiting EXCEPT !["client"] = "none"]
  BY <1>2, <1>3, TimeoutSame, ExchangeMoves
<1>5. waiting'["host"] = "none" /\ waiting'["client"] = "none"
  BY <1>2, <1>4, ExchangeMoves DEF Control, Reading
<1>6. Holds("host", "none", "none")' /\ Holds("client", "none", "none")'
  BY <1>2, <1>4 DEF Holds, Inbound
<1>7. Moment("none", 1, "none", "none", "none", 1, "none")'
  BY <1>2, <1>4, <1>5, <1>6 DEF Moment, At
<1>8. QED  BY <1>7 DEF Unstarted

\* Called, the host waits for a client, which answers or never comes.
LEMMA CalledReceive ==
  ASSUME IInv, Book, Fresh, timely, session["host"] = 1, NEW p \in Peers, Receive(p), Called
  PROVE  Heeded' \/ GaveUp'
<1>1. PICK w \in {"none", "header"} : Moment("header", 1, "none", "none", w, 1, "INIT_C")
  BY DEF Called
<1>2. CASE w = "header"
  BY <1>1, <1>2, CalledRead
<1>3. CASE w = "none"
  <2>1. /\ Control /\ waiting["host"] = "header" /\ waiting["client"] = "none"
        /\ Holds("host", "none", "none")
    BY <1>1, <1>3 DEF IInv, Moment, At
  <2>2. p = "host"
    <3>1. p # "client"
      BY <2>1 DEF Receive, ReadHeader, ReadData, Timeout, Running
    <3>2. QED  BY <3>1 DEF Peers
  <2>3. Timeout("host")
    BY <2>1, <2>2, Idle DEF Receive
  <2>4. /\ waiting' = [waiting EXCEPT !["host"] = "none"]
        /\ result' = [result EXCEPT !["host"][session["host"]] = "TIMEOUT"]
    BY <2>1, <2>2, <2>3, TimeoutSame DEF Outcome
  <2>5. /\ session["host"] \in 1 .. MaxSessions["host"] /\ MaxSessions["host"] = MaxAttempts
        /\ MaxAttempts \in Nat /\ Running("host")
    BY <2>1, RunningSession, HandshakeAssumption, ExchangeMoves DEF Running, MaxSessions
  <2>6. \A n \in 1 .. MaxAttempts : result["host"][n] = "none"
    <3> SUFFICES ASSUME NEW n \in 1 .. MaxAttempts PROVE result["host"][n] = "none"
      OBVIOUS
    <3>1. n > session["host"] \/ n = session["host"]
      BY <2>5
    <3>2. QED  BY <2>5, <3>1, ExchangeMoves DEF Fresh
  <2>7. result["host"] \in [1 .. MaxAttempts -> Results] /\ result = [q \in Peers |-> result[q]]
    BY <2>5, ExchangeMoves DEF Book
  <2>8. \A n \in 1 .. MaxAttempts : result'["host"][n] # "OK"
    <3>1. result'["host"] = [result["host"] EXCEPT ![session["host"]] = "TIMEOUT"]
      BY <2>4, <2>7, ExchangeMoves
    <3>2. QED  BY <2>6, <2>7, <3>1
  <2>9. waiting'["host"] = "none"
    BY <2>1, <2>4, ExchangeMoves DEF Control, Reading
  <2>10. QED  BY <2>8, <2>9 DEF GaveUp, Running
<1>4. QED  BY <1>2, <1>3

\* What has come to its end stays so: a client that still runs changes only its
\* own result.
LEMMA EndedReceive ==
  ASSUME IInv, Book, Copied, Fresh, NEW p \in Peers, Receive(p)
  PROVE  (GaveUp => GaveUp') /\ (Reached => Reached')
<1> SUFFICES ASSUME ~ Running("host") PROVE (GaveUp => GaveUp') /\ (Reached => Reached')
  BY DEF GaveUp, Reached
<1>1. Taken(p) /\ Running(p) /\ Finishes(p) /\ session' = session
  BY ReceiveTaken, ReceiveOutcome
<1>2. p = "client"
  BY <1>1 DEF Peers
<1>3. waiting'["host"] = "none"
  BY <1>1, <1>2, ExchangeMoves DEF Taken, Running
<1>4. /\ session["client"] \in 1 .. MaxSessions["client"] /\ MaxSessions["client"] = MaxRuns
      /\ result["client"][session["client"]] = "none"
  <2>1. session["client"] \in 1 .. MaxSessions["client"]
    BY <1>1, <1>2, RunningSession
  <2>2. QED  BY <1>1, <1>2, <2>1 DEF Fresh, MaxSessions
<1>5. /\ result'["host"] = result["host"]
      /\ \A n \in 1 .. MaxRuns : n # session["client"] => result'["client"][n] = result["client"][n]
  <2>1. CASE result' = result
    BY <2>1
  <2>2. ASSUME NEW r \in Results, Outcome("client", r)
        PROVE  /\ result'["host"] = result["host"]
               /\ \A n \in 1 .. MaxRuns :
                    n # session["client"] => result'["client"][n] = result["client"][n]
    <3>1. result' = [result EXCEPT !["client"][session["client"]] = r]
      BY <2>2 DEF Outcome
    <3>2. result'["host"] = result["host"]
      BY <1>4, <3>1, Recorded, ExchangeMoves
    <3>3. \A n \in 1 .. MaxRuns :
            n # session["client"] => result'["client"][n] = result["client"][n]
      BY <1>4, <3>1, RecordedKept, ExchangeMoves
    <3>4. QED  BY <3>2, <3>3
  <2>3. QED  BY <1>1, <1>2, <2>1, <2>2 DEF Finishes, Results
<1>6. GaveUp => GaveUp'
  BY <1>3, <1>5 DEF GaveUp, Running
<1>7. Reached => Reached'
  <2> SUFFICES ASSUME NEW n \in 1 .. MaxRuns, result["client"][n] = "OK" PROVE Reached'
    BY DEF Reached
  <2>1. n # session["client"]
    BY <1>4
  <2>2. result'["client"][n] = "OK"
    BY <1>5, <2>1
  <2>3. QED  BY <1>3, <2>2 DEF Reached, Running
<1>8. QED  BY <1>6, <1>7

\* The host's first attempt begins.
LEMMA HostStarts ==
  ASSUME IInv, Start("host"), Unstarted
  PROVE  Called'
<1>1. PICK w \in {"none", "header"} : Moment("none", 1, "none", "none", w, 1, "none")
  BY DEF Unstarted
<1>2. /\ Control /\ waiting["host"] = "none" /\ step["host"] = 1 /\ Holds("host", "none", "none")
      /\ waiting["client"] = w /\ step["client"] = 1 /\ Holds("client", "none", "none")
      /\ session["host"] \in Nat
  BY <1>1, ExchangeMoves DEF IInv, Moment, At, Control, Reading
<1>3. /\ session' = [session EXCEPT !["host"] = @ + 1] /\ avail' = avail
      /\ waiting' = [waiting EXCEPT !["host"] = "header"] /\ step' = [step EXCEPT !["host"] = 1]
      /\ wire' = [wire EXCEPT !["client"] = @ \o Packet("INIT_C", session'["host"], 0)]
  BY DEF Start
<1>4. session'["host"] \in Nat \ {0}
  <2>1. session'["host"] = session["host"] + 1
    BY <1>2, <1>3, ExchangeMoves DEF Control, Reading
  <2>2. QED  BY <1>2, <2>1
<1> DEFINE f == session'["host"]
<1>5. Packets(<<"INIT_C">>, f, 0) = Packet("INIT_C", f, 0)
  <2>1. Packet("INIT_C", f, 0) \in Seq(Cell)
    BY <1>4, PacketBegins, ExchangeMoves
  <2>2. Packets(<<"INIT_C">>, f, 0) = Packet("INIT_C", f, 0) \o <<>>
    BY DEF Packets
  <2>3. QED  BY <2>1, <2>2, AddNothing
<1>6. wire'["client"] = wire["client"] \o Packets(<<"INIT_C">>, f, 0) /\ wire'["host"] = wire["host"]
  BY <1>2, <1>3, <1>5, ExchangeMoves DEF Control
<1>7. Holds("client", "INIT_C", "none")'
  <2>1. Sends(<<"INIT_C">>, "INIT_C", "none") /\ 0 \in Nat /\ avail'["client"] = avail["client"]
    BY <1>3, ExchangeMoves DEF Sends
  <2> HIDE DEF f
  <2>2. f \in Nat \ {0}
    BY <1>4 DEF f
  <2>3. QED  BY <1>2, <1>6, <2>1, <2>2, HoldsSent, ExchangeMoves
<1>8. Holds("host", "none", "none")'
  BY <1>2, <1>3, <1>6 DEF Holds, Inbound
<1>9. /\ waiting'["host"] = "header" /\ step'["host"] = 1
      /\ waiting'["client"] = w /\ step'["client"] = 1
  BY <1>2, <1>3, ExchangeMoves DEF Control, Reading
<1>10. Moment("header", 1, "none", "none", w, 1, "INIT_C")'
  BY <1>7, <1>8, <1>9 DEF Moment, At
<1>11. QED  BY <1>10 DEF Called

\* A client starts; in the middle of an exchange one is running.
LEMMA ClientStarts ==
  ASSUME IInv, Start("client")
  PROVE  /\ (Unstarted => Unstarted') /\ (Called => Called')
         /\ (GaveUp => GaveUp') /\ (Reached => Reached')
         /\ ~ Heeded /\ ~ Asked /\ ~ Sent /\ ~ Opened /\ ~ Copying /\ ~ Closing /\ ~ Closed
<1>1. /\ waiting["client"] = "none" /\ Control
      /\ waiting' = [waiting EXCEPT !["client"] = "header"] /\ step' = [step EXCEPT !["client"] = 1]
      /\ wire' = wire /\ avail' = avail /\ result' = result
  BY DEF IInv, Start, Running
<1>2. /\ waiting'["host"] = waiting["host"] /\ step'["host"] = step["host"]
      /\ waiting'["client"] = "header" /\ step'["client"] = 1
  BY <1>1, ExchangeMoves DEF Control, Reading
<1>3. \A q \in Peers : \A a, b : Holds(q, a, b) => Holds(q, a, b)'
  BY <1>1 DEF Holds, Inbound
<1>4. ASSUME NEW hw, NEW w, NEW c, Moment(hw, 1, "none", "none", w, 1, c)
      PROVE  Moment(hw, 1, "none", "none", "header", 1, c)'
  BY <1>2, <1>3, <1>4, ExchangeMoves DEF Moment, At
<1>5. (Unstarted => Unstarted') /\ (Called => Called')
  BY <1>4 DEF Unstarted, Called
<1>6. (GaveUp => GaveUp') /\ (Reached => Reached')
  BY <1>1, <1>2 DEF GaveUp, Reached, Running
<1>7. ~ Heeded /\ ~ Asked /\ ~ Sent /\ ~ Opened /\ ~ Copying /\ ~ Closing /\ ~ Closed
  BY <1>1 DEF Heeded, Asked, Sent, Opened, Copying, Closing, Closed, Moment, At
<1>8. QED  BY <1>5, <1>6, <1>7

\* A delivery that is not late changes no moment.
LEMMA DeliverCourse ==
  ASSUME IInv, timely, NEW p \in Peers, Deliver(p)
  PROVE  /\ (Unstarted => Unstarted') /\ (Called => Called') /\ (Heeded => Heeded')
         /\ (Asked => Asked') /\ (Sent => Sent') /\ (Opened => Opened') /\ (Copying => Copying')
         /\ (Closing => Closing') /\ (Closed => Closed')
         /\ (GaveUp => GaveUp') /\ (Reached => Reached')
<1>1. Control /\ waiting' = waiting /\ step' = step /\ result' = result
  BY DEF IInv, Deliver
<1>2. ASSUME NEW hw, NEW hs, NEW a \in Chunks, NEW b \in Types \cup {"none"},
             NEW cw, NEW cs, NEW c \in Chunks, Moment(hw, hs, a, b, cw, cs, c)
      PROVE  Moment(hw, hs, a, b, cw, cs, c)'
  <2>1. Holds("host", a, b)' /\ Holds("client", c, "none")'
    BY <1>1, <1>2, HoldsDelivered, ExchangeMoves DEF Moment, At
  <2>2. QED  BY <1>1, <1>2, <2>1 DEF Moment, At
<1>3. (Unstarted => Unstarted') /\ (Called => Called')
  BY <1>2, ExchangeMoves DEF Unstarted, Called
<1>4. (Heeded => Heeded') /\ (Asked => Asked') /\ (Sent => Sent')
  BY <1>2, ExchangeMoves DEF Heeded, Asked, Sent
<1>5. (Opened => Opened') /\ (Copying => Copying')
  BY <1>2, ExchangeMoves DEF Opened, Copying
<1>6. (Closing => Closing') /\ (Closed => Closed')
  BY <1>2, ExchangeMoves DEF Closing, Closed
<1>7. (GaveUp => GaveUp') /\ (Reached => Reached')
  BY <1>1 DEF GaveUp, Reached, Running
<1>8. QED  BY <1>3, <1>4, <1>5, <1>6, <1>7

\* The host's only attempt, once it has begun.
Underway ==
  Called \/ Heeded \/ Asked \/ Sent \/ Opened \/ Copying \/ Closing \/ Closed \/ GaveUp \/ Reached

\* Every step keeps to the course.
LEMMA CourseStep ==
  ASSUME IInv, Book, Copied, Fresh, Course, Next
  PROVE  Course'
<1> SUFFICES ASSUME OnTime'
    PROVE  /\ channel'
           /\ (session'["host"] = 0 /\ Unstarted') \/ (session'["host"] = 1 /\ Underway')
  BY DEF Course, Underway
<1>1. /\ session \in [Peers -> Nat] /\ resets \in Nat /\ session["host"] \in Nat
      /\ timely' /\ resets' = 0 /\ session'["host"] <= 1
  BY HandshakeAssumption, ExchangeMoves DEF IInv, Control, Reading, Book, OnTime
<1>2. ~ Toggle
  <2> SUFFICES ASSUME resets' = resets + 1 PROVE FALSE
    BY DEF Toggle
  <2>1. QED  BY <1>1
<1>3. UNCHANGED line
  BY <1>2 DEF Next, Start, StartUnconnected, Deliver, Receive, ReadHeader, ReadData, Timeout
<1>4. timely /\ resets = 0 /\ channel' = channel
  BY <1>1, <1>3 DEF line
<1>5. ASSUME session["host"] <= 1
      PROVE  /\ OnTime /\ channel
             /\ (session["host"] = 0 /\ Unstarted) \/ (session["host"] = 1 /\ Underway)
  BY <1>4, <1>5 DEF Course, Underway, OnTime
<1>6. ASSUME NEW p \in Peers, Receive(p)
      PROVE  (session'["host"] = 0 /\ Unstarted') \/ (session'["host"] = 1 /\ Underway')
  <2>1. session' = session
    BY <1>6, ReceiveOutcome
  <2>2. (session["host"] = 0 /\ Unstarted) \/ (session["host"] = 1 /\ Underway)
    BY <1>1, <1>5, <2>1
  <2>3. CASE session["host"] = 0 /\ Unstarted
    BY <1>4, <1>6, <2>1, <2>3, UnstartedReceive
  <2>4. CASE session["host"] = 1 /\ Underway
    <3>1. ASSUME Called PROVE Underway'
      BY <1>4, <1>6, <2>4, <3>1, CalledReceive DEF Underway
    <3>2. ASSUME Heeded PROVE Underway'
      BY <1>4, <1>6, <3>2, HeededRead DEF Underway
    <3>3. ASSUME Asked PROVE Underway'
      BY <1>4, <1>6, <3>3, AskedRead DEF Underway
    <3>4. ASSUME Sent PROVE Underway'
      BY <1>4, <1>6, <3>4, SentRead DEF Underway
    <3>5. ASSUME Opened PROVE Underway'
      BY <1>4, <1>6, <3>5, OpenedRead DEF Underway
    <3>6. ASSUME Copying PROVE Underway'
      BY <1>4, <1>6, <3>6, CopyingRead DEF Underway
    <3>7. ASSUME Closing PROVE Underway'
      BY <1>4, <1>6, <3>7, ClosingRead DEF Underway
    <3>8. ASSUME Closed PROVE Underway'
      BY <1>4, <1>6, <3>8, ClosedRead DEF Underway
    <3>9. ASSUME GaveUp \/ Reached PROVE Underway'
      BY <1>6, <3>9, EndedReceive DEF Underway
    <3>10. Underway'
      BY <2>4, <3>1, <3>2, <3>3, <3>4, <3>5, <3>6, <3>7, <3>8, <3>9 DEF Underway
    <3>11. QED  BY <2>1, <2>4, <3>10
  <2>5. QED  BY <2>2, <2>3, <2>4
<1>7. CASE Start("host")
  <2>1. session'["host"] = session["host"] + 1
    BY <1>1, <1>7, ExchangeMoves DEF Start
  <2>2. session["host"] = 0 /\ session'["host"] = 1
    BY <1>1, <2>1
  <2>3. Unstarted
    BY <1>5, <2>2
  <2>4. Called'
    BY <1>7, <2>3, HostStarts
  <2>5. QED  BY <1>4, <1>5, <2>2, <2>4 DEF Underway
<1>8. CASE Start("client")
  <2>1. session'["host"] = session["host"]
    BY <1>1, <1>8, ExchangeMoves DEF Start
  <2>2. (session["host"] = 0 /\ Unstarted) \/ (session["host"] = 1 /\ Underway)
    BY <1>1, <1>5, <2>1
  <2>3. (Unstarted => Unstarted') /\ (Underway => Underway')
    BY <1>8, ClientStarts DEF Underway
  <2>4. QED  BY <1>1, <1>4, <1>5, <2>1, <2>2, <2>3
<1>9. ASSUME NEW p \in Peers, StartUnconnected(p) PROVE FALSE
  <2>1. ~ channel /\ session["host"] <= session'["host"]
    BY <1>1, <1>9 DEF StartUnconnected
  <2>2. session'["host"] \in Nat
    BY <1>1, <1>9, ExchangeMoves DEF StartUnconnected
  <2>3. session["host"] <= 1
    BY <1>1, <2>1, <2>2
  <2>4. QED  BY <1>5, <2>1, <2>3
<1>10. ASSUME NEW p \in Peers, Deliver(p)
       PROVE  (session'["host"] = 0 /\ Unstarted') \/ (session'["host"] = 1 /\ Underway')
  <2>1. session' = session
    BY <1>10 DEF Deliver
  <2>2. (session["host"] = 0 /\ Unstarted) \/ (session["host"] = 1 /\ Underway)
    BY <1>1, <1>5, <2>1
  <2>3. (Unstarted => Unstarted') /\ (Underway => Underway')
    BY <1>4, <1>10, DeliverCourse DEF Underway
  <2>4. QED  BY <2>1, <2>2, <2>3
<1>11. channel'
  <2>1. session["host"] <= 1
    <3>1. session'["host"] \in {session["host"], session["host"] + 1}
      BY <1>1, <1>2, ExchangeMoves
      DEF Next, Start, StartUnconnected, Deliver, Receive, ReadHeader, ReadData, Timeout
    <3>2. QED  BY <1>1, <3>1
  <2>2. QED  BY <1>4, <1>5, <2>1
<1>12. QED  BY <1>2, <1>6, <1>7, <1>8, <1>9, <1>10, <1>11 DEF Next, Peers

\* So does every behaviour.
LEMMA CourseInvariance == InfoSpec => []Course
<1>1. InfoInit => Course
  <2> SUFFICES ASSUME Init PROVE Course
    BY DEF InfoInit
  <2>1. <<>> \o <<>> = <<>> /\ <<>> \in Seq(Cell) /\ Len(<<>>) = 0
    BY EmptyLine, AddNothing, EmptySeq
  <2>2. Parcel(<<>>, 0, "none", "none")
    BY <2>1, Extents, ExchangeMoves DEF Parcel, Begins
  <2>3. Holds("host", "none", "none") /\ Holds("client", "none", "none")
    BY <2>1, <2>2, ExchangeMoves DEF Holds, Inbound, Init
  <2>4. Moment("none", 1, "none", "none", "none", 1, "none")
    BY <2>3, ExchangeMoves DEF Init, Moment, At
  <2>5. channel /\ session["host"] = 0
    BY ExchangeMoves DEF Init
  <2>6. QED  BY <2>4, <2>5 DEF Course, Unstarted
<1>2. IInv /\ Book /\ Copied /\ Fresh /\ Course /\ [InfoNext]_allVars => Course'
  <2> SUFFICES ASSUME IInv, Book, Copied, Fresh, Course, [InfoNext]_allVars PROVE Course'
    OBVIOUS
  <2>1. CASE InfoNext
    BY <2>1, CourseStep DEF InfoNext
  <2>2. CASE UNCHANGED allVars
    <3>1. UNCHANGED <<wire, avail, waiting, step, session, result, timely, channel, resets>>
      BY <2>2 DEF allVars, vars, line
    <3>2. \A q : \A a, b : Holds(q, a, b)' = Holds(q, a, b)
      BY <3>1 DEF Holds, Inbound
    <3>3. /\ Unstarted' = Unstarted /\ Called' = Called /\ Heeded' = Heeded /\ Asked' = Asked
          /\ Sent' = Sent /\ Opened' = Opened /\ Copying' = Copying /\ Closing' = Closing
          /\ Closed' = Closed /\ GaveUp' = GaveUp /\ Reached' = Reached
      BY <3>1, <3>2 DEF Unstarted, Called, Heeded, Asked, Sent, Opened, Copying, Closing, Closed,
                        GaveUp, Reached, Running, Moment, At
    <3>4. QED  BY <3>1, <3>3 DEF Course, OnTime
  <2>3. QED  BY <2>1, <2>2
<1>3. QED  BY <1>1, <1>2, Invariance, BookInvariance, OrderInvariance, PTL DEF InfoSpec

\* Agreement: when nothing is late and no feature is toggled, the host's first
\* attempt succeeds exactly if a run of the client does, once no client is
\* running; the host is the one to finish first, and the client's last packets
\* are then on their way (COM_Handshake, com.c).
THEOREM SidesAgree == InfoSpec => []Agreement
<1>1. Book /\ Fresh /\ ClientAfterHost /\ Course => Agreement
  <2> SUFFICES ASSUME Book, Fresh, ClientAfterHost, Course, OnTime, ~ Running("client")
               PROVE  (\E a \in 1 .. MaxAttempts : result["host"][a] = "OK")
                        = (\E n \in 1 .. MaxRuns : result["client"][n] = "OK")
    BY DEF Agreement, OnTime
  <2>1. /\ MaxAttempts \in Nat /\ session["host"] \in 0 .. MaxAttempts
        /\ MaxSessions["host"] = MaxAttempts
    BY HandshakeAssumption, ExchangeMoves DEF Book, MaxSessions
  <2>2. (\E n \in 1 .. MaxRuns : result["client"][n] = "OK")
          => \E a \in 1 .. MaxAttempts : result["host"][a] = "OK"
    <3>1. 1 .. session["host"] \subseteq 1 .. MaxAttempts
      BY <2>1
    <3>2. QED  BY <3>1 DEF ClientAfterHost
  <2>3. ASSUME \A a \in 1 .. MaxAttempts : result["host"][a] # "OK"
        PROVE  (\E a \in 1 .. MaxAttempts : result["host"][a] = "OK")
                 = (\E n \in 1 .. MaxRuns : result["client"][n] = "OK")
    BY <2>2, <2>3
  <2>4. CASE session["host"] = 0
    <3>1. \A a \in 1 .. MaxAttempts : a > session["host"]
      BY <2>1, <2>4
    <3>2. \A a \in 1 .. MaxAttempts : result["host"][a] # "OK"
      BY <2>1, <3>1, ExchangeMoves DEF Fresh
    <3>3. QED  BY <2>3, <3>2
  <2>5. CASE session["host"] = 1 /\ Called
    <3>1. Running("host")
      BY <2>5 DEF Called, Moment, At, Running
    <3>2. \A a \in 1 .. MaxAttempts : a > session["host"] \/ a = session["host"]
      BY <2>1, <2>5
    <3>3. \A a \in 1 .. MaxAttempts : result["host"][a] # "OK"
      BY <2>1, <3>1, <3>2, ExchangeMoves DEF Fresh
    <3>4. QED  BY <2>3, <3>3
  <2>6. CASE GaveUp
    BY <2>3, <2>6 DEF GaveUp
  <2>7. CASE Reached
    BY <2>2, <2>7 DEF Reached
  <2>8. ~ Heeded /\ ~ Asked /\ ~ Sent /\ ~ Opened /\ ~ Copying /\ ~ Closing /\ ~ Closed
    BY DEF Heeded, Asked, Sent, Opened, Copying, Closing, Closed, Moment, At, Running
  <2>9. QED  BY <2>4, <2>5, <2>6, <2>7, <2>8 DEF Course
<1>2. QED  BY <1>1, BookInvariance, OrderInvariance, CourseInvariance, PTL
-----------------------------------------------------------------------------
\* The implementation of Exchange.
\*
\* The first cell of an info tells the session that sent it.
LEMMA InfoFrom ==
  ASSUME NEW m \in Nat, NEW re \in Nat
  PROVE  InfoOf(m, re) # <<>> /\ InfoOf(m, re)[1].from = m
<1> DEFINE P == Packet("TX_INFO_ACK", m, re)
<1>1. HdrSize \in Nat \ {0} /\ InfoSize \in Nat \ {0} /\ DataLen("TX_INFO_ACK") = InfoSize
  BY Sizes DEF Types
<1>2. \A i \in 1 .. HdrSize + InfoSize : P[i].from = m
  BY <1>1 DEF Packet
<1>3. \A i \in HdrSize + 1 .. HdrSize + InfoSize : P[i] \in Range(P)
  <2>1. DOMAIN P = 1 .. HdrSize + InfoSize
    BY <1>1 DEF Packet
  <2>2. QED  BY <1>1, <2>1 DEF Range
<1> HIDE DEF P
<1>4. /\ Len(SubSeq(P, HdrSize + 1, HdrSize + InfoSize)) = InfoSize
      /\ SubSeq(P, HdrSize + 1, HdrSize + InfoSize)[1] = P[HdrSize + 1]
  <2>1. HdrSize + 1 \in Int /\ HdrSize + InfoSize \in Int
    BY <1>1
  <2>2. /\ Len(SubSeq(P, HdrSize + 1, HdrSize + InfoSize))
             = IF HdrSize + 1 <= HdrSize + InfoSize
               THEN (HdrSize + InfoSize) - (HdrSize + 1) + 1 ELSE 0
        /\ \A j \in 1 .. (HdrSize + InfoSize) - (HdrSize + 1) + 1 :
             SubSeq(P, HdrSize + 1, HdrSize + InfoSize)[j] = P[(HdrSize + 1) + j - 1]
    BY <1>3, <2>1, SubSeqProperties
  <2>3. /\ (HdrSize + InfoSize) - (HdrSize + 1) + 1 = InfoSize
        /\ HdrSize + 1 <= HdrSize + InfoSize /\ 1 \in 1 .. InfoSize
        /\ (HdrSize + 1) + 1 - 1 = HdrSize + 1
    BY <1>1
  <2>4. QED  BY <2>2, <2>3
<1>5. HdrSize + 1 \in 1 .. HdrSize + InfoSize /\ InfoSize # 0
  BY <1>1
<1>6. P[HdrSize + 1].from = m
  BY <1>2, <1>5
<1>7. SubSeq(P, HdrSize + 1, HdrSize + InfoSize) # <<>>
  BY <1>4, <1>5, EmptySeq
<1>8. QED  BY <1>4, <1>6, <1>7 DEF InfoOf, P

\* What a peer knows is a session that has begun.
LEMMA KnownInfo ==
  ASSUME IInv
  PROVE  \A p \in Peers : IF info[p] = <<>> THEN Known[p] = 0
                                            ELSE Known[p] \in 1 .. session[Peer(p)]
<1> SUFFICES ASSUME NEW p \in Peers, info[p] # <<>> PROVE Known[p] \in 1 .. session[Peer(p)]
  BY DEF Known
<1>1. session \in [Peers -> Nat] /\ Peer(p) \in Peers
  BY PeerProperties DEF IInv, Control, Reading
<1>2. PICK n \in 1 .. session[Peer(p)], re \in 0 .. session[p] : info[p] = InfoOf(n, re)
  BY DEF IInv, WholeInfo, InfoOf
<1>3. n \in Nat /\ re \in Nat
  BY <1>1, <1>2
<1>4. QED  BY <1>2, <1>3, InfoFrom DEF Known

\* A step of p alone changes its own entries.
LEMMA BusySet ==
  ASSUME NEW p \in Peers, \A q \in Peers \ {p} : waiting'[q] = waiting[q]
  PROVE  Busy' = [Busy EXCEPT ![p] = (waiting'[p] # "none")]
BY DEF Busy, Running

LEMMA KnownSet ==
  ASSUME NEW p \in Peers, \A q \in Peers \ {p} : info'[q] = info[q]
  PROVE  Known' = [Known EXCEPT ![p] = IF info'[p] = <<>> THEN 0 ELSE info'[p][1].from]
BY DEF Known

\* A read copies nothing, or the info of the header it has read; one for the
\* data that copies nothing fails.
LEMMA ReadInfo ==
  ASSUME IInv, NEW p \in Peers, Receive(p)
  PROVE  \/ /\ info' = info
            /\ waiting[p] = "data" =>
                 waiting'[p] = "none" /\ \E r \in {"TIMEOUT", "INVALID"} : Outcome(p, r)
         \/ /\ waiting[p] = "data"
            /\ info' = [info EXCEPT ![p] = InfoOf(header[p].from, header[p].re)]
<1>1. waiting \in [Peers -> {"none", "header", "data"}]
  BY DEF IInv, Control, Reading
<1>2. ASSUME NEW rest, NEW r \in {"TIMEOUT", "INVALID"}, Return(p, r, rest)
      PROVE  waiting'[p] = "none" /\ Outcome(p, r)
  BY <1>1, <1>2 DEF Return, Conclude, Outcome
<1>3. CASE ReadHeader(p)
  BY <1>3, ReadHeaderStep DEF ReadHeader
<1>4. CASE Timeout(p)
  BY <1>2, <1>4 DEF Timeout, Fail
<1>5. CASE ReadData(p)
  <2> DEFINE n == Shorter(InfoSize, Len(avail[p]))
             h == header[p]
             d == InfoOf(h.from, h.re)
  <2>1. CASE ~ Complete(n)
    BY <1>2, <1>5, <2>1 DEF ReadData, Fail
  <2>2. CASE Complete(n)
    <3>1. Accept(p, h, d, Rest(avail[p], InfoSize)) /\ waiting[p] = "data"
      BY <1>5, <2>2, DataRead DEF ReadData
    <3>2. h.type = "TX_INFO_ACK"
      BY <3>1 DEF IInv, DataNext
    <3> HIDE DEF h, d
    <3>3. CASE h.type = Awaited[p][step[p]]
      BY <3>1, <3>2, <3>3 DEF Accept, h, d
    <3>4. CASE h.type # Awaited[p][step[p]]
      BY <1>2, <3>1, <3>4 DEF Accept
    <3>5. QED  BY <3>3, <3>4
  <2>3. QED  BY <2>1, <2>2
<1>6. QED  BY <1>3, <1>4, <1>5 DEF Receive

\* A read returns, learns, or does nothing that an exchange tells of.
LEMMA ReceiveExchanges ==
  ASSUME IInv, Book, Copied, Told, NEW p \in Peers, Receive(p)
  PROVE  Exchanged!Next \/ UNCHANGED <<session, Busy, result, Known>>
<1>1. /\ Running(p) /\ Taken(p) /\ Finishes(p) /\ session' = session /\ IInv'
      /\ info \in [Peers -> Seq(Cell)]
  BY ReceiveTaken, ReceiveOutcome, ReceiveStep DEF IInv, Control, Reading
<1>2. Exchanged!Peers = Peers
  BY DEF Exchanged!Peers, Peers
<1>3. Busy' = [Busy EXCEPT ![p] = (waiting'[p] # "none")]
  BY <1>1, BusySet DEF Taken
<1>4. Busy[p] = TRUE
  BY <1>1 DEF Busy, Running
<1>5. waiting'[p] # "none" => Busy' = Busy
  <2> SUFFICES ASSUME waiting'[p] # "none" PROVE Busy' = Busy
    OBVIOUS
  <2>1. \A q \in Peers : Running(q)' = Running(q)
    BY <1>1 DEF Taken, Running
  <2>2. QED  BY <2>1 DEF Busy
<1>6. waiting'[p] = "none" => Busy' = [Busy EXCEPT ![p] = FALSE]
  BY <1>3
<1>7. info' = info => Known' = Known
  BY DEF Known
<1>8. ASSUME waiting'[p] = "none", info' = info, NEW r \in {"TIMEOUT", "INVALID"}, Outcome(p, r)
      PROVE  Exchanged!Next
  <2>1. Exchanged!Return(p, r) /\ Known' = Known
    BY <1>1, <1>4, <1>6, <1>7, <1>8 DEF Exchanged!Return, Outcome
  <2>2. Exchanged!Fail(p)
    BY <2>1 DEF Exchanged!Fail
  <2>3. QED  BY <1>2, <2>2 DEF Exchanged!Next
<1>9. CASE waiting'[p] = "none" /\ info' = info /\ \E r \in {"TIMEOUT", "INVALID"} : Outcome(p, r)
  BY <1>8, <1>9
<1>10. CASE waiting'[p] # "none" /\ result' = result /\ info' = info
  BY <1>1, <1>5, <1>7, <1>10
<1>11. CASE /\ waiting'[p] # "none" /\ result' = result /\ p = "host"
            /\ info' = [info EXCEPT ![p] = InfoOf(header[p].from, header[p].re)]
            /\ waiting[p] = "data"
  <2>1. header["host"].from \in 1 .. session["client"] /\ header["host"].re \in 0 .. session["host"]
    BY <1>11 DEF IInv, DataNext, Peer, Peers
  <2>2. header["host"].from \in Nat /\ header["host"].re \in Nat
    <3>1. session["client"] \in Nat /\ session["host"] \in Nat
      BY DEF IInv, Control, Reading, Peers
    <3>2. QED  BY <2>1, <3>1
  <2>3. info'["host"] = InfoOf(header["host"].from, header["host"].re)
    BY <1>1, <1>11 DEF Peers
  <2>4. \A q \in Peers \ {"host"} : info'[q] = info[q]
    BY <1>1, <1>11
  <2>5. Known' = [Known EXCEPT !["host"] = IF info'["host"] = <<>> THEN 0 ELSE info'["host"][1].from]
    BY <1>11, <2>4, KnownSet
  <2>6. info'["host"] # <<>> /\ info'["host"][1].from = header["host"].from
    BY <2>2, <2>3, InfoFrom
  <2>7. Known' = [Known EXCEPT !["host"] = header["host"].from]
    BY <2>5, <2>6
  <2>8. Exchanged!HostLearns
    BY <1>1, <1>4, <1>5, <1>11, <2>1, <2>7 DEF Exchanged!HostLearns
  <2>9. QED  BY <2>8 DEF Exchanged!Next
<1>12. CASE /\ waiting'[p] = "none" /\ Outcome(p, "OK") /\ info'[p] # <<>>
            /\ p = "host" /\ info' = info
  <2>1. Known["host"] \in 1 .. session["client"]
    BY <1>12, KnownInfo DEF Peer
  <2>2. Known["host"] # 0
    <3>1. session["client"] \in Nat
      BY DEF IInv, Control, Reading, Peers
    <3>2. QED  BY <2>1, <3>1
  <2>3. Exchanged!Return("host", "OK") /\ Known' = Known
    BY <1>1, <1>4, <1>6, <1>7, <1>12 DEF Exchanged!Return, Outcome
  <2>4. Exchanged!HostSucceeds
    BY <2>2, <2>3 DEF Exchanged!HostSucceeds
  <2>5. QED  BY <2>4 DEF Exchanged!Next
<1>13. CASE /\ waiting'[p] = "none" /\ Outcome(p, "OK") /\ p = "client" /\ waiting[p] = "data"
            /\ info' = [info EXCEPT ![p] = InfoOf(header[p].from, header[p].re)]
  <2> DEFINE a == header["client"].from
  <2>1. a \in 1 .. session["host"] /\ header["client"].re \in 0 .. session["client"]
        /\ result["host"][a] = "OK"
    BY <1>13, HeaderHeard DEF IInv, DataNext, Peer, Peers
  <2>2. a \in Nat /\ header["client"].re \in Nat
    <3>1. session["client"] \in Nat /\ session["host"] \in Nat
      BY DEF IInv, Control, Reading, Peers
    <3>2. QED  BY <2>1, <3>1
  <2>3. info'["client"] = InfoOf(a, header["client"].re)
    BY <1>1, <1>13 DEF Peers
  <2>4. \A q \in Peers \ {"client"} : info'[q] = info[q]
    BY <1>1, <1>13
  <2>5. Known' = [Known EXCEPT !["client"] = IF info'["client"] = <<>> THEN 0 ELSE info'["client"][1].from]
    BY <1>13, <2>4, KnownSet
  <2>6. info'["client"] # <<>> /\ info'["client"][1].from = a
    BY <2>2, <2>3, InfoFrom
  <2> HIDE DEF a
  <2>7. Known' = [Known EXCEPT !["client"] = a]
    BY <2>5, <2>6
  <2>8. Exchanged!Return("client", "OK")
    BY <1>1, <1>4, <1>6, <1>13 DEF Exchanged!Return, Outcome
  <2>9. Exchanged!ClientSucceeds
    BY <2>1, <2>7, <2>8 DEF Exchanged!ClientSucceeds
  <2>10. QED  BY <2>9 DEF Exchanged!Next
<1>14. QED
  <2>1. CASE /\ info' = info
             /\ waiting[p] = "data" =>
                  waiting'[p] = "none" /\ \E r \in {"TIMEOUT", "INVALID"} : Outcome(p, r)
    BY <1>1, <1>9, <1>10, <1>12, <2>1, PeerProperties DEF Finishes
  <2>2. CASE /\ waiting[p] = "data"
             /\ info' = [info EXCEPT ![p] = InfoOf(header[p].from, header[p].re)]
    BY <1>1, <1>9, <1>10, <1>11, <1>12, <1>13, <2>2, PeerProperties DEF Finishes
  <2>3. QED  BY <2>1, <2>2, ReadInfo

\* A session begins, on a channel or without one.
LEMMA StartExchanges ==
  ASSUME IInv, NEW p \in Peers, Start(p) \/ StartUnconnected(p)
  PROVE  Exchanged!Next
<1>1. /\ session \in [Peers -> Nat] /\ info \in [Peers -> Seq(Cell)]
      /\ waiting \in [Peers -> {"none", "header", "data"}]
      /\ Exchanged!Peers = Peers
  BY DEF IInv, Control, Reading, Exchanged!Peers, Peers
<1>2. /\ ~ Running(p) /\ session[p] < MaxSessions[p]
      /\ session' = [session EXCEPT ![p] = @ + 1]
      /\ info' = IF p = "client" THEN [info EXCEPT ![p] = <<>>] ELSE info
  BY DEF Start, StartUnconnected
<1>3. session'[p] = session[p] + 1
  BY <1>1, <1>2
<1>4. Busy[p] = FALSE
  BY <1>2 DEF Busy, Running
<1>5. Known' = IF p = "client" THEN [Known EXCEPT ![p] = 0] ELSE Known
  <2>1. CASE p = "client"
    <3>1. info'[p] = <<>> /\ \A q \in Peers \ {p} : info'[q] = info[q]
      BY <1>1, <1>2, <2>1
    <3>2. QED  BY <2>1, <3>1, KnownSet
  <2>2. CASE p # "client"
    BY <1>2, <2>2 DEF Known
  <2>3. QED  BY <2>1, <2>2
<1>6. Exchanged!Another(p)
  BY <1>2, <1>4, <1>5 DEF Exchanged!Another
<1>7. CASE Start(p)
  <2>1. waiting'[p] = "header" /\ \A q \in Peers \ {p} : waiting'[q] = waiting[q]
    BY <1>1, <1>7 DEF Start
  <2>2. Busy' = [Busy EXCEPT ![p] = TRUE]
    BY <2>1, BusySet
  <2>3. Exchanged!Begin(p)
    BY <1>6, <1>7, <2>2 DEF Start, Exchanged!Begin
  <2>4. QED  BY <1>1, <2>3 DEF Exchanged!Next
<1>8. CASE StartUnconnected(p)
  <2>1. Busy' = Busy
    BY <1>8 DEF StartUnconnected, Busy, Running
  <2>2. Exchanged!Refuse(p)
    BY <1>3, <1>6, <1>8, <2>1 DEF StartUnconnected, Exchanged!Refuse
  <2>3. QED  BY <1>1, <2>2 DEF Exchanged!Next
<1>9. QED  BY <1>7, <1>8

\* A toggle.
LEMMA ToggleExchanges ==
  ASSUME IInv, Toggle
  PROVE  Exchanged!Next
<1>1. /\ info \in [Peers -> Seq(Cell)] /\ waiting \in [Peers -> {"none", "header", "data"}]
      /\ "host" \in Peers /\ "client" \in Peers
  BY DEF IInv, Control, Reading, Peers
<1>2. Known' = [Known EXCEPT !["host"] = 0]
  <2>1. info'["host"] = <<>> /\ \A q \in Peers \ {"host"} : info'[q] = info[q]
    BY <1>1 DEF Toggle
  <2>2. QED  BY <1>1, <2>1, KnownSet
<1>3. Busy["host"] = FALSE /\ session' = session
  BY <1>1 DEF Toggle, Busy, Running
<1>4. CASE Running("client")
  <2>1. Conclude("client", "TIMEOUT")
    BY <1>4 DEF Toggle
  <2>2. waiting'["client"] = "none" /\ \A q \in Peers \ {"client"} : waiting'[q] = waiting[q]
    BY <1>1, <2>1 DEF Conclude
  <2>3. Busy' = [Busy EXCEPT !["client"] = FALSE]
    BY <1>1, <2>2, BusySet
  <2>4. Busy["client"] = TRUE
    BY <1>1, <1>4 DEF Busy, Running
  <2>5. Exchanged!Return("client", "TIMEOUT")
    BY <1>3, <2>1, <2>3, <2>4 DEF Conclude, Exchanged!Return
  <2>6. Exchanged!Toggle
    BY <1>2, <1>3, <2>5 DEF Exchanged!Toggle
  <2>7. QED  BY <2>6 DEF Exchanged!Next
<1>5. CASE ~ Running("client")
  <2>1. Busy' = Busy /\ result' = result
    BY <1>5 DEF Toggle, Busy, Running
  <2>2. Busy["client"] = FALSE
    BY <1>1, <1>5 DEF Busy, Running
  <2>3. Exchanged!Toggle
    BY <1>2, <1>3, <2>1, <2>2 DEF Exchanged!Toggle
  <2>4. QED  BY <2>3 DEF Exchanged!Next
<1>6. QED  BY <1>4, <1>5

\* ExchangeSpec: for every size of the packets and whatever the line does, the
\* two handshakes of com.c implement Exchange.
THEOREM InfosExchanged == InfoSpec => ExchangeSpec
<1>1. Init => Exchanged!Init
  <2> SUFFICES ASSUME Init PROVE Exchanged!Init
    OBVIOUS
  <2>1. Exchanged!Peers = Peers
    BY DEF Exchanged!Peers, Peers
  <2>2. Busy = [p \in Peers |-> FALSE]
    BY DEF Init, Busy, Running
  <2>3. Known = [p \in Peers |-> 0]
    BY DEF Init, Known
  <2>4. QED  BY <2>1, <2>2, <2>3 DEF Init, Exchanged!Init
<1>2. IInv /\ Book /\ Copied /\ Told /\ [InfoNext]_allVars => [Exchanged!Next]_(Exchanged!vars)
  <2> SUFFICES ASSUME IInv, Book, Copied, Told, [InfoNext]_allVars
               PROVE  Exchanged!Next \/ UNCHANGED <<session, Busy, result, Known>>
    BY DEF Exchanged!vars
  <2>1. CASE Toggle
    BY <2>1, ToggleExchanges
  <2>2. ASSUME NEW p \in Peers, Start(p) \/ StartUnconnected(p) PROVE Exchanged!Next
    BY <2>2, StartExchanges
  <2>3. ASSUME NEW p \in Peers, Deliver(p) PROVE UNCHANGED <<session, Busy, result, Known>>
    BY <2>3 DEF Deliver, Busy, Known, Running
  <2>4. ASSUME NEW p \in Peers, Receive(p)
        PROVE  Exchanged!Next \/ UNCHANGED <<session, Busy, result, Known>>
    BY <2>4, ReceiveExchanges
  <2>5. CASE UNCHANGED allVars
    BY <2>5 DEF allVars, vars, Busy, Known, Running
  <2>6. QED  BY <2>1, <2>2, <2>3, <2>4, <2>5 DEF InfoNext, Next
<1>3. QED
  BY <1>1, <1>2, Invariance, BookInvariance, OrderInvariance, PTL
  DEF InfoSpec, InfoInit, ExchangeSpec, Exchanged!Spec
=============================================================================
