----------------------------- MODULE Handshake -----------------------------
(***************************************************************************)
(* The handshake of com.c between the menu (the host) and the client app,  *)
(* over a USB serial line.                                                 *)
(*                                                                         *)
(* The line is a FIFO of bytes each way.  Nothing in a packet tells which  *)
(* attempt it belongs to, and nothing empties the line: the host keeps its *)
(* descriptor open from one attempt to the next, so what one attempt left  *)
(* unread is what the next one reads first.  A read returns what there is, *)
(* which may be a part of a packet, or nothing after 5 s (VMIN 0, VTIME    *)
(* 50); in both cases the attempt is over and the bytes are lost.          *)
(*                                                                         *)
(* Abstracted: a packet is a sequence of cells, HdrSize for the header and *)
(* InfoSize for the device info; each cell says which packet it is part of *)
(* (the fields from and re are history: the attempt or run that sent it,   *)
(* and the attempt or run whose packet it answers).  The terminals' echo   *)
(* before COM_Init has set them up is left out.                            *)
(***************************************************************************)
EXTENDS Integers, Sequences

CONSTANTS
  HdrSize,       \* cells of a header, PKT_HDR_SIZE
  InfoSize,      \* cells of a comDeviceInfo_t
  MaxAttempts,   \* bound: times the user opens "Device Info"
  MaxRuns,       \* bound: times the user starts the client app
  MaxResets      \* bound: times a feature is toggled

ASSUME HandshakeAssumption ==
  /\ HdrSize \in Nat \ {0} /\ InfoSize \in Nat \ {0}
  /\ MaxAttempts \in Nat /\ MaxRuns \in Nat /\ MaxResets \in Nat

VARIABLES
  timely,   \* a packet arrives whole, and 5 s is longer than any delay
  channel,  \* the gadget has a serial function, and the host has it open
  wire,     \* wire[p]: cells on their way to p
  avail,    \* avail[p]: cells p can read
  waiting,  \* what p reads next: "header", "data", or "none" outside COM_Handshake
  step,     \* index of the packet p waits for
  header,   \* the last header cell p read, while it waits for the data
  session,  \* number of the attempt of the host, of the run of the client
  result,   \* result[p][n]: what COM_Handshake returned in session n of p
  info,     \* info[p]: the device info p has copied from its peer
  resets

line == <<timely, channel, resets>>
vars == <<wire, avail, waiting, step, header, session, result, info, line>>
-----------------------------------------------------------------------------
Peers == {"host", "client"}
Peer(p) == IF p = "host" THEN "client" ELSE "host"
MaxSessions == [host |-> MaxAttempts, client |-> MaxRuns]

\* The packets p waits for, in order, and the packets it sends on each.
Awaited ==
  [host   |-> <<"INIT_H", "TX_INFO_ACK", "TX_INFO">>,
   client |-> <<"INIT_C", "TX_INFO", "TX_INFO_ACK">>]
Answers_InfoEarly ==
  [host   |-> << <<"TX_INFO", "TX_INFO_ACK">>, <<>>, <<>> >>,
   client |-> << <<"INIT_H">>, <<"TX_INFO_ACK", "TX_INFO">>, <<>> >>]
Answers ==
  [host   |-> << <<"TX_INFO">>, <<>>, <<"TX_INFO_ACK">> >>,
   client |-> << <<"INIT_H">>, <<"TX_INFO_ACK", "TX_INFO">>, <<>> >>]

DataLen_InfoInRequest(type) ==
  IF type \in {"TX_INFO", "TX_INFO_ACK"} THEN InfoSize ELSE 0
DataLen(type) == IF type = "TX_INFO_ACK" THEN InfoSize ELSE 0

Packet(type, from, re) ==
  [i \in 1 .. HdrSize + DataLen(type) |->
     [type |-> type, from |-> from, re |-> re, part |-> i]]

\* sendPkt, for each type of a sequence of at most two.
Packets(types, from, re) ==
  IF types = <<>> THEN <<>>
  ELSE Packet(types[1], from, re)
       \o IF Len(types) = 1 THEN <<>> ELSE Packet(types[2], from, re)

NoCell == [type |-> "none", from |-> 0, re |-> 0, part |-> 0]
Shorter(m, n) == IF m < n THEN m ELSE n
Rest(s, n) == SubSeq(s, n + 1, Len(s))

Running(p) == waiting[p] # "none"
-----------------------------------------------------------------------------
Init ==
  /\ timely \in BOOLEAN /\ channel = TRUE
  /\ wire = [p \in Peers |-> <<>>]
  /\ avail = [p \in Peers |-> <<>>]
  /\ waiting = [p \in Peers |-> "none"]
  /\ step = [p \in Peers |-> 1]
  /\ header = [p \in Peers |-> NoCell]
  /\ session = [p \in Peers |-> 0]
  /\ result = [p \in Peers |-> [n \in 1 .. MaxSessions[p] |-> "none"]]
  /\ info = [p \in Peers |-> <<>>]
  /\ resets = 0

\* printDeviceInfo on the host, main() on the client: COM_Handshake begins.
\* The host starts by sending INIT_C; the client is a new process.
Start(p) ==
  /\ channel /\ ~ Running(p) /\ session[p] < MaxSessions[p]
  /\ session' = [session EXCEPT ![p] = @ + 1]
  /\ waiting' = [waiting EXCEPT ![p] = "header"]
  /\ step' = [step EXCEPT ![p] = 1]
  /\ wire' = IF p = "host"
               THEN [wire EXCEPT !["client"] = @ \o Packet("INIT_C", session'[p], 0)]
               ELSE wire
  /\ info' = IF p = "client" THEN [info EXCEPT ![p] = <<>>] ELSE info
  /\ UNCHANGED <<avail, header, result, line>>

\* The same without a channel: every write and read fails.
StartUnconnected(p) ==
  /\ ~ channel /\ ~ Running(p) /\ session[p] < MaxSessions[p]
  /\ session' = [session EXCEPT ![p] = @ + 1]
  /\ result' = [result EXCEPT ![p][session'[p]] = "TIMEOUT"]
  /\ info' = IF p = "client" THEN [info EXCEPT ![p] = <<>>] ELSE info
  /\ UNCHANGED <<wire, avail, waiting, step, header, line>>

\* The USB stack delivers cells, to the client only while it has the line open.
Deliver(p) ==
  /\ p = "client" => Running(p)
  /\ \E n \in 1 .. Len(wire[p]) :
       /\ timely => n = HdrSize + DataLen(Head(wire[p]).type)
       /\ avail' = [avail EXCEPT ![p] = @ \o SubSeq(wire[p], 1, n)]
       /\ wire' = [wire EXCEPT ![p] = Rest(@, n)]
  /\ UNCHANGED <<waiting, step, header, session, result, info, line>>

\* COM_Handshake returns r.
Conclude(p, r) ==
  /\ result' = [result EXCEPT ![p][session[p]] = r]
  /\ waiting' = [waiting EXCEPT ![p] = "none"]
  /\ header' = [header EXCEPT ![p] = NoCell]
  /\ UNCHANGED step

\* It does after a read, and p has rest left to read.  The client exits and
\* closes the line, which discards what it had received.
Return(p, r, rest) ==
  /\ Conclude(p, r)
  /\ avail' = [avail EXCEPT ![p] = IF p = "client" THEN <<>> ELSE rest]

\* A whole packet with header cell h and these data was read.
Accept(p, h, data, rest) ==
  IF h.type # Awaited[p][step[p]]
    THEN /\ Return(p, "INVALID", rest)
         /\ UNCHANGED <<wire, info>>
    ELSE /\ info' = IF h.type = "TX_INFO_ACK" THEN [info EXCEPT ![p] = data] ELSE info
         /\ wire' = [wire EXCEPT ![Peer(p)] =
                       @ \o Packets(Answers[p][step[p]], session[p], h.from)]
         /\ IF step[p] = Len(Awaited[p])
              THEN Return(p, "OK", rest)
              ELSE /\ step' = [step EXCEPT ![p] = @ + 1]
                   /\ waiting' = [waiting EXCEPT ![p] = "header"]
                   /\ header' = [header EXCEPT ![p] = NoCell]
                   /\ avail' = [avail EXCEPT ![p] = rest]
                   /\ UNCHANGED result

Fail(p, rest) == Return(p, "TIMEOUT", rest) /\ UNCHANGED <<wire, info>>

\* waitPkt: the first read.  A part of a header, or bytes that do not begin
\* with the magic, end the attempt.
ReadHeader(p) ==
  /\ waiting[p] = "header" /\ avail[p] # <<>>
  /\ LET n == Shorter(HdrSize, Len(avail[p]))
         h == avail[p][n]
         rest == Rest(avail[p], n)
     IN  IF n < HdrSize \/ avail[p][1].part # 1 THEN Fail(p, rest)
         ELSE IF DataLen(h.type) = 0 THEN Accept(p, h, <<>>, rest)
         ELSE /\ header' = [header EXCEPT ![p] = h]
              /\ waiting' = [waiting EXCEPT ![p] = "data"]
              /\ avail' = [avail EXCEPT ![p] = rest]
              /\ UNCHANGED <<wire, step, result, info>>
  /\ UNCHANGED <<session, line>>

\* Whether the second read got the data the header announces.
Complete_Unchecked(n) == TRUE
Complete(n) == n = InfoSize

\* waitPkt: the second read.
ReadData(p) ==
  /\ waiting[p] = "data" /\ avail[p] # <<>>
  /\ LET n == Shorter(InfoSize, Len(avail[p]))
         rest == Rest(avail[p], n)
     IN  IF Complete(n) THEN Accept(p, header[p], SubSeq(avail[p], 1, n), rest)
         ELSE Fail(p, rest)
  /\ UNCHANGED <<session, line>>

\* A read waits 5 s in vain.  timely: no cell is on its way, and the peer is
\* not about to send one.
Expires_Never(p) == FALSE
Expires_TooShort(p) == timely => wire[p] = <<>>
Expires(p) ==
  timely => /\ wire[p] = <<>>
            /\ Running(Peer(p)) => wire[Peer(p)] = <<>> /\ avail[Peer(p)] = <<>>
Timeout(p) ==
  /\ Running(p) /\ avail[p] = <<>>
  /\ Expires(p)
  /\ Fail(p, <<>>)
  /\ UNCHANGED <<session, line>>

\* A feature is toggled: COM_Shutdown, teardown, a new gadget with or without a
\* serial function, and COM_Init.  The line is hung up, so a client that waits
\* reads nothing.
Toggle ==
  /\ ~ Running("host") /\ resets < MaxResets
  /\ resets' = resets + 1 /\ channel' \in BOOLEAN
  /\ wire' = [p \in Peers |-> <<>>]
  /\ info' = [info EXCEPT !["host"] = <<>>]
  /\ IF Running("client")
       THEN Conclude("client", "TIMEOUT")
       ELSE UNCHANGED <<waiting, step, header, result>>
  /\ avail' = [p \in Peers |-> <<>>]
  /\ UNCHANGED <<session, timely>>

Receive(p) == ReadHeader(p) \/ ReadData(p) \/ Timeout(p)

Next ==
  Toggle \/ \E p \in Peers : Start(p) \/ StartUnconnected(p) \/ Deliver(p) \/ Receive(p)

\* A blocked read wakes up: with data, or after its 5 s.  The bus delivers.
Fairness == \A p \in Peers : WF_vars(Receive(p)) /\ WF_vars(Deliver(p))
-----------------------------------------------------------------------------
\* A cell of one of the four packets.
IsCell(c) ==
  /\ c.type \in {"INIT_C", "INIT_H", "TX_INFO", "TX_INFO_ACK"}
  /\ c.from \in Nat /\ c.re \in Nat
  /\ c.part \in 1 .. HdrSize + DataLen(c.type)

\* The types of the variables; only the device info has a data part.
TypeOK ==
  /\ \A p \in Peers :
       /\ \A i \in DOMAIN wire[p] : IsCell(wire[p][i])
       /\ \A i \in DOMAIN avail[p] : IsCell(avail[p][i])
       /\ waiting[p] \in {"none", "header", "data"}
       /\ step[p] \in DOMAIN Awaited[p]
       /\ waiting[p] = "data" => header[p].type = "TX_INFO_ACK"
       /\ session[p] \in 0 .. MaxSessions[p]
       /\ \A n \in 1 .. MaxSessions[p] :
            result[p][n] \in {"none", "OK", "TIMEOUT", "INVALID"}
  /\ timely \in BOOLEAN /\ channel \in BOOLEAN
  /\ resets \in 0 .. MaxResets

\* A copied device info is the info of one packet of the peer, whole and in
\* order, however the line had cut the bytes into reads and whatever earlier
\* attempts had left on it.
WholeInfo ==
  \A p \in Peers : info[p] # <<>> =>
    \E n \in 1 .. session[Peer(p)], re \in 0 .. session[p] :
      info[p] = SubSeq(Packet("TX_INFO_ACK", n, re), HdrSize + 1, HdrSize + InfoSize)

\* Who has not returned, and the session of the peer whose info each has.
Busy == [p \in Peers |-> Running(p)]
Known == [p \in Peers |-> IF info[p] = <<>> THEN 0 ELSE info[p][1].from]
Exchanged == INSTANCE Exchange WITH busy <- Busy, known <- Known

\* The packets implement an exchange of whole infos, whatever the line does to
\* them and whatever sessions before have left on it: the host succeeds with the
\* client's info only, the client with the info of a host that has succeeded, and
\* nothing but a toggle makes the host forget.
ExchangeSpec == Exchanged!Spec

\* When nothing is late, no feature is toggled and the host has tried once, the
\* two sides agree: once no client is running, the host has succeeded exactly if
\* a run of the client has.
Agreement ==
  timely /\ resets = 0 /\ session["host"] <= 1 /\ ~ Running("client") =>
     (\E a \in 1 .. MaxAttempts : result["host"][a] = "OK")
       = (\E n \in 1 .. MaxRuns : result["client"][n] = "OK")

\* Every attempt and every run comes to an end, with a peer or without one.
AttemptsEnd == \A p \in Peers : Running(p) ~> ~ Running(p)
=============================================================================
