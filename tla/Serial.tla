------------------------------- MODULE Serial -------------------------------
(***************************************************************************)
(* The serial client (client/serial.go, serial-wrapper.go): Run, which     *)
(* owns the port, one listener goroutine for every port that was opened,   *)
(* the callback of the subscription to the parent's points, and the MCU at *)
(* the other end of the line.  The MCU is external: as docs/ref/serial.md  *)
(* has it, it acknowledges every packet with its sequence number.          *)
(*                                                                         *)
(* Bytes from the MCU are read in pieces of any length (Cobs); packets to  *)
(* the MCU are lost or arrive.  Channels are unbuffered: a listener waits  *)
(* in its send until Run takes it, and senders are served in their order.  *)
(***************************************************************************)
EXTENDS Cobs, FiniteSets

CONSTANTS
    SeqNums,     \* sequence numbers (256)
    Blocks,     \* lengths of the files, in blocks
    Scopes      \* bounds: whether reads end where packets end, which packets other than acks
                \* the MCU sends, how many and from which number, and how much users, the
                \* device and the line do

ASSUME SerialAssumption ==
    /\ SeqNums \in Nat \ {0}
    /\ Blocks \subseteq Nat
    /\ Scopes \subseteq [whole : BOOLEAN, subs : SUBSET {"points", "phr", "log"},
                         first : 0 .. SeqNums - 1, sent : Nat, events : Nat]

VARIABLES
    sd,      \* the client and the variables of Run
    node,    \* points of its node in the store
    lst,     \* the listeners
    dataQ,   \* listeners that wait to send on serialReadData
    line,    \* bytes from the MCU that nobody has read
    out,     \* packets to the MCU
    dev,     \* the device file is there
    watch,   \* events of the watcher
    mcu,     \* the MCU: its next number, the blocks of the file that it has
    parent,  \* the callback of the parent's points waits to send on sendPointsCh
    sent,    \* packets of the MCU and (history) whether they are under way, taken by Run or
             \* cut: see Delivered
    acked,   \* (history) those that the MCU has seen an ack for
    odd,     \* (history) "ack": an ack went out under a number that is not its packet's;
             \* "file": a packet under the number of the file's
    events,
    scope    \* the bounds of this behaviour

link == <<lst, dataQ, line>>
vars == <<sd, node, link, out, dev, watch, mcu, parent, sent, acked, odd, events, scope>>

Slots == 1 .. 3    \* listeners at a time; one that has ended gives its slot to a new one

NoFile == [len |-> -1, rest |-> 0, seq |-> 0, block |-> 0]
Finished == -1     \* the block index of the last packet

-----------------------------------------------------------------------------
(* Run's state: records s with the fields of sd, what it writes to the port (tx) and the *)
(* points of the node.                                                                   *)

Here == [sd |-> sd, node |-> node, lst |-> lst, line |-> line, sent |-> sent, tx |-> <<>>]

\* Packets that are in these bytes or on their way to Run.
In(bytes) == {PacketOf(b) : b \in {bytes[i] : i \in DOMAIN bytes} \ {0}}

\* The number of a packet that is over matters only if it can still be acknowledged.
Over(p, is) == IF p.sub = "points" THEN [p EXCEPT !.is = is] ELSE [sub |-> "old", seq |-> 0, is |-> is]

Cut(ps, ks) == [k \in DOMAIN ps |-> IF k \in ks /\ ps[k].is = "way" THEN [ps[k] EXCEPT !.is = "cut"] ELSE ps[k]]

\* sd.portCobsWrapper.Write
Write(s, pkt) ==
    IF s.sd.port = 0 \/ s.sd.dead THEN s ELSE [s EXCEPT !.tx = Append(@, pkt)]

Pkt(sub, seq, block) == [sub |-> sub, seq |-> seq, block |-> block]

NextSeq(s) == [s EXCEPT !.sd.wrSeq = (@ + 1) % SeqNums]

\* sendPointsToDevice with a sequence number; 0 stands for the last one that was used.
SendPointsToDevice(s, seq, sub) ==
    Write(s, Pkt(sub, IF seq = 0 THEN s.sd.wrSeq ELSE seq, 0))

SendNext(s) == SendPointsToDevice(NextSeq(s), NextSeq(s).sd.wrSeq, "proto")

\* The error counter (1: it is not 0) is sent with every change.
CountError(s) == [s EXCEPT !.sd.count = 1, !.node.count = 1]

DlFileStop(s) == [s EXCEPT !.sd.dl = NoFile]

DlFileSend(s) ==
    LET t == NextSeq(s)
        block == IF s.sd.dl.rest <= 0 THEN Finished ELSE s.sd.dl.block
        dl == [s.sd.dl EXCEPT !.seq = t.sd.wrSeq, !.block = block,
                              !.rest = IF @ > 0 THEN @ - 1 ELSE 0]
    IN  Write([t EXCEPT !.sd.dl = dl], Pkt("file", t.sd.wrSeq, block))

DlFileStart(s, len) ==
    IF s.sd.dl # NoFile THEN s
    ELSE DlFileSend([s EXCEPT !.sd.dl = [len |-> len, rest |-> len, seq |-> 0, block |-> 0]])

\* Packets that the listener has not found in the bytes so far.
Unread(s) ==
    IF s.sd.port = 0 THEN {}
    ELSE LET r == s.lst[s.sd.port].r IN In(s.line \o r.buf \o r.left)

\* What the driver has not delivered is gone.
ClosePort(s) ==
    [s EXCEPT !.sd.port = 0, !.sd.dead = FALSE, !.node.connected = 0,
              !.line = <<>>, !.sent = Cut(@, Unread(s))]

Free(s) == {g \in Slots : s.lst[g].pc = "end"}

Listening == [pc |-> "read", r |-> NewCobsWrapper]
Ended == [pc |-> "end", r |-> NewCobsWrapper]

\* openPort; ok: the device is there and can be opened.  Otherwise it is tried again when
\* the timer fires.
OpenPort(s, ok) ==
    LET t == ClosePort(s)
        g == CHOOSE g \in Free(s) : \A h \in Free(s) : g <= h
    IN  CASE s.sd.disabled -> [t EXCEPT !.sd.armed = FALSE]
          [] ~s.sd.disabled /\ ~ok -> [t EXCEPT !.sd.armed = TRUE]
          [] OTHER -> SendNext([t EXCEPT !.sd.port = g, !.sd.armed = FALSE,
                                         !.node.connected = 1, !.lst[g] = Listening])

\* The end of the turn: what was written goes to the MCU.
Turn(s) ==
    /\ sd' = s.sd /\ node' = s.node
    /\ lst' = s.lst /\ line' = s.line /\ sent' = s.sent
    /\ out' = out \o s.tx

\* An event that the environment causes, or none.
Event == events < scope.events /\ events' = events + 1

\* openPort in state s: the device can fail to open even if it is there (an event).
Opens(s) ==
    /\ Free(s) # {}
    /\ \/ /\ Turn(OpenPort(s, dev))
          /\ UNCHANGED events
       \/ /\ dev /\ ~s.sd.disabled
          /\ Event
          /\ Turn(OpenPort(s, FALSE))

-----------------------------------------------------------------------------
(* Listeners *)

\* A listener goes on: it sends what it has read to Run, or reads.
Continue(g, r) ==
    CASE r.out.res \in {"packet", "crc"} -> [pc |-> "data", r |-> r]
      [] r.out.res \in {"cobs", "full", "short"} -> [pc |-> "err", r |-> r]
      [] OTHER -> [pc |-> "read", r |-> r]

Queued(g, l) == IF l.pc = "data" THEN Append(dataQ, g) ELSE dataQ

\* What a read of the device can return, in the number of bytes.
Pieces(room) ==
    LET max == IF Len(line) < room THEN Len(line) ELSE room
    IN  IF scope.whole THEN {End(line)} ELSE 1 .. max

\* Read of a piece of the line.
ListenerReads(g) ==
    /\ lst[g].pc = "read"
    /\ sd.port = g /\ ~sd.dead
    /\ line # <<>>
    /\ \E n \in Pieces(Room(lst[g].r)) :
       \E r \in ReadChunk(lst[g].r, SubSeq(line, 1, n)) :
          LET l == Continue(g, r)
              rest == SubSeq(line, n + 1, Len(line))
              split == IF r.left # <<>> THEN In(<<Last(r.left)>>) ELSE {}
              lost == IF r.out.res = "full" THEN In(r.buf) ELSE {}
          IN  /\ lst' = [lst EXCEPT ![g] = l]
              /\ dataQ' = Queued(g, l)
              /\ line' = rest
              /\ sent' = Cut(sent, split \cup lost)
    /\ UNCHANGED <<sd, node, out, dev, watch, mcu, parent, acked, odd, events, scope>>

\* The port is not there any more.  "Port has been closed" and EOF make the listener
\* read again for ever; any other error ends it, through the channels of Run.
ListenerFails(g) ==
    /\ lst[g].pc = "read"
    /\ \/ /\ sd.port # g \/ sd.dead
          /\ lst' = [lst EXCEPT ![g] = Ended]
       \/ /\ sd.port = g /\ sd.dead
          /\ lst' = [lst EXCEPT ![g].pc = "err", ![g].r.out.res = "short"]
    /\ UNCHANGED <<sd, node, dataQ, line, out, dev, watch, mcu, parent, sent, acked, odd, events, scope>>

\* The listener after Run has taken what it sent.
Resume(s, g) ==
    {[s EXCEPT !.lst[g] = Continue(g, r)] : r \in StartRead(s.lst[g].r)}

-----------------------------------------------------------------------------
(* Run *)

Selects == sd.pc = "select"

Start ==
    /\ sd.pc = "start"
    /\ \E s \in {[Here EXCEPT !.sd.pc = "select"]} : Opens(s)
    /\ UNCHANGED <<dataQ, dev, watch, mcu, parent, acked, odd, scope>>

TimerFires ==
    /\ sd.armed
    /\ sd' = [sd EXCEPT !.armed = FALSE, !.fired = TRUE]
    /\ UNCHANGED <<node, link, out, dev, watch, mcu, parent, sent, acked, odd, events, scope>>

SelectTimer ==
    /\ Selects /\ sd.fired
    /\ \E s \in {[Here EXCEPT !.sd.fired = FALSE]} : Opens(s)
    /\ UNCHANGED <<dataQ, dev, watch, mcu, parent, acked, odd, scope>>

\* listenerSerialErr: an error that COBS finds does not end the listener.
SelectErr(g) ==
    /\ Selects /\ lst[g].pc = "err"
    /\ IF lst[g].r.out.res = "short"
       THEN /\ Turn([CountError(Here) EXCEPT !.lst[g].pc = "closed"])
            /\ UNCHANGED dataQ
       ELSE \E s \in Resume(CountError(Here), g) :
              /\ Turn(s)
              /\ dataQ' = Queued(g, s.lst[g])
    /\ UNCHANGED <<dev, watch, mcu, parent, acked, odd, events, scope>>

\* Mutant: the timer is not set.
SelectClosedForGood(g) ==
    /\ Selects /\ lst[g].pc = "closed"
    /\ Turn([ClosePort(Here) EXCEPT !.lst[g] = Ended])
    /\ UNCHANGED <<dataQ, dev, watch, mcu, parent, acked, odd, events, scope>>

\* listenerClosed, from whichever listener.
SelectClosed(g) ==
    /\ Selects /\ lst[g].pc = "closed"
    /\ Turn([ClosePort(Here) EXCEPT !.sd.armed = TRUE, !.lst[g] = Ended])
    /\ UNCHANGED <<dataQ, dev, watch, mcu, parent, acked, odd, events, scope>>

SelectWatch ==
    /\ Selects /\ watch # <<>>
    /\ watch' = Tail(watch)
    /\ \/ /\ Head(watch) = "remove"
          /\ Turn(ClosePort(Here))
          /\ UNCHANGED events
       \/ /\ Head(watch) = "create"
          /\ Opens(Here)
    /\ UNCHANGED <<dataQ, dev, mcu, parent, acked, odd, scope>>

\* Mutant: any ack moves the file on.
ReceivedAnyAck(s, p) ==
    CASE p.sub = "ack" ->
           IF s.sd.dl = NoFile THEN s
           ELSE IF s.sd.dl.block = Finished THEN DlFileStop(s)
           ELSE DlFileSend([s EXCEPT !.sd.dl.block = @ + 1])
      [] p.sub = "phr" -> s
      [] p.sub = "log" -> CountError(s)
      [] OTHER -> SendPointsToDevice(s, p.seq, "ack")

\* Mutant: the ack names the packet that comes next.
ReceivedAckNext(s, p) ==
    CASE p.sub = "ack" ->
           IF s.sd.dl = NoFile \/ p.seq # s.sd.dl.seq THEN s
           ELSE IF s.sd.dl.block = Finished THEN DlFileStop(s)
           ELSE DlFileSend([s EXCEPT !.sd.dl.block = @ + 1])
      [] p.sub = "phr" -> s
      [] p.sub = "log" -> CountError(s)
      [] OTHER -> SendPointsToDevice(s, (p.seq + 1) % SeqNums, "ack")

\* A packet: acks move the file on; high-rate points are passed on; a log is passed on
\* and then taken for points, which it is not; points are acknowledged and passed on.
Received(s, p) ==
    CASE p.sub = "ack" ->
           IF s.sd.dl = NoFile \/ p.seq # s.sd.dl.seq THEN s
           ELSE IF s.sd.dl.block = Finished THEN DlFileStop(s)
           ELSE DlFileSend([s EXCEPT !.sd.dl.block = @ + 1])
      [] p.sub = "phr" -> s
      [] p.sub = "log" -> CountError(s)
      [] OTHER -> SendPointsToDevice(s, p.seq, "ack")

SelectData ==
    /\ Selects /\ dataQ # <<>>
    /\ LET g == Head(dataQ)
           k == lst[g].r.out.k
           t == IF k = 0 THEN CountError(Here)
                ELSE [Received(Here, sent[k]) EXCEPT !.sent[k] = Over(@, "taken")]
       IN  /\ \E s \in Resume(t, g) :
                 /\ Turn(s)
                 /\ dataQ' = IF s.lst[g].pc = "data" THEN Append(Tail(dataQ), g) ELSE Tail(dataQ)
           /\ odd' = IF k # 0 /\ sent[k].sub = "points" /\ sent[k].seq = 0 THEN odd \cup {"ack"} ELSE odd
    /\ UNCHANGED <<dev, watch, mcu, parent, acked, events, scope>>

\* The end of a turn with points of the node: an error counter is reset and the points go
\* to the MCU (mine: some of them are not only for the client), if the port is open.
AfterPoints(s, mine) ==
    LET t == IF s.sd.reset THEN [s EXCEPT !.sd.reset = FALSE, !.sd.count = 0, !.node.count = 0]
                           ELSE s
    IN  IF s.sd.port = 0 THEN s
        ELSE IF t.sd.sync \/ mine THEN t ELSE SendNext(t)

\* newPoints from users: some value, a reset of the counter, a file to download or none,
\* syncParent, disabled, or a point that opens the port anew.
SelectPoints ==
    /\ Selects
    /\ Event
    /\ \/ Turn(AfterPoints(Here, FALSE))
       \/ Turn(AfterPoints([Here EXCEPT !.sd.reset = TRUE], TRUE))
       \/ \E len \in Blocks : Turn(AfterPoints(DlFileStart(Here, len), FALSE))
       \/ /\ sd.dl # NoFile
          /\ Turn(AfterPoints(DlFileStop(Here), FALSE))
       \/ Turn(AfterPoints([Here EXCEPT !.sd.sync = ~@], FALSE))
       \/ /\ Free(Here) # {}
          /\ \E s \in {[Here EXCEPT !.sd.disabled = ~@], Here} :
                Turn(AfterPoints(OpenPort(s, dev), s = Here))
    /\ UNCHANGED <<dataQ, dev, watch, mcu, parent, acked, odd, scope>>

\* A point of the parent from somebody else: the callback, and sendPointsCh.
ParentPoint ==
    /\ Event
    /\ sd.sync /\ sd.port # 0 /\ ~parent
    /\ parent' = TRUE
    /\ UNCHANGED <<sd, node, link, out, dev, watch, mcu, sent, acked, odd, scope>>

SelectSend ==
    /\ Selects /\ parent
    /\ parent' = FALSE
    /\ Turn(SendPointsToDevice(Here, 0, "proto"))
    /\ odd' = IF sd.dl # NoFile /\ sd.dl.seq = sd.wrSeq THEN odd \cup {"file"} ELSE odd
    /\ UNCHANGED <<dataQ, dev, watch, mcu, acked, events, scope>>

\* Stop: Run closes the port and ends.
Stop ==
    /\ Selects
    /\ Event
    /\ Turn([ClosePort(Here) EXCEPT !.sd.pc = "ended", !.sd.sync = FALSE])
    /\ UNCHANGED <<dataQ, dev, watch, mcu, parent, acked, odd, scope>>

-----------------------------------------------------------------------------
(* The MCU and the line *)

Sends(sub, seq) ==
    LET up == sd.port # 0 /\ ~sd.dead
    IN  /\ sent' = IF up THEN Append(sent, [sub |-> sub, seq |-> seq, is |-> "way"]) ELSE sent
        /\ line' = IF up THEN line \o Frame(Len(sent) + 1) ELSE line

McuSends ==
    /\ sd.port # 0 /\ ~sd.dead
    /\ mcu.sent < scope.sent
    /\ \E sub \in scope.subs : Sends(sub, mcu.seq)
    /\ mcu' = [mcu EXCEPT !.seq = (@ + 1) % SeqNums, !.sent = @ + 1]
    /\ UNCHANGED <<sd, node, lst, dataQ, out, dev, watch, parent, acked, odd, events, scope>>

\* The newest packet with this number is the one that is acknowledged.
Meant(seq) ==
    LET ks == {k \in DOMAIN sent : sent[k].sub = "points" /\ sent[k].seq = seq}
    IN  {k \in ks : \A j \in ks : j <= k}

McuReceives ==
    LET p == Head(out)
    IN  /\ out # <<>>
        /\ out' = Tail(out)
        /\ IF p.sub = "ack"
           THEN /\ acked' = acked \cup Meant(p.seq)
                /\ UNCHANGED <<mcu, sent, line>>
           ELSE /\ mcu' = CASE p.sub = "file" /\ p.block = 0 -> [mcu EXCEPT !.got = <<0>>]
                            [] p.sub = "file" /\ p.block # 0 -> [mcu EXCEPT !.got = Append(@, p.block)]
                            [] OTHER -> mcu
                /\ Sends("ack", p.seq)
                /\ UNCHANGED acked
        /\ UNCHANGED <<sd, node, lst, dataQ, dev, watch, parent, odd, events, scope>>

\* A byte from the MCU or a packet to it is lost.
Noise ==
    /\ Event
    /\ \/ \E i \in DOMAIN line :
            /\ line[i] # 0
            /\ line' = RemoveAt(line, i)
            /\ sent' = Cut(sent, {PacketOf(line[i])})
            /\ UNCHANGED out
       \/ /\ out # <<>>
          /\ out' = Tail(out)
          /\ UNCHANGED <<line, sent>>
    /\ UNCHANGED <<sd, node, lst, dataQ, dev, watch, mcu, parent, acked, odd, scope>>

\* The device is unplugged, or plugged in again.
Unplug ==
    /\ Event
    /\ dev
    /\ dev' = FALSE
    /\ watch' = Append(watch, "remove")
    /\ sd' = [sd EXCEPT !.dead = sd.port # 0]
    /\ line' = <<>> /\ out' = <<>>
    /\ sent' = Cut(sent, Unread(Here))
    /\ UNCHANGED <<node, lst, dataQ, mcu, parent, acked, odd, scope>>

Plug ==
    /\ ~dev
    /\ dev' = TRUE
    /\ watch' = Append(watch, "create")
    /\ UNCHANGED <<sd, node, link, out, mcu, parent, sent, acked, odd, events, scope>>

-----------------------------------------------------------------------------

Init ==
    /\ scope \in Scopes
    /\ sd = [pc |-> "start", port |-> 0, dead |-> FALSE, wrSeq |-> 0, dl |-> NoFile, count |-> 0,
             reset |-> FALSE, sync |-> FALSE, disabled |-> FALSE, armed |-> FALSE, fired |-> FALSE]
    /\ node = [connected |-> 0, count |-> 0]
    /\ lst = [g \in Slots |-> Ended]
    /\ dataQ = <<>> /\ line = <<>> /\ out = <<>>
    /\ dev = TRUE /\ watch = <<>>
    /\ mcu = [seq |-> scope.first, sent |-> 0, got |-> <<>>]
    /\ parent = FALSE
    /\ sent = <<>> /\ acked = {}
    /\ odd = {}
    /\ events = 0

Listener(g) == ListenerReads(g) \/ ListenerFails(g)
Run ==
    \/ Start \/ SelectTimer \/ SelectWatch \/ SelectData \/ SelectSend
    \/ \E g \in Slots : SelectErr(g) \/ SelectClosed(g)

Next ==
    \/ Run
    \/ \E g \in Slots : Listener(g)
    \/ TimerFires \/ SelectPoints \/ ParentPoint \/ Stop
    \/ McuSends \/ McuReceives \/ Noise \/ Unplug \/ Plug

Fairness ==
    /\ WF_vars(Run) /\ WF_vars(TimerFires)
    /\ \A g \in Slots : WF_vars(Listener(g))

Spec == Init /\ [][Next]_vars /\ Fairness

-----------------------------------------------------------------------------

\* Everything that waits between the MCU and Run.
Quiet ==
    /\ sd.port # 0 /\ ~sd.dead
    /\ line = <<>>
    /\ \A g \in Slots : lst[g].pc \in {"read", "end"}

\* Through any division of the bytes into reads, each packet reaches Run once, in the order in
\* which they were sent, except those that were cut: by the line, by a port that was
\* closed, by a full buffer, or because they begin in the read that ended another packet
\* and do not end in it.  The latter are lost or come late (CobsWrapper.Read).
Delivered ==
    [][/\ \A k \in DOMAIN sent : sent[k].is # "taken" /\ sent'[k].is = "taken" =>
             \A j \in DOMAIN sent : j > k /\ sent[j].is = "taken" => sent[k].is = "cut"
       /\ \A k \in DOMAIN sent : sent[k].is = "taken" => sent'[k].is = "taken"
       /\ Quiet => \A k \in DOMAIN sent : sent[k].is # "way"]_vars

\* What the MCU takes for acknowledged, Run has taken (SerialDecode checks the CRC before
\* the ack is sent), unless the ack for a packet with number 0 was sent under another
\* number (sendPointsToDevice).
AcksTrue == "ack" \notin odd => \A k \in acked : sent[k].is = "taken"

\* When a download ends because the last packet was acknowledged, the MCU has every
\* block, in order, whatever the line has lost and whatever was sent meanwhile, unless
\* points of the parent were sent under the number of a block.
FileIntact ==
    [][sd.dl # NoFile /\ sd'.dl = NoFile /\ events' = events /\ "file" \notin odd =>
          mcu.got = [i \in 1 .. sd.dl.len |-> i - 1] \o <<Finished>>]_vars

\* A device that is plugged in and enabled has its port opened in the end and kept open, in
\* whichever order the events of the watcher, the errors of old listeners and the timer
\* come, and the node shows that, and the errors that were counted.
PortFollows ==
    <>[](sd.pc # "ended" /\ ~sd.disabled /\ dev =>
            /\ sd.port # 0 /\ ~sd.dead
            /\ node.connected = 1 /\ node.count = sd.count)
=============================================================================
