------------------------------- MODULE Modbus -------------------------------
(***************************************************************************)
(* Two Modbus buses (node/modbus.go) over TCP (modbus/tcp.go, server.go,   *)
(* client.go): a bus in client mode in one instance polls an I/O of a bus  *)
(* in server mode in another.  The goroutines are Run of the client bus    *)
(* (cl), Run of the server bus (sv), and one Listen for each connection of *)
(* the server (conn); other masters talk to the server as well.            *)
(*                                                                         *)
(* Each bus is subscribed to p.<node> of its I/O and so gets back every    *)
(* point it sends itself (cq, sq).  Points come to a bus in the order in   *)
(* which the store of its instance has them.  The transaction ID of a      *)
(* message is how many requests ago it was current (age): the client       *)
(* accepts only what has its current ID.                                   *)
(***************************************************************************)
EXTENDS ModbusReg, FiniteSets

CONSTANTS
    Kinds,       \* I/O types with the number of registers of the data format
    Sets,        \* values that users set
    Address,     \* register or coil of the I/O
    Scale, Offset,
    Foreign,     \* requests of other masters
    ErrorLimit,  \* errors after which the port is set up anew (10)
    MaxFlight,   \* bound on the requests and answers on a connection (less than 2^16)
    MaxQueue,    \* bound on the points under way to the buses at a scan
    MaxEvents    \* bound on what users, other masters and the network do

None == "none"
Conns == {"c1", "c2"}      \* connections of the client bus
Other == "other"           \* connection of the other masters

ASSUME ModbusAssumption ==
    /\ Kinds \subseteq [io : {"coil", "discrete", "holding", "input"}, words : {1, 2}]
    /\ Sets \subseteq Nat
    /\ Address \in Nat /\ Offset \in Nat /\ Scale \in Nat \ {0}
    /\ {ErrorLimit, MaxFlight, MaxQueue, MaxEvents} \subseteq Nat

VARIABLES
    kind,    \* type and format of the I/O, the same on both sides
    cnode,   \* points of the client's I/O node in its store
    cio,     \* the client's copy, ModbusIONode, once it has subscribed
    cq,      \* points under way to the client bus
    cl,      \* the client bus
    conn,    \* connections
    snode,   \* value of the server's I/O node in its store
    sio,     \* the server's copy of it, once it has subscribed
    sq,      \* points under way to the server bus
    sv,      \* the server bus
    regs,    \* the server's registers
    held,    \* (history) what each of the I/O's registers held since a read that waits
             \* was sent
    missed,  \* (history) a point that came between a bus's copy of the node and its
             \* subscription, or a write that failed half-way and was not reported
    events

client == <<cnode, cio, cq, cl>>
server == <<snode, sio, sq, sv, regs>>
vars == <<kind, client, conn, server, held, missed, events>>

-----------------------------------------------------------------------------
(* Values *)

Settable == kind.io \in {"coil", "holding"}
IsBit == kind.io \in {"coil", "discrete"}

\* FloatToBool, or the conversion to the unsigned integer of the data format
Unscale(v) ==
    IF IsBit THEN IF v = 1 THEN 1 ELSE 0
             ELSE ((v - Offset) \div Scale) % 2 ^ (WordBits * kind.words)

Scaled(u) == IF IsBit THEN u ELSE u * Scale + Offset

\* The value that the I/O's registers hold.
Present(r) ==
    IF IsBit THEN HasCoil(r, Address)
             ELSE \A i \in 0 .. kind.words - 1 : Has(r, Address + i)

RegWords(r) ==
    IF IsBit THEN <<ReadCoil(r, Address)>>
             ELSE [i \in 1 .. kind.words |-> ReadReg(r, Address + i - 1)]

RegValue(r) == Scaled(FromRegs(RegWords(r)))

Written(r, v) ==
    LET u == Unscale(v)
        ws == ToRegs(kind.words, u)
    IN  IF IsBit THEN WriteCoil(r, Address, u)
        ELSE IF kind.words = 1 THEN WriteReg(r, Address, ws[1])
        ELSE WriteReg(WriteReg(r, Address, ws[1]), Address + 1, ws[2])

InitRegs(r, v) ==
    Written(IF IsBit THEN AddCoil(r, Address) ELSE AddReg(r, Address, kind.words), v)

-----------------------------------------------------------------------------
(* The client bus *)

CSelect == cl.pc = "select"

\* SendPoint by a bus, or a point sent by a user: stored, and on its way to the
\* bus if it has subscribed.
CPublish(field, v) ==
    /\ cnode' = [cnode EXCEPT ![field] = v]
    /\ cq' = IF cl.sub THEN Append(cq, [field |-> field, v |-> v]) ELSE cq

\* ReadBusBit, ReadBusReg
ReadRequest ==
    Request(CASE kind.io = "coil" -> "ReadCoils"
              [] kind.io = "discrete" -> "ReadDiscreteInputs"
              [] kind.io = "holding" -> "ReadHoldingRegs"
              [] kind.io = "input" -> "ReadInputRegs",
            Address, IF IsBit THEN 1 ELSE kind.words, <<>>)

\* WriteSingleCoil, WriteBusHoldingReg: one request for each register
WriteRequest(io, word) ==
    IF IsBit THEN Request("WriteSingleCoil", Address, 1, <<Unscale(io.valueSet)>>)
    ELSE Request("WriteSingleReg", Address + word - 1, 1,
                 <<ToRegs(kind.words, Unscale(io.valueSet))[word]>>)

\* LogError: every error but the end of the connection counts.
Failed == [cl EXCEPT !.pc = "select", !.word = 1,
                     !.errs = IF @ > ErrorLimit THEN @ ELSE @ + 1]

\* The client closes connection k.
Left(k) == [k EXCEPT !.open = FALSE, !.reset = FALSE, !.out = <<>>]

Older(ms) == [i \in DOMAIN ms |-> [ms[i] EXCEPT !.age = @ + 1]]

\* A request is written to k.  The first one after the server has closed the
\* connection is lost; the next finds a broken pipe, and the port is closed.
Transmit(k, req, pc, word) ==
    LET after ==
          CASE k.up ->
                 [k EXCEPT !.in = Append(Older(@), [req |-> req, age |-> 0]), !.out = Older(@)]
            [] ~k.up /\ ~k.reset -> [k EXCEPT !.reset = TRUE, !.out = Older(@)]
            [] OTHER -> Left(k)
    IN  /\ conn' = [conn EXCEPT ![cl.port] = after]
        /\ cl' = IF after.open THEN [cl EXCEPT !.pc = pc, !.word = word]
                                ELSE [Failed EXCEPT !.port = None]

\* For the history held: the words of the I/O.
Contents(r) == IF Present(r) THEN {<<i, RegWords(r)[i]>> : i \in DOMAIN RegWords(r)} ELSE {}

\* The scan timer: ClientIO starts to read, if there is a client.
CScan ==
    /\ CSelect
    /\ cl.sub /\ ~cl.disabled /\ cio.disabled # 1
    /\ Len(cq) + Len(sq) < MaxQueue
    /\ \/ /\ cl.port = None
          /\ cl' = Failed
          /\ UNCHANGED <<conn, held>>
       \/ /\ cl.port # None
          /\ Len(conn[cl.port].in) + Len(conn[cl.port].out) < MaxFlight
          /\ Transmit(conn[cl.port], ReadRequest, "read", 1)
          /\ held' = IF cl'.pc = "read" THEN Contents(regs) ELSE {}
    /\ UNCHANGED <<kind, cnode, cio, cq, server, missed, events>>

\* Mutant: the transaction ID is not compared.
MatchesAny(ans) == ans.data # Exception

\* The next answer is for the request that waits: its transaction ID and
\* function are the request's.
Matches(ans) == ans.age = 0 /\ ans.data # Exception

\* The answer to the read: a value that is new is sent, and a set value that
\* differs is written.
CReadAnswer ==
    LET c == cl.port
        ans == Head(conn[c].out)
        value == IF IsBit THEN RespReadBits(ans.data)[1]
                          ELSE Scaled(FromRegs(RespReadRegs(ans.data)))
        rest == [conn[c] EXCEPT !.out = Tail(@)]
    IN  /\ cl.pc = "read"
        /\ conn[c].out # <<>>
        /\ \/ /\ ~Matches(ans)
              /\ cl' = Failed
              /\ conn' = [conn EXCEPT ![c] = rest]
              /\ UNCHANGED <<cnode, cio, cq>>
           \/ /\ Matches(ans)
              /\ IF value # cio.value THEN CPublish("value", value)
                                      ELSE UNCHANGED <<cnode, cq>>
              /\ cio' = [cio EXCEPT !.value = value]
              /\ IF Settable /\ cio.readOnly # 1 /\ cio.valueSet # value
                 THEN Transmit(rest, WriteRequest(cio, 1), "write", 1)
                 ELSE /\ cl' = [cl EXCEPT !.pc = "select"]
                      /\ conn' = [conn EXCEPT ![c] = rest]
        /\ held' = {}
        /\ UNCHANGED <<kind, server, missed, events>>

\* The answer to a write: the next register, or the set value is sent as the value.
CWriteAnswer ==
    LET c == cl.port
        ok == Matches(Head(conn[c].out))
        done == IsBit \/ cl.word = kind.words
        rest == [conn[c] EXCEPT !.out = Tail(@)]
    IN  /\ cl.pc = "write"
        /\ conn[c].out # <<>>
        /\ IF ok /\ ~done
           THEN Transmit(rest, WriteRequest(cio, cl.word + 1), "write", cl.word + 1)
           ELSE /\ cl' = IF ok THEN [cl EXCEPT !.pc = "select", !.word = 1] ELSE Failed
                /\ conn' = [conn EXCEPT ![c] = rest]
        /\ IF ok /\ done THEN CPublish("value", cio.valueSet) ELSE UNCHANGED <<cnode, cq>>
        /\ UNCHANGED <<kind, cio, server, held, missed, events>>

Waiting == cl.pc \in {"read", "write"} /\ conn[cl.port].out = <<>>

\* The server has closed the connection: io.EOF, which is not counted.
CEof ==
    /\ Waiting
    /\ ~conn[cl.port].up
    /\ cl' = [cl EXCEPT !.pc = "select", !.word = 1]
    /\ held' = {}
    /\ UNCHANGED <<kind, cnode, cio, cq, conn, server, missed, events>>

\* A point of the I/O.  Run compares the data format with names of I/O types,
\* which never match, so a set value waits for the next scan.
CPoint ==
    /\ CSelect
    /\ cq # <<>>
    /\ cio' = [cio EXCEPT ![Head(cq).field] = Head(cq).v]
    /\ cq' = Tail(cq)
    /\ UNCHANGED <<kind, cnode, cl, conn, server, held, missed, events>>

NewConn == [open |-> TRUE, up |-> TRUE, reset |-> FALSE, in |-> <<>>, out |-> <<>>,
            pc |-> "idle", got |-> <<>>]

\* SetupPort: the old connection is closed and a new one is dialled, which fails
\* when the server does not listen.
CClosed == [c \in DOMAIN conn |->
              IF c = cl.port THEN Left(conn[c]) ELSE conn[c]]

CSetupPort(errs) ==
    \/ LET c == CHOOSE c \in Conns : conn[c].pc = "gone"
       IN /\ sv.up /\ sv.pc # "close"
          /\ \E d \in Conns : conn[d].pc = "gone"
          /\ conn' = [CClosed EXCEPT ![c] = NewConn]
          /\ cl' = [cl EXCEPT !.port = c, !.errs = errs]
    \/ /\ ~sv.up
       /\ conn' = CClosed
       /\ cl' = [cl EXCEPT !.port = None, !.errs = errs]

\* The 10 s timer: a disabled bus closes its port; otherwise the port is set up if
\* there is none or there were too many errors, and CheckIOs takes a copy of an
\* I/O that it does not know.
CCheckPort ==
    /\ CSelect
    /\ \/ /\ cl.disabled
          /\ cl.port # None
          /\ conn' = CClosed
          /\ cl' = [cl EXCEPT !.port = None]
       \/ /\ ~cl.disabled
          /\ cl.port = None \/ cl.errs > ErrorLimit
          /\ CSetupPort(0)
    /\ UNCHANGED <<kind, cnode, cio, cq, server, held, missed, events>>

CCheckIOs ==
    /\ CSelect
    /\ ~cl.disabled /\ ~cl.sub
    /\ cio' = cnode
    /\ cl' = [cl EXCEPT !.pc = "add"]
    /\ UNCHANGED <<kind, cnode, cq, conn, server, held, missed, events>>

\* Mutant: the I/O is not put into the list of those the bus knows.
CAddIOForgets ==
    /\ cl.pc = "add"
    /\ cl' = [cl EXCEPT !.pc = "select"]
    /\ UNCHANGED <<kind, cnode, cio, cq, conn, server, held, missed, events>>

\* NewModbusIO subscribes to the points of the I/O.
CAddIO ==
    /\ cl.pc = "add"
    /\ cl' = [cl EXCEPT !.pc = "select", !.sub = TRUE]
    /\ UNCHANGED <<kind, cnode, cio, cq, conn, server, held, missed, events>>

-----------------------------------------------------------------------------
(* Listen on a connection of the server *)

Served == Conns \cup {Other}

Hold(r) == held' = held \cup (IF cl.pc = "read" THEN Contents(r) ELSE {})

\* The answer is written, unless the connection is closed.
Answered(c, age, data) ==
    IF c = Other \/ ~conn[c].up \/ ~conn[c].open THEN conn[c].out
    ELSE Append(conn[c].out, [age |-> age, data |-> data])

\* One turn of the loop in ProcessRequest; each locks the registers by itself.
\* A register that is missing ends it with an exception.  After the last turn
\* the answer is written, or the change is reported first.
Process(c) ==
    LET m == Head(conn[c].in)
        i == Len(conn[c].got)
        last == i + 1 = m.req.count
        got == Append(conn[c].got, Turn(regs, m.req, i))
        next == [conn[c] EXCEPT !.in = Tail(@), !.got = <<>>, !.pc = "idle"]
        answer(d) == [next EXCEPT !.out = Answered(c, m.age, d)]
    IN  /\ conn[c].pc = "idle" /\ conn[c].in # <<>>
        /\ \/ /\ ~Finds(regs, m.req, i)
              /\ conn' = [conn EXCEPT ![c] = answer(Exception)]
              /\ missed' = (missed \/ (Changes(m.req) /\ i > 0))
              /\ UNCHANGED <<regs, held>>
           \/ /\ Finds(regs, m.req, i)
              /\ regs' = TurnWrites(regs, m.req, i)
              /\ Hold(regs')
              /\ UNCHANGED missed
              /\ conn' = [conn EXCEPT ![c] =
                    CASE ~last -> [conn[c] EXCEPT !.got = got]
                      [] last /\ Changes(m.req) -> [conn[c] EXCEPT !.got = got, !.pc = "change"]
                      [] OTHER -> answer(got)]
        /\ UNCHANGED <<kind, client, snode, sio, sq, sv, events>>

\* The client has closed the connection and Listen has read what it sent; the
\* callback that takes it off the list needs the lock that Close holds.
ReadEof(c) ==
    /\ conn[c].pc = "idle" /\ conn[c].up
    /\ ~conn[c].open /\ conn[c].in = <<>>
    /\ conn' = [conn EXCEPT ![c].pc = "eof"]
    /\ UNCHANGED <<kind, client, server, held, missed, events>>

Removed(c) ==
    /\ conn[c].pc = "eof"
    /\ sv.pc # "close"
    /\ conn' = [conn EXCEPT ![c].pc = "gone", ![c].up = FALSE]
    /\ UNCHANGED <<kind, client, server, held, missed, events>>

-----------------------------------------------------------------------------
(* The server bus *)

SSelect == sv.pc = "select"

SPublish(v) ==
    /\ snode' = v
    /\ sq' = IF sv.sub THEN Append(sq, v) ELSE sq

\* ServerIO: inputs go from the node to the registers; coils and holding registers
\* from the registers to the node.  Registers that are missing are an error.
ServerIO(value, q) ==
    LET differs == Settable /\ RegValue(regs) # (IF IsBit THEN Unscale(value) ELSE value)
    IN  IF ~Present(regs)
        THEN sq' = q /\ UNCHANGED <<snode, regs, held>>
        ELSE /\ regs' = IF Settable THEN regs ELSE Written(regs, value)
             /\ Hold(regs')
             /\ snode' = IF differs THEN RegValue(regs) ELSE snode
             /\ sq' = IF differs THEN Append(q, RegValue(regs)) ELSE q

SPoint ==
    /\ SSelect
    /\ sq # <<>>
    /\ sio' = Head(sq)
    /\ ServerIO(Head(sq), Tail(sq))
    /\ UNCHANGED <<kind, client, conn, sv, missed, events>>

\* Run takes the report of a change, and Listen goes on to its answer.
SRegChange(c) ==
    LET m == Head(conn[c].in)
    IN  /\ SSelect
        /\ conn[c].pc = "change"
        /\ conn' = [conn EXCEPT ![c] =
              [@ EXCEPT !.pc = "idle", !.got = <<>>, !.in = Tail(@),
                        !.out = Answered(c, m.age, conn[c].got)]]
        /\ ServerIO(sio, sq)
        /\ UNCHANGED <<kind, client, sio, sv, missed, events>>

\* The rest of SetupPort, once the old server is closed: new registers, which are
\* initialised when the server listens.
SListen ==
    \/ /\ regs' = IF sv.sub THEN InitRegs(NoRegs, sio) ELSE NoRegs
       /\ sv' = [sv EXCEPT !.pc = "select", !.goal = "select", !.up = TRUE]
       /\ Hold(regs')
       /\ UNCHANGED events
    \/ /\ events < MaxEvents
       /\ events' = events + 1
       /\ regs' = NoRegs
       /\ sv' = [sv EXCEPT !.pc = "select", !.goal = "select", !.up = FALSE]
       /\ UNCHANGED held

\* TCPServer.Close locks the list of connections, closes one after the other and
\* waits until its Listen is back at the top of its loop.  No connection is made
\* meanwhile.
StartClose(goal) ==
    sv' = [sv EXCEPT !.pc = "close", !.goal = goal,
                     !.rem = IF sv.up THEN {c \in Served : conn[c].pc # "gone"} ELSE {}]

Busy(c) == conn[c].pc = "change" \/ conn[c].got # <<>>

\* Mutant: only the connections that their master has left are closed.
SCloseTransportLeft(c) ==
    /\ sv.pc = "close"
    /\ c \in sv.rem /\ \A d \in sv.rem : conn[d].up
    /\ ~conn[c].open
    /\ conn' = [conn EXCEPT ![c].up = FALSE,
                           ![c].in = IF Busy(c) THEN <<Head(@)>> ELSE <<>>]
    /\ UNCHANGED <<kind, client, server, held, missed, events>>

SCloseTransport(c) ==
    /\ sv.pc = "close"
    /\ c \in sv.rem /\ \A d \in sv.rem : conn[d].up
    /\ conn' = [conn EXCEPT ![c].up = FALSE,
                           ![c].in = IF Busy(c) THEN <<Head(@)>> ELSE <<>>]
    /\ UNCHANGED <<kind, client, server, held, missed, events>>

SCloseConn(c) ==
    /\ sv.pc = "close"
    /\ c \in sv.rem /\ ~conn[c].up
    /\ conn[c].pc = "idle" /\ ~Busy(c)
    /\ conn' = [conn EXCEPT ![c].pc = "gone"]
    /\ sv' = [sv EXCEPT !.rem = @ \ {c}]
    /\ UNCHANGED <<kind, client, snode, sio, sq, regs, held, missed, events>>

SClosed ==
    /\ sv.pc = "close"
    /\ sv.rem = {}
    /\ \/ /\ sv.goal = "setup"
          /\ SListen
       \/ /\ sv.goal # "setup"
          /\ sv' = [sv EXCEPT !.pc = sv.goal, !.up = FALSE]
          /\ UNCHANGED <<regs, held, events>>
    /\ UNCHANGED <<kind, client, conn, snode, sio, sq, missed>>

\* The 10 s timer, as on the client.
SCheckPort ==
    /\ SSelect
    /\ sv.disabled = sv.up
    /\ StartClose(IF sv.disabled THEN "select" ELSE "setup")
    /\ UNCHANGED <<kind, client, conn, snode, sio, sq, regs, held, missed, events>>

SCheckIOs ==
    /\ SSelect
    /\ ~sv.disabled /\ ~sv.sub
    /\ sio' = snode
    /\ sv' = [sv EXCEPT !.pc = "add"]
    /\ UNCHANGED <<kind, client, conn, snode, sq, regs, held, missed, events>>

\* NewModbusIO subscribes, then InitRegs.
SAddIO ==
    /\ sv.pc = "add"
    /\ sv' = [sv EXCEPT !.pc = "select", !.sub = TRUE]
    /\ regs' = IF sv.up THEN InitRegs(regs, sio) ELSE regs
    /\ Hold(regs')
    /\ UNCHANGED <<kind, client, conn, snode, sio, sq, missed, events>>

-----------------------------------------------------------------------------
(* Users, other masters and the network *)

Event == events < MaxEvents /\ events' = events + 1

UserSets ==
    /\ Event
    /\ \/ /\ \E v \in Sets : v # cnode.valueSet /\ CPublish("valueSet", v)
          /\ missed' = (missed \/ cl.pc = "add")
          /\ UNCHANGED <<snode, sq>>
       \/ /\ \E f \in {"readOnly", "disabled"} : CPublish(f, 1 - cnode[f])
          /\ missed' = (missed \/ cl.pc = "add")
          /\ UNCHANGED <<snode, sq>>
       \/ /\ \E v \in Sets : v # snode /\ SPublish(v)
          /\ missed' = (missed \/ sv.pc = "add")
          /\ UNCHANGED <<cnode, cq>>
    /\ UNCHANGED <<kind, cio, cl, conn, sio, sv, regs, held>>

\* A point of the bus node: disabled, or one of those that set up the port.
CBusPoint ==
    /\ CSelect
    /\ Event
    /\ \/ cl' = [cl EXCEPT !.disabled = ~@] /\ UNCHANGED conn
       \/ CSetupPort(cl.errs)
    /\ UNCHANGED <<kind, cnode, cio, cq, server, held, missed>>

SBusPoint ==
    /\ SSelect
    /\ Event
    /\ \/ sv' = [sv EXCEPT !.disabled = ~@]
       \/ StartClose("setup")
    /\ UNCHANGED <<kind, client, conn, snode, sio, sq, regs, held, missed>>

\* The bus node is deleted: the manager's Update stops the bus.
SStop ==
    /\ SSelect
    /\ Event
    /\ sv' = [sv EXCEPT !.pc = "close", !.goal = "ended", !.sub = FALSE,
                        !.rem = IF sv.up THEN {c \in Served : conn[c].pc # "gone"} ELSE {}]
    /\ sq' = <<>>
    /\ UNCHANGED <<kind, client, conn, snode, sio, regs, held, missed>>

OtherRequests ==
    /\ Event
    /\ sv.up /\ sv.pc # "close"
    /\ \E r \in Foreign :
          LET old == IF conn[Other].pc = "gone" THEN NewConn ELSE conn[Other]
          IN  /\ old.open
              /\ conn' = [conn EXCEPT ![Other] = [old EXCEPT !.in = Append(@, [req |-> r, age |-> 0])]]
    /\ UNCHANGED <<kind, client, server, held, missed>>

OtherLeaves ==
    /\ Event
    /\ conn[Other].open
    /\ conn' = [conn EXCEPT ![Other].open = FALSE]
    /\ UNCHANGED <<kind, client, server, held, missed>>

\* Close waits for a Listen that waits for Run, or for the lock that Close holds.
Stuck == sv.pc = "close" /\ \E c \in sv.rem : conn[c].pc \in {"change", "eof"}

\* No answer for 500 ms: an event, unless there is nobody to answer.
CTimeout ==
    /\ Waiting
    /\ conn[cl.port].up
    /\ \/ Event
       \/ Stuck /\ UNCHANGED events
    /\ cl' = Failed
    /\ held' = {}
    /\ UNCHANGED <<kind, cnode, cio, cq, conn, server, missed>>

-----------------------------------------------------------------------------

NoConn == [NewConn EXCEPT !.open = FALSE, !.up = FALSE, !.pc = "gone"]

\* One bus has just been started, the other is running.
Init ==
    \E fresh \in {"client", "server"} :
        /\ kind \in Kinds
        /\ cnode = [value |-> Offset, valueSet |-> Offset, readOnly |-> 0, disabled |-> 0]
        /\ cio = cnode
        /\ cq = <<>>
        /\ cl = [pc |-> "select", port |-> None, word |-> 1, errs |-> 0,
                 sub |-> fresh # "client", disabled |-> FALSE]
        /\ conn = [c \in Served |-> NoConn]
        /\ snode = Offset
        /\ sio = snode
        /\ sq = <<>>
        /\ sv = [pc |-> "select", goal |-> "select", rem |-> {}, up |-> fresh # "server",
                 sub |-> fresh # "server", disabled |-> FALSE]
        /\ regs = IF fresh # "server" THEN InitRegs(NoRegs, sio) ELSE NoRegs
        /\ held = {}
        /\ missed = FALSE
        /\ events = 0

CAnswer == CReadAnswer \/ CWriteAnswer \/ CEof \/ CAddIO
CTimer == CCheckPort \/ CCheckIOs
Listen(c) == Process(c) \/ ReadEof(c) \/ Removed(c)
SRun == SPoint \/ (\E c \in Served : SRegChange(c) \/ SCloseTransport(c) \/ SCloseConn(c)) \/ SClosed \/ SAddIO
STimer == SCheckPort \/ SCheckIOs

Next ==
    \/ CScan \/ CAnswer \/ CPoint \/ CTimer
    \/ \E c \in Served : Listen(c)
    \/ SRun \/ STimer
    \/ UserSets \/ CBusPoint \/ SBusPoint \/ SStop
    \/ OtherRequests \/ OtherLeaves \/ CTimeout

Fairness ==
    /\ SF_vars(CScan) /\ SF_vars(CPoint) /\ SF_vars(CTimer)
    /\ WF_vars(CAnswer)
    /\ \A c \in Served : WF_vars(Listen(c))
    /\ WF_vars(SRun) /\ WF_vars(STimer)

Spec == Init /\ [][Next]_vars /\ Fairness

-----------------------------------------------------------------------------

\* ServerIO keeps the node of the server's I/O and its registers equal: whenever
\* Run has taken all points and no request is half done, what masters read is what the
\* node shows, however points, writes of masters and new listeners (SetupPort, InitRegs)
\* interleave.  A point lost before the subscription and a write that failed half-way
\* are left aside (missed).
ServerAgrees ==
    SSelect /\ sv.sub /\ sq = <<>> /\ Present(regs) /\ ~missed
        /\ (\A c \in Served : ~Busy(c))
    => RegValue(regs) = Scaled(Unscale(sio))

\* What ClientIO takes for the value of a register is something that this register held
\* after the poll was sent.  In particular it is never the late answer to a poll that
\* timed out (TCP.Decode compares the transaction ID).
ReadsRecent ==
    [][cl.pc = "read" /\ cio' # cio =>
          LET ws == IF IsBit THEN <<cio'.value>> ELSE ToRegs(kind.words, Unscale(cio'.value))
          IN  \A i \in DOMAIN ws : <<i, ws[i]>> \in held]_vars

Representable(v) == Scaled(Unscale(v)) = v

Calm ==
    /\ ~missed /\ ~Stuck /\ sv.pc # "ended"
    /\ ~cl.disabled /\ ~sv.disabled /\ cnode.disabled # 1

Agree ==
    /\ cnode.value = snode
    /\ Settable /\ cnode.readOnly # 1 => snode = cnode.valueSet

\* Once users, masters and the network are quiet, the value that the client's node shows is
\* the server's, and a set value arrives at the server, through lost connections,
\* timeouts, late answers and new ports.  Values that the data format cannot hold are left
\* aside: ClientIO writes them again at every scan.
EndToEnd == <>[](Calm /\ Representable(cnode.valueSet) /\ Representable(snode) => Agree)

\* TCPServer.Close ends, and Run of the bus goes on, unless the Listen that it waits for
\* waits itself for Run to take a change or for the lock that Close holds.
CloseEnds == []<>(sv.pc # "close" \/ Stuck)
=============================================================================
