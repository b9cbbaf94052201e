------------------------------ MODULE ModbusReg ------------------------------
(***************************************************************************)
(* The register file of a Modbus device and the requests on it             *)
(* (modbus/reg.go, pdu.go, data.go).  Coils and registers share one        *)
(* address space: coil n is bit n % 16 of register n / 16.                 *)
(*                                                                         *)
(* A register holds WordBits bits (16) and addresses are numbers modulo    *)
(* AdrSpace (2^16).  A request is its function, its first address, the     *)
(* number of coils or registers, and the values to write; it always has    *)
(* the length that its function asks for.                                  *)
(***************************************************************************)
EXTENDS Integers, Sequences

CONSTANTS
    WordBits,  \* bits of a register
    AdrSpace   \* number of register addresses

ASSUME RegAssumption == WordBits \in Nat \ {0} /\ AdrSpace \in Nat \ {0}

Word == 0 .. (2 ^ WordBits - 1)

\* The address as uint16.
Adr(a) == a % AdrSpace

-----------------------------------------------------------------------------
(* Regs: a function from the addresses that were added to words *)

NoRegs == [a \in {} |-> 0]

AddReg(regs, a, count) ==
    LET new == {Adr(a + i) : i \in 0 .. count - 1} \ DOMAIN regs
    IN  [x \in DOMAIN regs \cup new |-> IF x \in new THEN 0 ELSE regs[x]]

Has(regs, a) == Adr(a) \in DOMAIN regs

ReadReg(regs, a) == regs[Adr(a)]

WriteReg(regs, a, w) == [regs EXCEPT ![Adr(a)] = w]

AddCoil(regs, num) == AddReg(regs, num \div WordBits, 1)

HasCoil(regs, num) == Has(regs, num \div WordBits)

Bit(w, i) == (w \div 2 ^ i) % 2

ReadCoil(regs, num) == Bit(ReadReg(regs, num \div WordBits), num % WordBits)

WriteCoil(regs, num, b) ==
    LET a == num \div WordBits
        i == num % WordBits
        w == ReadReg(regs, a)
    IN  WriteReg(regs, a, w + (b - Bit(w, i)) * 2 ^ i)

\* A value of one or two registers, high word first, and back.
ToRegs(words, v) ==
    [i \in 1 .. words |-> (v \div 2 ^ (WordBits * (words - i))) % 2 ^ WordBits]

FromRegs(ws) == IF Len(ws) = 1 THEN ws[1] ELSE ws[1] * 2 ^ WordBits + ws[2]

-----------------------------------------------------------------------------
(* ProcessRequest *)

ReadsBits == {"ReadCoils", "ReadDiscreteInputs"}
ReadsRegs == {"ReadHoldingRegs", "ReadInputRegs"}
WritesBits == {"WriteSingleCoil", "WriteMultipleCoils"}
WritesRegs == {"WriteSingleReg", "WriteMultipleRegs"}

Request(fc, adr, count, vals) == [fc |-> fc, adr |-> adr, count |-> count, vals |-> vals]

Exception == "exception"

\* The loop's turn i finds its coil or register.
Finds(regs, req, i) ==
    IF req.fc \in ReadsBits \cup WritesBits THEN HasCoil(regs, req.adr + i)
                                            ELSE Has(regs, req.adr + i)

\* What turn i reads or echoes, and the registers after it.
Turn(regs, req, i) ==
    CASE req.fc \in ReadsBits -> ReadCoil(regs, req.adr + i)
      [] req.fc \in ReadsRegs -> ReadReg(regs, req.adr + i)
      [] OTHER -> req.vals[i + 1]

TurnWrites(regs, req, i) ==
    CASE req.fc \in WritesBits -> WriteCoil(regs, req.adr + i, req.vals[i + 1])
      [] req.fc \in WritesRegs -> WriteReg(regs, req.adr + i, req.vals[i + 1])
      [] OTHER -> regs

\* Mutant: a write of coils is not reported.
ChangesRegs(req) == req.fc \in WritesRegs

\* regsChanged
Changes(req) == req.fc \in WritesBits \cup WritesRegs

\* RespReadBits takes the number of bytes, which is what the first byte of the
\* answer holds, for the number of bits; RespReadRegs reads as many registers
\* as the answer has.
RespReadBits(data) == SubSeq(data, 1, (Len(data) + 7) \div 8)

RespReadRegs(data) == data
=============================================================================
