------------------------------ MODULE MCModbus ------------------------------
(***************************************************************************)
(* An instance of Modbus for TLC: a coil, or a 32-bit value in two holding *)
(* registers, with words of two bits; another master writes registers,     *)
(* also past the I/O's, and coils.                                         *)
(***************************************************************************)
EXTENDS Modbus

MCKinds == {[io |-> "coil", words |-> 1], [io |-> "holding", words |-> 2]}

MCForeign == {Request("WriteMultipleRegs", Address, 2, <<1, 0>>),
              Request("WriteMultipleCoils", Address, 1, <<1>>)}
=============================================================================
