-------------------------------- MODULE Cobs --------------------------------
(***************************************************************************)
(* The reader of COBS frames (client/cobs-wrapper.go).                     *)
(*                                                                         *)
(* The bytes of a line are 0 and, for packet k, 2k-1 and 2k, its first and *)
(* its second half: what is between two zeros decodes to packet k if and   *)
(* only if it is both halves of k; the COBS structure or the CRC tells     *)
(* everything else.  A packet travels as <<0, 2k-1, 2k, 0>>.               *)
(***************************************************************************)
EXTENDS Integers, Sequences, SequencesExt

CONSTANT MaxMessageLength   \* of the read buffer, in the bytes above

ASSUME CobsAssumption == MaxMessageLength \in Nat \ {0}

\* CobsWrapper.Write
Frame(k) == <<0, 2 * k - 1, 2 * k, 0>>

PacketOf(b) == (b + 1) \div 2

Zeros(n) == [i \in 1 .. n |-> 0]

\* The index of the zero that ends the first packet in s, or 0.
End(s) ==
    LET ends == {i \in DOMAIN s : s[i] = 0 /\ \E j \in 1 .. i - 1 : s[j] # 0}
    IN  IF ends = {} THEN 0 ELSE CHOOSE i \in ends : \A j \in ends : i <= j

\* cobsDecodeInplace and SerialDecode: a packet, or an error that COBS finds, that the CRC
\* finds, or that there is too little to decode.
Decode(s) ==
    LET bytes == SelectSeq(s, LAMBDA b : b # 0)
        k == PacketOf(bytes[1])
    IN  IF bytes = <<2 * k - 1, 2 * k>> THEN {[res |-> "packet", k |-> k]}
        ELSE {[res |-> "cobs", k |-> 0], [res |-> "crc", k |-> 0]}
             \cup (IF Len(s) <= 2 THEN {[res |-> "short", k |-> 0]} ELSE {})

Nothing == [res |-> "more", k |-> 0]

-----------------------------------------------------------------------------
(* A reader: what it has in its buffer, whether a packet has started, what is left from *)
(* earlier reads, and its result.                                                       *)

NewCobsWrapper == [buf |-> <<>>, started |-> FALSE, left |-> <<>>, out |-> Nothing]

\* Mutant: a packet that is found takes everything that is left with it.
StartReadAll(r) ==
    LET i == End(r.left)
    IN  IF i # 0
        THEN {[buf |-> <<>>, started |-> FALSE, left |-> <<>>, out |-> d] :
                d \in Decode(SubSeq(r.left, 1, i - 1))}
        ELSE {[r EXCEPT !.buf = Zeros(Len(r.left)), !.started = FALSE, !.out = Nothing]}

\* Read looks for a packet in what is left over.  If there is none, the bytes are meant
\* to start the buffer; but they are appended to a copy, so that the buffer starts with
\* as many zeros, and they stay left over.
StartRead(r) ==
    LET i == End(r.left)
    IN  IF i # 0
        THEN {[buf |-> <<>>, started |-> FALSE, left |-> SubSeq(r.left, i, Len(r.left)), out |-> d] :
                d \in Decode(SubSeq(r.left, 1, i - 1))}
        ELSE {[r EXCEPT !.buf = Zeros(Len(r.left)), !.started = FALSE, !.out = Nothing]}

\* How many bytes the device is asked for.
Room(r) == MaxMessageLength - Len(r.buf)

\* One turn of Read's loop, with the bytes c from the device.
ReadChunk(r, c) ==
    LET s == IF r.started THEN <<1>> \o c ELSE c
        e == End(s)
        i == IF r.started /\ e # 0 THEN e - 1 ELSE e
        buf == r.buf \o c
    IN  IF i # 0
        THEN {[buf |-> <<>>, started |-> FALSE,
               left |-> r.left \o SubSeq(c, i + 1, Len(c)), out |-> d] :
                d \in Decode(r.buf \o SubSeq(c, 1, i))}
        ELSE {[r EXCEPT !.buf = buf,
                        !.started = r.started \/ \E j \in DOMAIN c : c[j] # 0,
                        !.out = IF Len(buf) >= MaxMessageLength
                                THEN [res |-> "full", k |-> 0] ELSE Nothing]}
=============================================================================
