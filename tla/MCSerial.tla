------------------------------ MODULE MCSerial ------------------------------
EXTENDS Serial

\* Reads in pieces without and with an event; whole reads with points, logs and an event;
\* two events, with the MCU silent but for its acks.
MCScopes == {[whole |-> FALSE, subs |-> {"phr"}, first |-> 0, sent |-> 3, events |-> 0],
             [whole |-> FALSE, subs |-> {"points"}, first |-> 0, sent |-> 1, events |-> 1],
             [whole |-> TRUE, subs |-> {"points", "log"}, first |-> 1, sent |-> 2, events |-> 1],
             [whole |-> TRUE, subs |-> {}, first |-> 0, sent |-> 0, events |-> 2]}
=============================================================================
