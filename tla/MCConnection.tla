---------------------------- MODULE MCConnection ----------------------------
\* Values for Connection: one device is connected, operated and disconnected
\* while another is connected and disconnected.
EXTENDS Connection, TLC

CONSTANTS cam, tel, a1, a2, o1, x1, x2

MCDevices == {cam, tel}
MCCalls == {a1, o1, x1, a2, x2}
MCKindOf == [c \in Calls |->
    CASE c \in {a1, a2} -> "acquire" [] c \in {x1, x2} -> "release" [] OTHER -> "operate"]
MCDevOf == [c \in Calls |-> IF c \in {a1, o1, x1} THEN cam ELSE tel]
=============================================================================
