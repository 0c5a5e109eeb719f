-------------------------------- MODULE Chat --------------------------------
(***************************************************************************)
(* What the chat promises its clients (websocket.go): there is one order   *)
(* of all that is posted, and a client is shown an unbroken stretch of it  *)
(* that starts where the client joined.  How far it is shown it is up to   *)
(* the client, which may be slow, be evicted or leave.  WsHub implements   *)
(* it.                                                                     *)
(***************************************************************************)
EXTENDS Naturals, Sequences

CONSTANT Clients

VARIABLES
    posted,     \* how many messages there are; they are the numbers from 1
    joined,     \* the clients that joined, also those who left
    start,      \* the messages before each client joined
    shown       \* the messages each client was shown

chatVars == <<posted, joined, start, shown>>

Init ==
    /\ posted = 0
    /\ joined = {}
    /\ start = [c \in Clients |-> 0]
    /\ shown = [c \in Clients |-> <<>>]

Join(c) ==
    /\ c \notin joined
    /\ joined' = joined \union {c}
    /\ start' = [start EXCEPT ![c] = posted]
    /\ UNCHANGED <<posted, shown>>

Post ==
    /\ posted' = posted + 1
    /\ UNCHANGED <<joined, start, shown>>

\* The next messages are shown to a client, in one piece.
Show(c) ==
    /\ c \in joined
    /\ \E n \in Len(shown[c]) + 1 .. posted - start[c] :
           shown' = [shown EXCEPT ![c] = [i \in 1 .. n |-> start[c] + i]]
    /\ UNCHANGED <<posted, joined, start>>

Next == Post \/ \E c \in Clients : Join(c) \/ Show(c)

Spec == Init /\ [][Next]_chatVars
=============================================================================
