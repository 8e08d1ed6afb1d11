------------------------------ MODULE FrameLink ------------------------------
(***************************************************************************)
(* What the Transport trait (pubsub/src/transport/mod.rs) lets its callers *)
(* assume of one sender and one receiver: recv hands over whole frames, at *)
(* most once each, in the order they were sent; a frame may be lost.       *)
(***************************************************************************)
EXTENDS Naturals, Sequences

CONSTANT Messages   \* the individual frames that may be sent

VARIABLES
    sent,       \* the frames handed to send so far, in order
    got,        \* the frames recv has handed over so far, in order
    passed      \* how many frames of `sent' recv has gone past

vars == <<sent, got, passed>>

Init == sent = << >> /\ got = << >> /\ passed = 0

Send(m) ==
    /\ m \notin { sent[k] : k \in DOMAIN sent }
    /\ sent' = Append(sent, m)
    /\ UNCHANGED <<got, passed>>

\* recv returns the k-th frame sent; those between it and the last are lost.
Recv(k) ==
    /\ passed < k
    /\ got' = Append(got, sent[k])
    /\ passed' = k
    /\ UNCHANGED sent

Next == (\E m \in Messages : Send(m)) \/ (\E k \in DOMAIN sent : Recv(k))

Spec == Init /\ [][Next]_vars
===============================================================================
