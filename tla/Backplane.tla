------------------------------- MODULE Backplane -------------------------------
(***************************************************************************)
(* Requests and responses of backplane nodes over UDP: Node                *)
(* (hil/hil-backplane/src/node.rs), whose request blocks until it has an   *)
(* answer, and as a server EmbassyNode (embassy_node.rs) too.              *)
(*                                                                         *)
(* Datagrams may be lost, repeated and reordered.  A datagram carries,     *)
(* beside the fields of its Envelope, how many its node had sent before in *)
(* all its lives (nth), and a response the nth of the request it was made  *)
(* for (answers): what correlation should recover from request_seq.        *)
(***************************************************************************)
EXTENDS Naturals, FiniteSets

CONSTANTS
    Nodes,
    Types,          \* the message types there are handlers and requests for
    ReplyType,      \* ReplyType[t]: the type handlers of t respond with
    Serves,         \* Serves[n]: the types n has a handler for
    Asks,           \* Asks[n]: the nodes n makes requests to
    Publishes,      \* Publishes[n]: the types n publishes
    SeqModulus,     \* seq_counter is a u32 that wraps: 2^32
    MaxSent,        \* bound: datagrams a node sends in its lives
    MaxRepeats,     \* bound: datagrams delivered twice
    MaxRestarts,    \* bound: restarts of nodes
    MaxNoise        \* bound: datagrams that hold no valid envelope

ASSUME ReplyTypeAssumption == ReplyType \in [Types -> Types]
ASSUME RolesAssumption ==
    /\ Serves \in [Nodes -> SUBSET Types]
    /\ Publishes \in [Nodes -> SUBSET Types]
    /\ Asks \in [Nodes -> SUBSET Nodes]
ASSUME SeqModulusAssumption == SeqModulus \in Nat \ {0}
ASSUME BoundsAssumption ==
    MaxSent \in Nat /\ MaxRepeats \in Nat /\ MaxRestarts \in Nat /\ MaxNoise \in Nat

VARIABLES
    seq,        \* seq[n]: n's seq_counter
    sent,       \* history: sent[n], the datagrams n has sent
    call,       \* call[n]: the request n waits for an answer to, or NoCall
    outcome,    \* outcome[n]: how n's last request ended
    net,        \* the datagrams under way
    lost,       \* history: was a datagram lost, or could one not be sent?
    restarted,  \* history: the nodes that have restarted
    budget      \* what is left of the bounds

vars == <<seq, sent, call, outcome, net, lost, restarted, budget>>

NoCall == [state |-> "none"]
NoOutcome == [is |-> "none"]
Noise(n) == [kind |-> "noise", to |-> n]

\* next_seq; in a datagram, together with its place in history.
NextSeq(k) == IF k + 1 = SeqModulus THEN 0 ELSE k + 1
Sends(n) ==
    /\ sent[n] < MaxSent
    /\ seq' = [seq EXCEPT ![n] = NextSeq(@)]
    /\ sent' = [sent EXCEPT ![n] = @ + 1]

Request(n, to, t) ==
    [kind |-> "request", type |-> t, seq |-> seq[n], nth |-> sent[n],
     source |-> n, to |-> to]
Response(n, d) ==
    [kind |-> "response", type |-> ReplyType[d.type], seq |-> seq[n],
     nth |-> sent[n], source |-> n, to |-> d.source,
     request_seq |-> d.seq, answers |-> d.nth]
Publication(n, to, t) ==
    [kind |-> "publish", type |-> t, seq |-> seq[n], nth |-> sent[n],
     source |-> n, to |-> to]

Init ==
    /\ seq = [n \in Nodes |-> 0]
    /\ sent = [n \in Nodes |-> 0]
    /\ call = [n \in Nodes |-> NoCall]
    /\ outcome = [n \in Nodes |-> NoOutcome]
    /\ net = {}
    /\ lost = FALSE
    /\ restarted = {}
    /\ budget = [repeats |-> MaxRepeats, restarts |-> MaxRestarts,
                 noise |-> MaxNoise]

Spend(what) ==
    /\ budget[what] > 0
    /\ budget' = [budget EXCEPT ![what] = @ - 1]

-------------------------------------------------------------------------------
\* publish: multicast, the sender's own socket included; it may fail.
Publish(n, t) ==
    /\ t \in Publishes[n]
    /\ call[n] = NoCall
    /\ Sends(n)
    /\ \/ net' = net \union { Publication(n, m, t) : m \in Nodes }
       \/ UNCHANGED net
    /\ UNCHANGED <<call, outcome, lost, restarted, budget>>

\* request: a send that fails ends it with that error, its seq spent.
BeginRequest(n, to, t) ==
    /\ to \in Asks[n]
    /\ call[n] = NoCall
    /\ Sends(n)
    /\ \/ /\ net' = net \union {Request(n, to, t)}
          /\ call' = [call EXCEPT ![n] =
                [state |-> "waiting", seq |-> seq[n], nth |-> sent[n],
                 target |-> to, type |-> t]]
          /\ UNCHANGED outcome
       \/ /\ outcome' = [outcome EXCEPT ![n] = [is |-> "error"]]
          /\ UNCHANGED <<call, net>>
    /\ UNCHANGED <<lost, restarted, budget>>

\* A datagram is taken from the socket; the network may deliver it again.
Take(d) ==
    \/ net' = net \ {d} /\ UNCHANGED budget
    \/ Spend("repeats") /\ UNCHANGED net

\* Faulty: whichever answer of the right type comes first.
FaultyMatches(n, d) ==
    /\ d.kind = "response"
    /\ d.type = ReplyType[call[n].type]

\* The test in request: request_seq and type_id, whoever sent it.
Matches(n, d) ==
    /\ d.kind = "response"
    /\ d.request_seq = call[n].seq
    /\ d.type = ReplyType[call[n].type]

Ends(n, how) ==
    /\ outcome' = [outcome EXCEPT ![n] = how]
    /\ call' = [call EXCEPT ![n] = NoCall]

(* The loop in request: the answer ends it, a datagram without a valid     *)
(* envelope ends it with an error, and any other is dispatched to its      *)
(* handler, whose response, if it was a request, is dropped.               *)
ReceiveWaiting(n, d) ==
    /\ call[n] # NoCall
    /\ d \in net /\ d.to = n
    /\ Take(d)
    /\ \/ /\ Matches(n, d)
          /\ Ends(n, [is |-> "ok", nth |-> call[n].nth, target |-> call[n].target,
                      answers |-> d.answers, from |-> d.source])
       \/ d.kind = "noise" /\ Ends(n, [is |-> "error"])
       \/ d.kind # "noise" /\ ~Matches(n, d) /\ UNCHANGED <<call, outcome>>
    /\ UNCHANGED <<seq, sent, lost, restarted>>

\* Is the question or the answer of n's request still under way?
UnderWay(n) ==
    \E d \in net : \/ d.kind = "request" /\ d.source = n /\ d.nth = call[n].nth
                   \/ d.kind = "response" /\ d.to = n /\ d.answers = call[n].nth

\* The deadline passes, perhaps too early for an answer that would come.
TimesOut(n) ==
    /\ call[n] # NoCall
    /\ Ends(n, [is |-> "timeout", target |-> call[n].target, type |-> call[n].type,
                early |-> UnderWay(n)])
    /\ UNCHANGED <<seq, sent, net, lost, restarted, budget>>

\* The socket reports an error, which ends the request at once.
ReceiveFails(n) ==
    /\ call[n] # NoCall
    /\ Ends(n, [is |-> "error"])
    /\ UNCHANGED <<seq, sent, net, lost, restarted, budget>>

\* Faulty: the response carries its own seq where the request's belongs.
FaultyAnswer(n, d) == [Response(n, d) EXCEPT !.request_seq = seq[n]]

Answer(n, d) == Response(n, d)

\* poll: a request n has a handler for is answered, if the send succeeds.
PollRequest(n, d) ==
    /\ call[n] = NoCall
    /\ d \in net /\ d.to = n /\ d.kind = "request"
    /\ d.type \in Serves[n]
    /\ Sends(n)
    /\ \/ net' = (net \ {d}) \union {Answer(n, d)} /\ UNCHANGED <<lost, budget>>
       \/ net' = net \union {Answer(n, d)} /\ Spend("repeats") /\ UNCHANGED lost
       \/ Take(d) /\ lost' = TRUE
    /\ UNCHANGED <<call, outcome, restarted>>

\* Anything else is dispatched at most; poll's errors end nothing here.
PollOther(n, d) ==
    /\ call[n] = NoCall
    /\ d \in net /\ d.to = n
    /\ ~(d.kind = "request" /\ d.type \in Serves[n])
    /\ Take(d)
    /\ UNCHANGED <<seq, sent, call, outcome, lost, restarted>>

-------------------------------------------------------------------------------
Lose(d) ==
    /\ d \in net
    /\ net' = net \ {d}
    /\ lost' = TRUE
    /\ UNCHANGED <<seq, sent, call, outcome, restarted, budget>>

\* Some other program's datagram on the port.
MakeNoise(n) ==
    /\ Spend("noise")
    /\ net' = net \union {Noise(n)}
    /\ UNCHANGED <<seq, sent, call, outcome, lost, restarted>>

\* The node starts anew, its counter at zero; its port is the same.
Restart(n) ==
    /\ Spend("restarts")
    /\ seq' = [seq EXCEPT ![n] = 0]
    /\ call' = [call EXCEPT ![n] = NoCall]
    /\ outcome' = [outcome EXCEPT ![n] = NoOutcome]
    /\ restarted' = restarted \union {n}
    /\ UNCHANGED <<sent, net, lost>>

Next ==
    \/ \E n \in Nodes, t \in Types : Publish(n, t)
    \/ \E n, m \in Nodes, t \in Types : BeginRequest(n, m, t)
    \/ \E n \in Nodes, d \in net :
          ReceiveWaiting(n, d) \/ PollRequest(n, d) \/ PollOther(n, d)
    \/ \E n \in Nodes : TimesOut(n) \/ ReceiveFails(n) \/ MakeNoise(n) \/ Restart(n)
    \/ \E d \in net : Lose(d)

Spec == Init /\ [][Next]_vars
-------------------------------------------------------------------------------
Seqs == 0..(SeqModulus - 1)
Datagrams ==
    [kind : {"request", "publish"}, type : Types, seq : Seqs, nth : Nat,
     source : Nodes, to : Nodes]
    \union [kind : {"response"}, type : Types, seq : Seqs, nth : Nat,
            source : Nodes, to : Nodes, request_seq : Seqs, answers : Nat]
    \union { Noise(n) : n \in Nodes }
Calls ==
    [state : {"waiting"}, seq : Seqs, nth : Nat, target : Nodes, type : Types]
    \union {NoCall}
Outcomes ==
    [is : {"ok"}, nth : Nat, target : Nodes, answers : Nat, from : Nodes]
    \union [is : {"timeout"}, target : Nodes, type : Types, early : BOOLEAN]
    \union [is : {"error"}] \union {NoOutcome}

\* The type of every variable.
TypeOK ==
    /\ seq \in [Nodes -> Seqs]
    /\ sent \in [Nodes -> Nat]
    /\ call \in [Nodes -> Calls]
    /\ outcome \in [Nodes -> Outcomes]
    /\ net \subseteq Datagrams
    /\ lost \in BOOLEAN
    /\ restarted \subseteq Nodes
    /\ budget \in [{"repeats", "restarts", "noise"} -> Nat]

\* Has n lived on, and its counter not come round?
Counts(n) == n \notin restarted /\ sent[n] <= SeqModulus

(* Correlation (``Reply correlated to a prior request by request_seq'',    *)
(* envelope.rs): what request returns is the response its target made to   *)
(* that very request, whatever was lost, repeated, late or reordered,      *)
(* whoever else restarted, and although neither sender nor target is       *)
(* compared, unless the node itself has restarted or sent 2^32 datagrams.  *)
AnswerMatches ==
    \A n \in Nodes : outcome[n].is = "ok" /\ Counts(n) =>
        outcome[n].answers = outcome[n].nth /\ outcome[n].from = outcome[n].target

(* A request to a node that has a handler for it, and itself asks nobody,  *)
(* does not time out unless a datagram was lost or the deadline was too    *)
(* short (node.rs, request), restarts of either node included.             *)
PatientCallsAnswered ==
    \A n \in Nodes : outcome[n].is = "timeout" /\ ~outcome[n].early /\ ~lost =>
        \/ outcome[n].type \notin Serves[outcome[n].target]
        \/ Asks[outcome[n].target] # {}
===============================================================================
