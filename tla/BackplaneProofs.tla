---------------------------- MODULE BackplaneProofs ----------------------------
(* Proofs about Backplane: type correctness, the correlation of answers     *)
(* with requests, and that a node whose peer is patient gets its answer.    *)
EXTENDS Backplane, TLAPS

BudgetType == [{"repeats", "restarts", "noise"} -> Nat]

(* What a node sends is a well-formed datagram.                            *)
LEMMA DatagramsTyped ==
    ASSUME TypeOK, NEW n \in Nodes, NEW m \in Nodes, NEW t \in Types
    PROVE  /\ Request(n, m, t) \in Datagrams
           /\ Publication(n, m, t) \in Datagrams
           /\ Noise(n) \in Datagrams
  BY DEF TypeOK, Datagrams, Request, Publication, Noise

LEMMA AnswerTyped ==
    ASSUME TypeOK, NEW n \in Nodes, NEW d \in net, d.kind = "request"
    PROVE  Answer(n, d) \in Datagrams
<1>1. d \in [kind : {"request", "publish"}, type : Types, seq : Seqs, nth : Nat,
             source : Nodes, to : Nodes]
  BY DEF TypeOK, Datagrams, Noise
<1>2. ReplyType[d.type] \in Types
  BY <1>1, ReplyTypeAssumption
<1> QED
  BY <1>1, <1>2 DEF TypeOK, Datagrams, Answer, Response

LEMMA SendsTyped ==
    ASSUME TypeOK, NEW n \in Nodes, Sends(n)
    PROVE  seq' \in [Nodes -> Seqs] /\ sent' \in [Nodes -> Nat]
<1>1. NextSeq(seq[n]) \in Seqs
  BY SeqModulusAssumption DEF TypeOK, Seqs, NextSeq
<1> QED
  BY <1>1 DEF TypeOK, Sends

LEMMA SpendTyped ==
    ASSUME TypeOK, NEW what \in {"repeats", "restarts", "noise"}, Spend(what)
    PROVE  budget' \in BudgetType
  BY DEF TypeOK, Spend, BudgetType

LEMMA TakeTyped ==
    ASSUME TypeOK, NEW d \in net, Take(d)
    PROVE  net' \subseteq Datagrams /\ budget' \in BudgetType
  BY SpendTyped DEF TypeOK, Take, BudgetType

LEMMA InitTyped == Init => TypeOK
<1> SUFFICES ASSUME Init PROVE TypeOK
  OBVIOUS
<1>1. 0 \in Seqs /\ NoCall \in Calls /\ NoOutcome \in Outcomes
  BY SeqModulusAssumption DEF Seqs, Calls, Outcomes
<1>2. budget \in [{"repeats", "restarts", "noise"} -> Nat]
  BY BoundsAssumption DEF Init
<1> QED
  BY <1>1, <1>2 DEF Init, TypeOK

LEMMA StepTyped == TypeOK /\ [Next]_vars => TypeOK'
<1> SUFFICES ASSUME TypeOK, [Next]_vars
             PROVE  TypeOK'
  OBVIOUS
<1> USE DEF BudgetType
<1>1. ASSUME NEW n \in Nodes, NEW t \in Types, Publish(n, t)
      PROVE  TypeOK'
  <2>1. net' \subseteq Datagrams
    BY <1>1, DatagramsTyped DEF Publish, TypeOK
  <2> QED
    BY <1>1, <2>1, SendsTyped DEF Publish, TypeOK, Calls, Outcomes
<1>2. ASSUME NEW n \in Nodes, NEW m \in Nodes, NEW t \in Types,
             BeginRequest(n, m, t)
      PROVE  TypeOK'
  <2>1. seq' \in [Nodes -> Seqs] /\ sent' \in [Nodes -> Nat]
    BY <1>2, SendsTyped DEF BeginRequest
  <2>2. net' \subseteq Datagrams
    BY <1>2, DatagramsTyped DEF BeginRequest, TypeOK
  <2>3. [state |-> "waiting", seq |-> seq[n], nth |-> sent[n],
         target |-> m, type |-> t] \in Calls
    BY DEF TypeOK, Calls
  <2>4. call' \in [Nodes -> Calls]
    BY <1>2, <2>3 DEF BeginRequest, TypeOK
  <2>5. [is |-> "error"] \in Outcomes
    BY DEF Outcomes
  <2>6. outcome' \in [Nodes -> Outcomes]
    BY <1>2, <2>5 DEF BeginRequest, TypeOK
  <2> QED
    BY <1>2, <2>1, <2>2, <2>4, <2>6 DEF BeginRequest, TypeOK
<1>3. ASSUME NEW n \in Nodes, NEW d \in net, ReceiveWaiting(n, d)
      PROVE  TypeOK'
  <2>1. net' \subseteq Datagrams /\ budget' \in BudgetType
    BY <1>3, TakeTyped DEF ReceiveWaiting
  <2>2. NoCall \in Calls /\ [is |-> "error"] \in Outcomes
    BY DEF Calls, Outcomes
  <2>3. call' \in [Nodes -> Calls]
    BY <1>3, <2>2 DEF ReceiveWaiting, Ends, TypeOK
  <2>4. outcome' \in [Nodes -> Outcomes]
    <3>1. CASE Matches(n, d)
      <4>1. call[n] \in [state : {"waiting"}, seq : Seqs, nth : Nat,
                         target : Nodes, type : Types]
        BY <1>3 DEF ReceiveWaiting, TypeOK, Calls
      <4>2. d \in [kind : {"response"}, type : Types, seq : Seqs, nth : Nat,
                   source : Nodes, to : Nodes, request_seq : Seqs, answers : Nat]
        BY <3>1 DEF Matches, TypeOK, Datagrams, Noise
      <4>3. [is |-> "ok", nth |-> call[n].nth, target |-> call[n].target,
             answers |-> d.answers, from |-> d.source] \in Outcomes
        BY <4>1, <4>2 DEF Outcomes
      <4>4. d.kind # "noise"
        BY <3>1 DEF Matches
      <4> QED
        BY <1>3, <3>1, <4>3, <4>4 DEF ReceiveWaiting, Ends, TypeOK
    <3>2. CASE ~Matches(n, d)
      BY <1>3, <2>2, <3>2 DEF ReceiveWaiting, Ends, TypeOK
    <3> QED
      BY <3>1, <3>2
  <2> QED
    BY <1>3, <2>1, <2>3, <2>4 DEF ReceiveWaiting, TypeOK
<1>4. ASSUME NEW n \in Nodes, NEW d \in net, PollRequest(n, d)
      PROVE  TypeOK'
  <2>1. seq' \in [Nodes -> Seqs] /\ sent' \in [Nodes -> Nat]
    BY <1>4, SendsTyped DEF PollRequest
  <2>2. Answer(n, d) \in Datagrams
    BY <1>4, AnswerTyped DEF PollRequest
  <2>3. net' \subseteq Datagrams /\ budget' \in BudgetType
    BY <1>4, <2>2, TakeTyped, SpendTyped DEF PollRequest, TypeOK
  <2> QED
    BY <1>4, <2>1, <2>3 DEF PollRequest, TypeOK
<1>5. ASSUME NEW n \in Nodes, NEW d \in net, PollOther(n, d)
      PROVE  TypeOK'
  BY <1>5, TakeTyped DEF PollOther, TypeOK
<1>6. ASSUME NEW n \in Nodes, TimesOut(n)
      PROVE  TypeOK'
  <2>1. call[n] \in [state : {"waiting"}, seq : Seqs, nth : Nat,
                     target : Nodes, type : Types]
    BY <1>6 DEF TimesOut, TypeOK, Calls
  <2>2. [is |-> "timeout", target |-> call[n].target, type |-> call[n].type,
         early |-> UnderWay(n)]
            \in Outcomes
    BY <2>1 DEF Outcomes, UnderWay
  <2>3. NoCall \in Calls
    BY DEF Calls
  <2> QED
    BY <1>6, <2>2, <2>3 DEF TimesOut, Ends, TypeOK
<1>7. ASSUME NEW n \in Nodes, ReceiveFails(n)
      PROVE  TypeOK'
  <2>1. NoCall \in Calls /\ [is |-> "error"] \in Outcomes
    BY DEF Calls, Outcomes
  <2> QED
    BY <1>7, <2>1 DEF ReceiveFails, Ends, TypeOK
<1>8. ASSUME NEW n \in Nodes, MakeNoise(n)
      PROVE  TypeOK'
  <2>1. Noise(n) \in Datagrams
    BY DEF Datagrams
  <2> QED
    BY <1>8, <2>1, SpendTyped DEF MakeNoise, TypeOK
<1>9. ASSUME NEW n \in Nodes, Restart(n)
      PROVE  TypeOK'
  <2>1. NoCall \in Calls /\ NoOutcome \in Outcomes /\ 0 \in Seqs
    BY SeqModulusAssumption DEF Calls, Outcomes, Seqs
  <2> QED
    BY <1>9, <2>1, SpendTyped DEF Restart, TypeOK
<1>10. ASSUME NEW d \in net, Lose(d)
      PROVE  TypeOK'
  BY <1>10 DEF Lose, TypeOK
<1>11. CASE UNCHANGED vars
  BY <1>11 DEF vars, TypeOK
<1> QED
  BY <1>1, <1>2, <1>3, <1>4, <1>5, <1>6, <1>7, <1>8, <1>9, <1>10, <1>11
  DEF Next

(* Every variable keeps its type, whatever is lost, repeated or restarted: *)
(* node.rs never holds a sequence number outside its counter's width.      *)
THEOREM BackplaneTypeCorrect == Spec => []TypeOK
  BY InitTyped, StepTyped, PTL DEF Spec

-------------------------------------------------------------------------------
(* While a node has neither restarted nor come round with its counter, the *)
(* seq of a datagram is its place in the node's history ...                *)
Counting ==
    \A n \in Nodes \ restarted : sent[n] < SeqModulus => seq[n] = sent[n]

\* ... so is the one a response refers to, and both were sent ...
Past(n) == { k \in Nat : k < sent[n] }
Dated ==
    \A d \in net :
        /\ d.kind = "request" =>
              /\ d.source \in Nodes /\ d.nth \in Past(d.source)
              /\ Counts(d.source) => d.seq = d.nth
        /\ d.kind = "response" =>
              /\ d.to \in Nodes /\ d.answers \in Past(d.to)
              /\ Counts(d.to) => d.request_seq = d.answers

\* ... and only the target of the call n waits in ever answers that call.
Calling ==
    \A n \in Nodes : call[n] # NoCall =>
        /\ call[n].nth \in Past(n)
        /\ Counts(n) => call[n].seq = call[n].nth
        /\ \A d \in net :
              /\ d.kind = "request" /\ d.source = n /\ d.nth = call[n].nth =>
                    d.to = call[n].target
              /\ d.kind = "response" /\ d.to = n /\ d.answers = call[n].nth =>
                    d.source = call[n].target

CInv == TypeOK /\ Counting /\ Dated /\ Calling /\ AnswerMatches

LEMMA Correlated ==
    ASSUME Dated, Calling, NEW n \in Nodes, NEW d \in net, d.to = n, Counts(n),
           call[n] # NoCall, Matches(n, d)
    PROVE  d.answers = call[n].nth /\ d.source = call[n].target
  BY DEF Dated, Calling, Matches

LEMMA SendsCounts ==
    ASSUME TypeOK, Counting, NEW n \in Nodes, Sends(n), UNCHANGED restarted
    PROVE  /\ Counting'
           /\ \A m \in Nodes : \A k \in Past(m) : k \in Past(m)'
           /\ \A m \in Nodes : Counts(m)' => Counts(m)
           /\ sent[n] \in Past(n)' /\ sent[n] \notin Past(n)
           /\ Counts(n)' => seq[n] = sent[n]
<1>1. /\ seq' = [seq EXCEPT ![n] = NextSeq(@)]
      /\ sent' = [sent EXCEPT ![n] = @ + 1]
      /\ sent \in [Nodes -> Nat]
      /\ seq \in [Nodes -> Seqs]
  BY DEF Sends, TypeOK
<1>2. ASSUME NEW m \in Nodes \ restarted, sent'[m] < SeqModulus
      PROVE  seq'[m] = sent'[m]
  BY <1>1, <1>2, SeqModulusAssumption DEF Counting, NextSeq
<1>3. Counting'
  BY <1>2 DEF Counting
<1>4. \A m \in Nodes : Counts(m)' => Counts(m)
  BY <1>1, SeqModulusAssumption DEF Counts
<1>5. Counts(n)' => seq[n] = sent[n]
  BY <1>1, SeqModulusAssumption DEF Counts, Counting
<1> QED
  BY <1>1, <1>3, <1>4, <1>5 DEF Past

\* What a step that sends nothing may do to the network.
LEMMA Shrinks ==
    ASSUME CInv, net' \subseteq net \union { Noise(n) : n \in Nodes },
           UNCHANGED <<seq, sent, restarted>>,
           \A n \in Nodes : call'[n] = call[n] \/ call'[n] = NoCall
    PROVE  Counting' /\ Dated' /\ Calling'
<1>1. \A n \in Nodes : Past(n)' = Past(n) /\ Counts(n)' = Counts(n)
  BY DEF Past, Counts
<1>2. \A d \in net' : d \in net \/ d.kind = "noise"
  BY DEF Noise
<1>3. Counting'
  BY DEF CInv, Counting
<1>4. Dated'
  BY <1>1, <1>2 DEF CInv, Dated
<1>5. Calling'
  BY <1>1, <1>2 DEF CInv, Calling
<1> QED
  BY <1>3, <1>4, <1>5

\* A node's conduct can cost it its claim to a match but never restore one.
LEMMA MatchesStay ==
    ASSUME AnswerMatches, UNCHANGED outcome, \A n \in Nodes : Counts(n)' => Counts(n)
    PROVE  AnswerMatches'
  BY DEF AnswerMatches

LEMMA InitCorrelated == Init => CInv
<1> SUFFICES ASSUME Init PROVE CInv
  OBVIOUS
<1>1. TypeOK
  BY InitTyped
<1>2. Counting /\ Dated /\ Calling
  BY DEF Init, Counting, Dated, Calling
<1>3. AnswerMatches
  BY DEF Init, AnswerMatches, NoOutcome
<1> QED
  BY <1>1, <1>2, <1>3 DEF CInv

LEMMA TakeShrinks ==
    ASSUME NEW d \in net, Take(d)
    PROVE  net' \subseteq net
  BY DEF Take

LEMMA StepCorrelated == CInv /\ [Next]_vars => CInv'
<1> SUFFICES ASSUME CInv, [Next]_vars
             PROVE  CInv'
  OBVIOUS
<1>0. TypeOK /\ Counting /\ Dated /\ Calling /\ AnswerMatches
  BY DEF CInv
<1>t. TypeOK'
  BY <1>0, StepTyped
<1>1. ASSUME NEW n \in Nodes, NEW t \in Types, Publish(n, t)
      PROVE  CInv'
  <2>1. /\ Sends(n)
        /\ \A d \in net' : d \in net \/ d.kind = "publish"
        /\ UNCHANGED <<call, outcome, restarted>>
    BY <1>1 DEF Publish, Publication
  <2>2. /\ Counting' /\ \A m \in Nodes : \A k \in Past(m) : k \in Past(m)'
        /\ \A m \in Nodes : Counts(m)' => Counts(m)
    BY <1>0, <2>1, SendsCounts
  <2>3. Dated'
    BY <1>0, <2>1, <2>2 DEF Dated
  <2>4. Calling'
    BY <1>0, <2>1, <2>2 DEF Calling
  <2> QED
    BY <1>0, <1>t, <2>1, <2>2, <2>3, <2>4, MatchesStay DEF CInv
<1>2. ASSUME NEW n \in Nodes, NEW m \in Nodes, NEW t \in Types,
             BeginRequest(n, m, t)
      PROVE  CInv'
  <2>1. Sends(n) /\ UNCHANGED restarted /\ call[n] = NoCall
    BY <1>2 DEF BeginRequest
  <2>2. /\ Counting' /\ \A i \in Nodes : \A k \in Past(i) : k \in Past(i)'
        /\ \A i \in Nodes : Counts(i)' => Counts(i)
        /\ sent[n] \in Past(n)' /\ sent[n] \notin Past(n)
        /\ Counts(n)' => seq[n] = sent[n]
    BY <1>0, <2>1, SendsCounts
  <2>4. CASE /\ net' = net \union {Request(n, m, t)}
             /\ call' = [call EXCEPT ![n] =
                   [state |-> "waiting", seq |-> seq[n], nth |-> sent[n],
                    target |-> m, type |-> t]]
             /\ UNCHANGED outcome
    <3>1. /\ Request(n, m, t).kind = "request" /\ Request(n, m, t).source = n
          /\ Request(n, m, t).nth = sent[n] /\ Request(n, m, t).seq = seq[n]
          /\ Request(n, m, t).to = m
      BY DEF Request
    <3>2. Dated'
      BY <1>0, <2>2, <2>4, <3>1 DEF Dated
    <3>3. /\ call'[n].nth = sent[n] /\ call'[n].seq = seq[n]
          /\ call'[n].target = m
          /\ \A i \in Nodes \ {n} : call'[i] = call[i]
      BY <1>0, <2>4 DEF TypeOK
    <3>4. \A d \in net :
              /\ ~(d.kind = "request" /\ d.source = n /\ d.nth = sent[n])
              /\ ~(d.kind = "response" /\ d.to = n /\ d.answers = sent[n])
      BY <1>0, <2>2 DEF Dated
    <3>5. ASSUME NEW i \in Nodes, call'[i] # NoCall
          PROVE  /\ call'[i].nth \in Past(i)'
                 /\ Counts(i)' => call'[i].seq = call'[i].nth
                 /\ \A d \in net' :
                       /\ d.kind = "request" /\ d.source = i /\ d.nth = call'[i].nth =>
                             d.to = call'[i].target
                       /\ d.kind = "response" /\ d.to = i /\ d.answers = call'[i].nth =>
                             d.source = call'[i].target
      <4>1. CASE i = n
        BY <2>2, <2>4, <3>1, <3>3, <3>4, <4>1
      <4>2. CASE i # n
        BY <1>0, <2>2, <2>4, <3>1, <3>3, <3>5, <4>2 DEF Calling
      <4> QED
        BY <4>1, <4>2
    <3>6. Calling'
      BY <3>5 DEF Calling
    <3> QED
      BY <1>0, <1>t, <2>2, <2>4, <3>2, <3>6, MatchesStay DEF CInv
  <2>5. CASE /\ outcome' = [outcome EXCEPT ![n] = [is |-> "error"]]
             /\ UNCHANGED <<call, net>>
    <3>1. Dated' /\ Calling'
      BY <1>0, <2>2, <2>5 DEF Dated, Calling
    <3>2. AnswerMatches'
      BY <1>0, <2>2, <2>5 DEF AnswerMatches, TypeOK
    <3> QED
      BY <1>t, <2>2, <3>1, <3>2 DEF CInv
  <2> QED
    BY <1>2, <2>4, <2>5 DEF BeginRequest
<1>3. ASSUME NEW n \in Nodes, NEW d \in net, ReceiveWaiting(n, d)
      PROVE  CInv'
  <2>1. net' \subseteq net /\ UNCHANGED <<seq, sent, restarted>>
    BY <1>3, TakeShrinks DEF ReceiveWaiting
  <2>2. \A i \in Nodes : call'[i] = call[i] \/ call'[i] = NoCall
    BY <1>0, <1>3 DEF ReceiveWaiting, Ends, TypeOK
  <2>3. \A i \in Nodes : Counts(i)' = Counts(i)
    BY <2>1 DEF Counts
  <2>4. AnswerMatches'
    <3>1. CASE Matches(n, d)
      <4>1. Counts(n) => d.answers = call[n].nth /\ d.source = call[n].target
        BY <1>0, <1>3, <3>1, Correlated DEF ReceiveWaiting
      <4>2. d.kind # "noise"
        BY <3>1 DEF Matches
      <4>3. outcome' = [outcome EXCEPT ![n] =
                [is |-> "ok", nth |-> call[n].nth, target |-> call[n].target,
                 answers |-> d.answers, from |-> d.source]]
        BY <1>3, <3>1, <4>2 DEF ReceiveWaiting, Ends
      <4> QED
        BY <1>0, <2>3, <4>1, <4>3 DEF AnswerMatches, TypeOK
    <3>2. CASE ~Matches(n, d)
      BY <1>0, <1>3, <2>3, <3>2 DEF ReceiveWaiting, Ends, AnswerMatches, TypeOK
    <3> QED
      BY <3>1, <3>2
  <2> QED
    BY <1>t, <2>1, <2>2, <2>4, Shrinks DEF CInv
<1>4. ASSUME NEW n \in Nodes, NEW d \in net, PollRequest(n, d)
      PROVE  CInv'
  <2>1. /\ Sends(n) /\ d.kind = "request" /\ d.to = n
        /\ UNCHANGED <<call, outcome, restarted>>
        /\ net' \subseteq net \union {Answer(n, d)}
    BY <1>4, TakeShrinks DEF PollRequest
  <2>2. /\ Counting' /\ \A i \in Nodes : \A k \in Past(i) : k \in Past(i)'
        /\ \A i \in Nodes : Counts(i)' => Counts(i)
    BY <1>0, <2>1, SendsCounts
  <2>3. /\ Answer(n, d).kind = "response" /\ Answer(n, d).to = d.source
        /\ Answer(n, d).source = d.to
        /\ Answer(n, d).answers = d.nth /\ Answer(n, d).request_seq = d.seq
    BY <2>1 DEF Answer, Response
  <2>4. /\ d.source \in Nodes /\ d.nth \in Past(d.source)
        /\ Counts(d.source) => d.seq = d.nth
    BY <1>0, <2>1 DEF Dated
  <2>5. Dated'
    BY <1>0, <2>1, <2>2, <2>3, <2>4 DEF Dated
  <2>6. Calling'
    BY <1>0, <2>1, <2>2, <2>3, <2>4 DEF Calling
  <2> QED
    BY <1>0, <1>t, <2>1, <2>2, <2>5, <2>6, MatchesStay DEF CInv
<1>5. ASSUME NEW n \in Nodes, NEW d \in net, PollOther(n, d)
      PROVE  CInv'
  <2>1. net' \subseteq net /\ UNCHANGED <<seq, sent, call, outcome, restarted>>
    BY <1>5, TakeShrinks DEF PollOther
  <2> QED
    BY <1>0, <1>t, <2>1, Shrinks DEF CInv, AnswerMatches, Counts
<1>6. ASSUME NEW n \in Nodes, TimesOut(n)
      PROVE  CInv'
  <2>1. /\ UNCHANGED <<seq, sent, net, restarted>>
        /\ \A i \in Nodes : call'[i] = call[i] \/ call'[i] = NoCall
        /\ \A i \in Nodes : outcome'[i] = outcome[i] \/ outcome'[i].is = "timeout"
    BY <1>0, <1>6 DEF TimesOut, Ends, TypeOK
  <2> QED
    BY <1>0, <1>t, <2>1, Shrinks DEF CInv, AnswerMatches, Counts
<1>7. ASSUME NEW n \in Nodes, ReceiveFails(n)
      PROVE  CInv'
  <2>1. /\ UNCHANGED <<seq, sent, net, restarted>>
        /\ \A i \in Nodes : call'[i] = call[i] \/ call'[i] = NoCall
        /\ \A i \in Nodes : outcome'[i] = outcome[i] \/ outcome'[i].is = "error"
    BY <1>0, <1>7 DEF ReceiveFails, Ends, TypeOK
  <2> QED
    BY <1>0, <1>t, <2>1, Shrinks DEF CInv, AnswerMatches, Counts
<1>8. ASSUME NEW n \in Nodes, MakeNoise(n)
      PROVE  CInv'
  <2>1. /\ net' = net \union {Noise(n)}
        /\ UNCHANGED <<seq, sent, call, outcome, restarted>>
    BY <1>8 DEF MakeNoise
  <2> QED
    BY <1>0, <1>t, <2>1, Shrinks DEF CInv, AnswerMatches, Counts
<1>9. ASSUME NEW n \in Nodes, Restart(n)
      PROVE  CInv'
  <2>1. /\ UNCHANGED <<sent, net>> /\ restarted' = restarted \union {n}
        /\ \A i \in Nodes \ {n} :
              seq'[i] = seq[i] /\ call'[i] = call[i] /\ outcome'[i] = outcome[i]
        /\ call'[n] = NoCall
    BY <1>0, <1>9 DEF Restart, TypeOK
  <2>2. /\ ~Counts(n)'
        /\ \A i \in Nodes : Past(i)' = Past(i) /\ (Counts(i)' => Counts(i))
    BY <2>1 DEF Counts, Past
  <2>3. Counting'
    BY <1>0, <2>1 DEF Counting
  <2>4. Dated'
    BY <1>0, <2>1, <2>2 DEF Dated
  <2>5. Calling'
    BY <1>0, <2>1, <2>2 DEF Calling
  <2>6. AnswerMatches'
    BY <1>0, <2>1, <2>2 DEF AnswerMatches
  <2> QED
    BY <1>t, <2>3, <2>4, <2>5, <2>6 DEF CInv
<1>10. ASSUME NEW d \in net, Lose(d)
      PROVE  CInv'
  <2>1. net' \subseteq net /\ UNCHANGED <<seq, sent, call, outcome, restarted>>
    BY <1>10 DEF Lose
  <2> QED
    BY <1>0, <1>t, <2>1, Shrinks DEF CInv, AnswerMatches, Counts
<1>11. CASE UNCHANGED vars
  <2>1. UNCHANGED <<seq, sent, call, outcome, net, restarted>>
    BY <1>11 DEF vars
  <2> QED
    BY <1>0, <1>t, <2>1, Shrinks DEF CInv, AnswerMatches, Counts
<1> QED
  BY <1>1, <1>2, <1>3, <1>4, <1>5, <1>6, <1>7, <1>8, <1>9, <1>10, <1>11
  DEF Next

(* ``Reply correlated to a prior request by request_seq'' (envelope.rs):   *)
(* what request returns is its target's response to that very request,     *)
(* whatever the network loses, repeats or reorders and whoever else        *)
(* restarts, while the node has not restarted nor its counter come round.  *)
THEOREM BackplaneAnswerMatches == Spec => []AnswerMatches
<1>1. Init => CInv
  BY InitCorrelated
<1>2. CInv /\ [Next]_vars => CInv'
  BY StepCorrelated
<1>3. CInv => AnswerMatches
  BY DEF CInv
<1> QED
  BY <1>1, <1>2, <1>3, PTL DEF Spec
-------------------------------------------------------------------------------
(* A request that a node serves leaves either itself or its answer on the  *)
(* way until the call has ended, unless one of them is lost or the node it *)
(* is for was itself waiting: then its answer is dropped (node.rs,         *)
(* request), which is why the servers here ask nobody.                     *)
AsksNobody == \A n \in Nodes : Asks[n] = {} => call[n] = NoCall

\* The question and the answer that are under way are those of the call.
Question(d, n) == d.kind = "request" /\ d.source = n /\ d.nth = call[n].nth
Reply(d, n) == d.kind = "response" /\ d.to = n /\ d.answers = call[n].nth

OfTheCall(n) ==
    \A d \in net :
        /\ Question(d, n) =>
              d.seq = call[n].seq /\ d.type = call[n].type /\ d.to = call[n].target
        /\ Reply(d, n) => d.request_seq = call[n].seq /\ d.type = ReplyType[call[n].type]

Served(n) == call[n].type \in Serves[call[n].target] /\ Asks[call[n].target] = {}

Waiting ==
    \A n \in Nodes : call[n] # NoCall =>
        OfTheCall(n) /\ (Served(n) /\ ~lost => UnderWay(n))

PInv == CInv /\ AsksNobody /\ Waiting /\ PatientCallsAnswered

LEMMA InitPatient == Init => PInv
BY InitCorrelated DEF Init, PInv, AsksNobody, Waiting, PatientCallsAnswered, NoOutcome

(* What a step does to the calls that wait on, and to how those that ended *)
(* are remembered, decides whether it keeps the invariant.                 *)
LEMMA PatientStep ==
    ASSUME PInv, CInv', lost => lost',
           \A n \in Nodes : call'[n] = NoCall \/ call'[n] = call[n],
           \A n \in Nodes : outcome'[n] = outcome[n] \/ outcome'[n].is # "timeout",
           \A n \in Nodes : call'[n] # NoCall => OfTheCall(n)',
           \A n \in Nodes : call'[n] # NoCall /\ ~lost' /\ Served(n) /\ UnderWay(n)
                               => UnderWay(n)'
    PROVE  PInv'
<1>1. AsksNobody'
  BY DEF PInv, AsksNobody
<1>2. Waiting'
  <2>1. ASSUME NEW n \in Nodes, call'[n] # NoCall, Served(n)', ~ lost'
        PROVE  UnderWay(n)'
    <3>1. call[n] # NoCall /\ Served(n) /\ ~ lost
      BY <2>1 DEF Served
    <3>. QED BY <2>1, <3>1 DEF PInv, Waiting
  <2>. QED BY <2>1 DEF Waiting
<1>3. PatientCallsAnswered'
  BY DEF PInv, PatientCallsAnswered
<1>. QED BY <1>1, <1>2, <1>3 DEF PInv

\* A step that puts no question and no answer of the call on the way.
LEMMA NothingNew ==
    ASSUME PInv, NEW n \in Nodes, call'[n] = call[n], call[n] # NoCall,
           \A d \in net' : d \in net \/ d.kind \notin {"request", "response"}
    PROVE  OfTheCall(n)'
<1>1. OfTheCall(n)
  BY DEF PInv, Waiting
<1>. QED BY <1>1 DEF OfTheCall, Question, Reply

LEMMA StaysUnderWay ==
    ASSUME NEW n \in Nodes, call'[n] = call[n], UnderWay(n),
           \A d \in net : d \in net' \/ ~ (Question(d, n) \/ Reply(d, n))
    PROVE  UnderWay(n)'
BY DEF UnderWay, Question, Reply

LEMMA StepPatient == PInv /\ [Next]_vars => PInv'
<1>. SUFFICES ASSUME PInv, [Next]_vars PROVE PInv'
  OBVIOUS
<1>0. /\ CInv' /\ TypeOK /\ Dated /\ AsksNobody /\ Waiting
      /\ call \in [Nodes -> Calls] /\ outcome \in [Nodes -> Outcomes]
  BY StepCorrelated DEF PInv, CInv, TypeOK
<1>1. ASSUME NEW n \in Nodes, NEW t \in Types, Publish(n, t)
      PROVE  PInv'
  <2>1. /\ UNCHANGED <<call, outcome, lost>> /\ net \subseteq net'
        /\ \A d \in net' : d \in net \/ d.kind = "publish"
    BY <1>1 DEF Publish, Publication
  <2>. QED BY <1>0, <2>1, NothingNew, StaysUnderWay, PatientStep
<1>2. ASSUME NEW n \in Nodes, NEW m \in Nodes, NEW t \in Types, BeginRequest(n, m, t)
      PROVE  PInv'
  <2>1. UNCHANGED lost /\ call[n] = NoCall /\ Asks[n] # {}
    BY <1>2 DEF BeginRequest
  <2>2. CASE outcome' = [outcome EXCEPT ![n] = [is |-> "error"]] /\ UNCHANGED <<call, net>>
    <3>1. \A i \in Nodes : outcome'[i] = outcome[i] \/ outcome'[i].is # "timeout"
      BY <1>0, <2>2
    <3>. QED BY <1>0, <2>1, <2>2, <3>1, NothingNew, StaysUnderWay, PatientStep
  <2>3. CASE /\ net' = net \union {Request(n, m, t)}
             /\ call' = [call EXCEPT ![n] =
                   [state |-> "waiting", seq |-> seq[n], nth |-> sent[n],
                    target |-> m, type |-> t]]
             /\ UNCHANGED outcome
    <3>. DEFINE q == Request(n, m, t)
    <3>1. /\ q.kind = "request" /\ q.source = n /\ q.nth = sent[n]
          /\ q.seq = seq[n] /\ q.to = m /\ q.type = t
      BY DEF Request
    <3>2. /\ call'[n].nth = sent[n] /\ call'[n].seq = seq[n]
          /\ call'[n].target = m /\ call'[n].type = t
          /\ \A i \in Nodes \ {n} : call'[i] = call[i]
      BY <1>0, <2>3
    <3>. HIDE DEF q
    <3>3. \A d \in net :
              /\ ~(d.kind = "request" /\ d.source = n /\ d.nth = sent[n])
              /\ ~(d.kind = "response" /\ d.to = n /\ d.answers = sent[n])
      BY <1>0 DEF Dated, Past, TypeOK
    <3>4. net' = net \union {q}
      BY <2>3 DEF q
    <3>5. OfTheCall(n)' /\ UnderWay(n)'
      BY <3>1, <3>2, <3>3, <3>4 DEF OfTheCall, UnderWay, Question, Reply
    <3>6. ASSUME NEW i \in Nodes, i # n, call'[i] # NoCall
          PROVE  OfTheCall(i)' /\ (Served(i)' /\ ~lost' => UnderWay(i)')
      <4>1. /\ call'[i] = call[i]
            /\ OfTheCall(i) /\ (Served(i) /\ ~lost => UnderWay(i))
        BY <1>0, <3>2, <3>6 DEF Waiting
      <4>2. OfTheCall(i)'
        BY <3>1, <3>4, <3>6, <4>1 DEF OfTheCall, Question, Reply
      <4>3. UnderWay(i) => UnderWay(i)'
        BY <3>4, <4>1, StaysUnderWay
      <4>. QED BY <2>1, <4>1, <4>2, <4>3 DEF Served
    <3>7. Waiting'
      BY <3>5, <3>6 DEF Waiting
    <3>8. AsksNobody'
      BY <1>0, <2>1, <3>2 DEF AsksNobody
    <3>9. PatientCallsAnswered'
      BY <2>1, <2>3 DEF PInv, PatientCallsAnswered
    <3>. QED BY <1>0, <3>7, <3>8, <3>9 DEF PInv
  <2>. QED BY <1>2, <2>2, <2>3 DEF BeginRequest
<1>3. ASSUME NEW n \in Nodes, NEW d \in net, ReceiveWaiting(n, d)
      PROVE  PInv'
  <2>1. /\ UNCHANGED lost /\ call[n] # NoCall /\ d.to = n
        /\ net' \subseteq net /\ net \ {d} \subseteq net'
    BY <1>3 DEF ReceiveWaiting, Take
  <2>2. /\ \A i \in Nodes : call'[i] = NoCall \/ call'[i] = call[i]
        /\ \A i \in Nodes : outcome'[i] = outcome[i] \/ outcome'[i].is # "timeout"
        /\ call'[n] # NoCall => ~ Matches(n, d)
    BY <1>0, <1>3 DEF ReceiveWaiting, Ends
  <2>3. ASSUME NEW i \in Nodes, call'[i] # NoCall, Served(i)
        PROVE  ~ (Question(d, i) \/ Reply(d, i))
    <3>1. call[i] # NoCall /\ OfTheCall(i)
      BY <1>0, <2>2, <2>3 DEF Waiting
    <3>2. ~ Question(d, i)
      BY <1>0, <2>1, <2>3, <3>1 DEF OfTheCall, Served, AsksNobody
    <3>3. ~ Reply(d, i)
      BY <2>1, <2>2, <2>3, <3>1 DEF OfTheCall, Reply, Matches
    <3>. QED BY <3>2, <3>3
  <2>4. \A i \in Nodes : call'[i] # NoCall => OfTheCall(i)'
    BY <2>1, <2>2, NothingNew
  <2>5. ASSUME NEW i \in Nodes, call'[i] # NoCall, ~lost', Served(i), UnderWay(i)
        PROVE  UnderWay(i)'
    <3>1. call'[i] = call[i] /\ ~ (Question(d, i) \/ Reply(d, i))
      BY <2>2, <2>3, <2>5
    <3>. QED BY <2>1, <2>5, <3>1, StaysUnderWay
  <2>. QED BY <1>0, <2>1, <2>2, <2>4, <2>5, PatientStep
<1>4. ASSUME NEW n \in Nodes, NEW d \in net, PollRequest(n, d)
      PROVE  PInv'
  <2>. DEFINE a == Answer(n, d)
  <2>1. /\ UNCHANGED <<call, outcome>> /\ d.kind = "request" /\ d.to = n
        /\ \/ lost' = TRUE /\ net' \subseteq net
           \/ UNCHANGED lost /\ a \in net' /\ net \ {d} \subseteq net'
                             /\ net' \subseteq net \union {a}
        /\ lost \in BOOLEAN
    BY <1>0, <1>4 DEF PollRequest, Take, TypeOK
  <2>2. /\ a.kind = "response" /\ a.to = d.source /\ a.answers = d.nth
        /\ a.request_seq = d.seq /\ a.type = ReplyType[d.type]
    BY DEF Answer, Response
  <2>. HIDE DEF a
  <2>3. ASSUME NEW i \in Nodes
        PROVE  Reply(a, i) <=> Question(d, i)
    BY <2>1, <2>2 DEF Reply, Question
  <2>4. ASSUME NEW i \in Nodes, call'[i] # NoCall
        PROVE  OfTheCall(i)'
    <3>1. call'[i] = call[i] /\ OfTheCall(i)
      BY <1>0, <2>1, <2>4 DEF Waiting
    <3>2. \A e \in net' : e \in net \/ e = a
      BY <2>1
    <3>3. ~ Question(a, i)
      BY <2>2 DEF Question
    <3>4. Reply(a, i) => a.request_seq = call[i].seq /\ a.type = ReplyType[call[i].type]
      BY <2>2, <2>3, <3>1 DEF OfTheCall
    <3>. QED BY <3>1, <3>2, <3>3, <3>4 DEF OfTheCall, Question, Reply
  <2>5. ASSUME NEW i \in Nodes, call'[i] # NoCall, ~lost', UnderWay(i)
        PROVE  UnderWay(i)'
    <3>1. PICK e \in net : Question(e, i) \/ Reply(e, i)
      BY <2>5 DEF UnderWay, Question, Reply
    <3>2. a \in net' /\ net \ {d} \subseteq net' /\ call'[i] = call[i]
      BY <2>1, <2>5
    <3>3. e = d => Reply(a, i)
      BY <2>1, <2>3, <3>1 DEF Reply
    <3>. QED BY <3>1, <3>2, <3>3 DEF UnderWay, Question, Reply
  <2>. QED BY <1>0, <2>1, <2>4, <2>5, PatientStep
<1>5. ASSUME NEW n \in Nodes, NEW d \in net, PollOther(n, d)
      PROVE  PInv'
  <2>1. /\ UNCHANGED <<call, outcome, lost>> /\ call[n] = NoCall /\ d.to = n
        /\ ~(d.kind = "request" /\ d.type \in Serves[n])
        /\ net' \subseteq net /\ net \ {d} \subseteq net'
    BY <1>5 DEF PollOther, Take
  <2>2. ASSUME NEW i \in Nodes, call'[i] # NoCall, Served(i)
        PROVE  ~ (Question(d, i) \/ Reply(d, i))
    <3>1. call[i] # NoCall /\ OfTheCall(i)
      BY <1>0, <2>1, <2>2 DEF Waiting
    <3>2. ~ Question(d, i)
      BY <2>1, <2>2, <3>1 DEF OfTheCall, Served, Question
    <3>3. ~ Reply(d, i)
      BY <2>1, <3>1 DEF Reply
    <3>. QED BY <3>2, <3>3
  <2>3. \A i \in Nodes : call'[i] # NoCall => OfTheCall(i)'
    BY <2>1, NothingNew
  <2>4. ASSUME NEW i \in Nodes, call'[i] # NoCall, Served(i), UnderWay(i)
        PROVE  UnderWay(i)'
    BY <2>1, <2>2, <2>4, StaysUnderWay
  <2>. QED BY <1>0, <2>1, <2>3, <2>4, PatientStep
<1>6. ASSUME NEW n \in Nodes, TimesOut(n)
      PROVE  PInv'
  <2>1. /\ UNCHANGED <<net, lost>> /\ call[n] # NoCall
        /\ \A i \in Nodes : call'[i] = NoCall \/ call'[i] = call[i]
        /\ \A i \in Nodes \ {n} : outcome'[i] = outcome[i]
        /\ outcome'[n].target = call[n].target /\ outcome'[n].type = call[n].type
        /\ outcome'[n].early = UnderWay(n)
    BY <1>0, <1>6 DEF TimesOut, Ends
  <2>2. AsksNobody'
    BY <1>0, <2>1 DEF AsksNobody
  <2>3. ASSUME NEW i \in Nodes, call'[i] # NoCall
        PROVE  OfTheCall(i)' /\ (Served(i)' /\ ~lost' => UnderWay(i)')
    <3>1. /\ call[i] # NoCall /\ call'[i] = call[i]
          /\ OfTheCall(i) /\ (Served(i) /\ ~lost => UnderWay(i))
      BY <1>0, <2>1, <2>3 DEF Waiting
    <3>2. OfTheCall(i)'
      BY <2>1, <3>1, NothingNew
    <3>3. UnderWay(i) => UnderWay(i)'
      BY <2>1, <3>1, StaysUnderWay
    <3>. QED BY <2>1, <3>1, <3>2, <3>3 DEF Served
  <2>4. Waiting'
    BY <2>3 DEF Waiting
  <2>5. ~ UnderWay(n) /\ ~ lost => ~ Served(n)
    BY <1>0, <2>1 DEF Waiting
  <2>6. PatientCallsAnswered'
    BY <2>1, <2>5 DEF PInv, PatientCallsAnswered, Served
  <2>. QED BY <1>0, <2>2, <2>4, <2>6 DEF PInv
<1>7. ASSUME NEW n \in Nodes, ReceiveFails(n)
      PROVE  PInv'
  <2>1. /\ UNCHANGED <<net, lost>>
        /\ \A i \in Nodes : call'[i] = NoCall \/ call'[i] = call[i]
        /\ \A i \in Nodes : outcome'[i] = outcome[i] \/ outcome'[i].is # "timeout"
    BY <1>0, <1>7 DEF ReceiveFails, Ends
  <2>. QED BY <1>0, <2>1, NothingNew, StaysUnderWay, PatientStep
<1>8. ASSUME NEW n \in Nodes, MakeNoise(n)
      PROVE  PInv'
  <2>1. /\ UNCHANGED <<call, outcome, lost>> /\ net \subseteq net'
        /\ \A d \in net' : d \in net \/ d.kind = "noise"
    BY <1>8 DEF MakeNoise, Noise
  <2>. QED BY <1>0, <2>1, NothingNew, StaysUnderWay, PatientStep
<1>9. ASSUME NEW n \in Nodes, Restart(n)
      PROVE  PInv'
  <2>1. /\ UNCHANGED <<net, lost>>
        /\ \A i \in Nodes : call'[i] = NoCall \/ call'[i] = call[i]
        /\ \A i \in Nodes : outcome'[i] = outcome[i] \/ outcome'[i].is # "timeout"
    BY <1>0, <1>9 DEF Restart, NoOutcome
  <2>. QED BY <1>0, <2>1, NothingNew, StaysUnderWay, PatientStep
<1>10. ASSUME NEW d \in net, Lose(d)
       PROVE  PInv'
  <2>1. UNCHANGED <<call, outcome>> /\ lost' = TRUE /\ net' \subseteq net
    BY <1>10 DEF Lose
  <2>2. \A i \in Nodes : call'[i] # NoCall => OfTheCall(i)'
    BY <2>1, NothingNew
  <2>. QED BY <1>0, <2>1, <2>2, PatientStep
<1>11. CASE UNCHANGED vars
  <2>1. UNCHANGED <<call, outcome, net, lost>>
    BY <1>11 DEF vars
  <2>. QED BY <1>0, <2>1, NothingNew, StaysUnderWay, PatientStep
<1>. QED
  BY <1>1, <1>2, <1>3, <1>4, <1>5, <1>6, <1>7, <1>8, <1>9, <1>10, <1>11 DEF Next

(* A request that its target serves times out only when the deadline was   *)
(* too short or a datagram was lost, whatever else the network does and    *)
(* whoever restarts, provided the target makes no requests itself.         *)
THEOREM BackplanePatientCallsAnswered == Spec => []PatientCallsAnswered
<1>1. PInv => PatientCallsAnswered
  BY DEF PInv
<1>. QED BY <1>1, InitPatient, StepPatient, PTL DEF Spec
===============================================================================
