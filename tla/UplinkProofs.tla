---------------------------- MODULE UplinkProofs ----------------------------
(***************************************************************************)
(* Proofs about module Uplink, for any number of devices, tokens, frames   *)
(* and repeated acknowledgements: what "Receive PUSH_ACK packet" and       *)
(* "Receive invalid packet" tell, and how many late acknowledgements there *)
(* can be.                                                                 *)
(***************************************************************************)
EXTENDS Uplink, SequenceTheorems, FiniteSetTheorems, TLAPS

-----------------------------------------------------------------------------
(* Types                                                                   *)

\* Nothing has been sent yet.
LEMMA TypeInit == Init => TypeOK
<1> SUFFICES ASSUME Init PROVE TypeOK
  OBVIOUS
<1>1. <<>> \in Seq(Tokens) /\ <<>> \in Seq(Reports) /\ <<>> \in Seq(received) /\ Len(<<>>) = 0
  BY EmptySeq
<1>2. token \in Seq(Tokens) /\ Len(token) = sent /\ report \in Seq(Reports) /\ Len(report) = sent
  BY <1>1 DEF Init
<1>3. buffer \in Seq(received)
  BY <1>1 DEF Init
<1>4. ackOnAir = {} /\ sent \in 0..MaxFrames /\ copies \in 0..MaxCopies /\ 0 \in 0..sent
  BY UplinkAssumption DEF Init
<1>5. QED
  BY <1>2, <1>3, <1>4 DEF Init, TypeOK

\* What send_uplink_frame reports of a frame is one of the reports.
LEMMA ReturnType ==
    ASSUME TypeOK, NEW u \in Users, NEW verdict \in Reports, Return(u, verdict)
    PROVE  report' \in Seq(Reports) /\ Len(report') = sent
<1>1. PICK said \in Reports : report' = [report EXCEPT ![mine[u]] = said]
  BY DEF Return, Reports
<1>2. CASE mine[u] \in 1..sent
  BY <1>1, <1>2, ExceptSeq DEF TypeOK
<1>3. CASE mine[u] \notin 1..sent
  <2>1. report' = report
    BY <1>1, <1>3, LenProperties DEF TypeOK
  <2>2. QED
    BY <2>1 DEF TypeOK
<1>4. QED
  BY <1>2, <1>3

\* The threads keep the types.
LEMMA UserType == ASSUME TypeOK, NEW u \in Users, UserStep(u) PROVE TypeOK'
<1> USE DEF netVars
<1>1. CASE Lock(u)
  BY <1>1 DEF Lock, TypeOK
<1>2. CASE Skip(u)
  BY <1>2 DEF Skip, TypeOK
<1>3. CASE Check(u)
  BY <1>3 DEF Check, TypeOK
<1>4. CASE Send(u)
  <2>1. PICK t \in Tokens : token' = Append(token, t)
    BY <1>4 DEF Send
  <2>2. token' \in Seq(Tokens) /\ Len(token') = sent + 1
    BY <2>1, AppendProperties DEF TypeOK
  <2>3. report' \in Seq(Reports) /\ Len(report') = sent + 1
    <3>1. report' = Append(report, "open") /\ "open" \in Reports
      BY <1>4 DEF Send, Reports
    <3>2. QED
      BY <3>1, AppendProperties DEF TypeOK
  <2>4. sent' = sent + 1 /\ sent' \in 0..MaxFrames
    BY <1>4, UplinkAssumption DEF Send, TypeOK
  <2>5. QED
    BY <1>4, <2>2, <2>3, <2>4 DEF Send, TypeOK
<1>5. CASE ReadAck(u) \/ Timeout(u)
  <2>1. PICK verdict \in Reports : Return(u, verdict)
    BY <1>5 DEF ReadAck, Timeout, Reports
  <2>2. report' \in Seq(Reports) /\ Len(report') = sent
    BY <2>1, ReturnType
  <2>3. buffer' \in Seq(received)
    BY <1>5, HeadTailProperties DEF ReadAck, Timeout, TypeOK
  <2>4. QED
    BY <1>5, <2>1, <2>2, <2>3 DEF ReadAck, Timeout, Return, TypeOK
<1>6. QED
  BY <1>1, <1>2, <1>3, <1>4, <1>5 DEF UserStep

\* The network keeps the types: what is acknowledged was received.
LEMMA NetworkType == ASSUME TypeOK, Network PROVE TypeOK'
<1>1. ASSUME NEW n \in dataOnAir, ServerReceives(n) PROVE TypeOK'
  <2>1. /\ received' = received \union {n} /\ n \in 1..sent
        /\ [frame |-> n, copy |-> 0] \in [frame : received', copy : 0..copies]
    BY <1>1 DEF ServerReceives, TypeOK
  <2>2. ackOnAir' \subseteq [frame : received', copy : 0..copies]
    BY <1>1, <2>1 DEF ServerReceives, TypeOK
  <2>3. buffer' \in Seq(received')
    BY <1>1, <2>1, SeqMonotonic DEF ServerReceives, TypeOK
  <2>4. QED
    BY <1>1, <2>1, <2>2, <2>3 DEF ServerReceives, TypeOK
<1>2. ASSUME NEW n \in dataOnAir, LoseData(n) PROVE TypeOK'
  BY <1>2 DEF LoseData, TypeOK
<1>3. ASSUME NEW ack \in ackOnAir, RepeatAck(ack) PROVE TypeOK'
  <2>1. /\ copies' = copies + 1 /\ copies' \in 0..MaxCopies
        /\ copies \in Nat /\ 0..copies \subseteq 0..copies' /\ copies + 1 \in 0..copies'
    BY <1>3, UplinkAssumption DEF RepeatAck, TypeOK
  <2>2. [ack EXCEPT !.copy = copies + 1] \in [frame : received, copy : 0..copies']
    BY <1>3, <2>1 DEF TypeOK
  <2>3. ackOnAir' \subseteq [frame : received, copy : 0..copies']
    <3>1. [frame : received, copy : 0..copies] \subseteq [frame : received, copy : 0..copies']
      BY <2>1
    <3>2. ackOnAir' = ackOnAir \union {[ack EXCEPT !.copy = copies + 1]}
      BY <1>3 DEF RepeatAck
    <3>3. ackOnAir \subseteq [frame : received, copy : 0..copies]
      BY DEF TypeOK
    <3>4. QED
      BY <2>2, <3>1, <3>2, <3>3
  <2>4. QED
    BY <1>3, <2>1, <2>3 DEF RepeatAck, TypeOK
<1>4. ASSUME NEW ack \in ackOnAir, LoseAck(ack) PROVE TypeOK'
  BY <1>4 DEF LoseAck, TypeOK
<1>5. ASSUME NEW ack \in ackOnAir, AckArrives(ack) PROVE TypeOK'
  <2>1. ack.frame \in received
    BY <1>5 DEF TypeOK
  <2>2. buffer' \in Seq(received)
    BY <1>5, <2>1, AppendProperties DEF AckArrives, TypeOK
  <2>3. QED
    BY <1>5, <2>2 DEF AckArrives, TypeOK
<1>6. QED
  BY <1>1, <1>2, <1>3, <1>4, <1>5 DEF Network

\* Every variable of the exchanges keeps its type.
THEOREM TypeCorrect == Spec => []TypeOK
<1>1. TypeOK /\ [Next]_vars => TypeOK'
  <2>1. ASSUME TypeOK, Stop PROVE TypeOK'
    BY <2>1 DEF Stop, TypeOK, netVars
  <2>2. ASSUME TypeOK, UNCHANGED vars PROVE TypeOK'
    BY <2>2 DEF TypeOK, vars
  <2>3. QED
    BY <2>1, <2>2, UserType, NetworkType DEF Next
<1>2. QED
  BY TypeInit, <1>1, PTL DEF Spec

-----------------------------------------------------------------------------
(* One exchange at a time.                                                 *)

\* The thread that is in send_uplink_frame holds the mutex of the socket, the
\* frame it waits for is the last one sent, and no other frame is open.
OneExchange ==
    /\ \A u \in Users : pc[u] # "idle" <=> owner = u
    /\ \A u \in Users : pc[u] = "await" => sent > 0 /\ mine[u] = sent /\ report[sent] = "open"
    /\ \A n \in 1..sent : report[n] = "open" => n = sent /\ \E u \in Users : pc[u] = "await"

\* When send_uplink_frame returns it has something to say of the last frame,
\* which was the open one, and of no other.
LEMMA ReturnEffect ==
    ASSUME TypeOK, OneExchange, NEW u \in Users, pc[u] = "await",
           NEW verdict \in {"acked", "invalid", "silent"}, Return(u, verdict)
    PROVE  /\ mine[u] = sent /\ sent \in 1..sent /\ report[sent] = "open"
           /\ report'[sent] = IF stopped THEN "stopped" ELSE verdict
           /\ \A n \in 1..sent : n # sent => report'[n] = report[n] /\ report[n] # "open"
           /\ owner' = NoUser /\ \A v \in Users : pc'[v] = "idle"
<1>1. mine[u] = sent /\ sent \in 1..sent /\ report[sent] = "open"
  BY DEF OneExchange, TypeOK
<1>2. \A n \in 1..sent : report'[n] = IF n = sent THEN (IF stopped THEN "stopped" ELSE verdict)
                                      ELSE report[n]
  BY <1>1, LenProperties DEF Return, TypeOK
<1>3. owner = u /\ \A v \in Users : v # u => pc[v] = "idle"
  BY DEF OneExchange
<1>4. \A v \in Users : pc'[v] = "idle"
  BY <1>3 DEF Return, TypeOK
<1>5. QED
  BY <1>1, <1>2, <1>4 DEF Return, OneExchange

\* A new frame is open, and nobody else's.
LEMMA SendEffect ==
    ASSUME TypeOK, OneExchange, NEW u \in Users, Send(u)
    PROVE  /\ sent' = sent + 1 /\ sent' \in 1..sent' /\ sent \in Nat
           /\ report'[sent'] = "open"
           /\ \A n \in 1..sent : report'[n] = report[n] /\ token'[n] = token[n] /\ report[n] # "open"
<1>1. /\ sent' = sent + 1 /\ sent \in Nat
      /\ report' = Append(report, "open") /\ "open" \in Reports
      /\ \E t \in Tokens : token' = Append(token, t)
  BY DEF Send, TypeOK, Reports
<1>2. report'[sent'] = "open" /\ \A n \in 1..sent : report'[n] = report[n]
  BY <1>1, AppendProperties DEF TypeOK
<1>3. \A n \in 1..sent : token'[n] = token[n]
  BY <1>1, AppendProperties DEF TypeOK
<1>4. \A n \in 1..sent : report[n] # "open"
  <2>1. pc[u] = "send" /\ owner = u
    BY DEF Send, OneExchange
  <2>2. \A v \in Users : pc[v] # "await"
    BY <2>1 DEF OneExchange
  <2>3. QED
    BY <2>2 DEF OneExchange
<1>5. QED
  <2>1. sent' \in 1..sent'
    BY <1>1
  <2>2. QED
    BY <1>1, <1>2, <1>3, <1>4, <2>1, Zenon

\* The threads keep out of each other's exchanges.
LEMMA UserExchange == ASSUME TypeOK, OneExchange, NEW u \in Users, UserStep(u) PROVE OneExchange'
<1>1. CASE Lock(u)
  BY <1>1, UplinkAssumption DEF Lock, OneExchange, TypeOK
<1>2. CASE Skip(u)
  BY <1>2, UplinkAssumption DEF Skip, OneExchange, TypeOK
<1>3. CASE Check(u)
  BY <1>3, UplinkAssumption DEF Check, OneExchange, TypeOK
<1>4. CASE Send(u)
  <2>1. /\ owner = u /\ owner' = owner
        /\ \A v \in Users : pc'[v] = IF v = u THEN "await" ELSE pc[v]
        /\ mine'[u] = sent + 1
        /\ \A v \in Users : v # u => pc[v] = "idle"
    BY <1>4 DEF Send, OneExchange, TypeOK
  <2>2. \A v \in Users : pc'[v] # "idle" <=> owner' = v
    BY <2>1
  <2>3. \A v \in Users : pc'[v] = "await" => sent' > 0 /\ mine'[v] = sent' /\ report'[sent'] = "open"
    BY <1>4, <2>1, SendEffect
  <2>4. \A n \in 1..sent' : report'[n] = "open" => n = sent' /\ \E v \in Users : pc'[v] = "await"
    BY <1>4, <2>1, SendEffect
  <2>5. QED
    BY <2>2, <2>3, <2>4 DEF OneExchange
<1>5. CASE ReadAck(u) \/ Timeout(u)
  <2>1. PICK verdict \in {"acked", "invalid", "silent"} : Return(u, verdict)
    BY <1>5 DEF ReadAck, Timeout
  <2>2. pc[u] = "await" /\ sent' = sent
    BY <1>5 DEF ReadAck, Timeout
  <2>3. \A n \in 1..sent : report'[n] # "open"
    BY <2>1, <2>2, ReturnEffect
  <2>4. owner' = NoUser /\ \A v \in Users : pc'[v] = "idle"
    BY <2>1, <2>2, ReturnEffect
  <2>5. QED
    BY <2>2, <2>3, <2>4, UplinkAssumption DEF OneExchange
<1>6. QED
  BY <1>1, <1>2, <1>3, <1>4, <1>5 DEF UserStep

exchangeVars == <<owner, pc, sent, mine, token, report>>

\* The network and the stop touch no exchange.
LEMMA OthersExchange == Network \/ Stop \/ UNCHANGED vars => UNCHANGED exchangeVars
  BY DEF Network, ServerReceives, LoseData, RepeatAck, LoseAck, AckArrives, Stop, vars, exchangeVars

\* The push mutex makes the exchanges of a gateway one after another
\* (gateway.cpp:49).
THEOREM ExchangeCorrect == Spec => []OneExchange
<1>1. Init => OneExchange
  BY UplinkAssumption DEF Init, OneExchange
<1>2. TypeOK /\ OneExchange /\ [Next]_vars => OneExchange'
  <2>1. ASSUME OneExchange, UNCHANGED exchangeVars PROVE OneExchange'
    BY <2>1 DEF OneExchange, exchangeVars
  <2>2. QED
    BY <2>1, UserExchange, OthersExchange DEF Next
<1>3. QED
  BY <1>1, <1>2, TypeCorrect, PTL DEF Spec

-----------------------------------------------------------------------------
(* What an acknowledged frame tells.                                       *)

\* The threads keep it: a datagram answers the last frame or an earlier one.
LEMMA UserAcked ==
    ASSUME TypeOK, OneExchange, AckedWasReceived, NEW u \in Users, UserStep(u)
    PROVE  AckedWasReceived'
<1>1. CASE Lock(u) \/ Skip(u) \/ Check(u)
  BY <1>1 DEF Lock, Skip, Check, AckedWasReceived, Reported, netVars
<1>2. CASE Send(u)
  <2>1. received' = received /\ received \subseteq 1..sent
    BY <1>2 DEF Send, TypeOK
  <2>2. \A n \in 1..sent' : report'[n] = "acked" => n \in 1..sent /\ report[n] = "acked"
    BY <1>2, SendEffect
  <2>3. \A n \in 1..sent : token'[n] = token[n]
    BY <1>2, SendEffect
  <2>4. QED
    BY <2>1, <2>2, <2>3 DEF AckedWasReceived, Reported
<1>3. CASE ReadAck(u)
  <2>1. PICK m \in received : m = Head(buffer)
    BY <1>3, HeadTailProperties DEF ReadAck, TypeOK
  <2>2. PICK verdict \in {"acked", "invalid", "silent"} :
          /\ Return(u, verdict)
          /\ verdict = "acked" => token[m] = token[mine[u]]
    BY <1>3, <2>1 DEF ReadAck, IsPushAck
  <2>3. UNCHANGED <<sent, token, received>> /\ pc[u] = "await"
    BY <1>3 DEF ReadAck, netVars
  <2>4. mine[u] = sent /\ m <= sent
    BY <2>2, <2>3, ReturnEffect DEF TypeOK
  <2>5. \A n \in 1..sent : report'[n] = "acked" =>
            report[n] = "acked" \/ (n = sent /\ token[m] = token[n])
    BY <2>2, <2>3, <2>4, ReturnEffect
  <2>6. QED
    BY <2>3, <2>4, <2>5 DEF AckedWasReceived, Reported
<1>4. CASE Timeout(u)
  <2>1. Return(u, "silent") /\ pc[u] = "await" /\ UNCHANGED <<sent, token, received>>
    BY <1>4 DEF Timeout, netVars
  <2>2. \A n \in 1..sent : report'[n] = "acked" => report[n] = "acked"
    BY <2>1, ReturnEffect
  <2>3. QED
    BY <2>1, <2>2 DEF AckedWasReceived, Reported
<1>5. QED
  BY <1>1, <1>2, <1>3, <1>4 DEF UserStep

\* A frame reported as acknowledged was received by the server, or an earlier
\* one with the same two random bytes was (gateway.cpp:71).
THEOREM AckedCorrect == Spec => []AckedWasReceived
<1>1. Init => AckedWasReceived
  BY DEF Init, AckedWasReceived, Reported
<1>2. TypeOK /\ OneExchange /\ AckedWasReceived /\ [Next]_vars => AckedWasReceived'
  <2>1. ASSUME AckedWasReceived, UNCHANGED exchangeVars, received \subseteq received'
        PROVE  AckedWasReceived'
    BY <2>1 DEF AckedWasReceived, Reported, exchangeVars
  <2>2. Network \/ Stop \/ UNCHANGED vars => received \subseteq received'
    BY DEF Network, ServerReceives, LoseData, RepeatAck, LoseAck, AckArrives, Stop, vars, netVars
  <2>3. QED
    BY <2>1, <2>2, UserAcked, OthersExchange DEF Next
<1>3. QED
  BY <1>1, <1>2, TypeCorrect, ExchangeCorrect, PTL DEF Spec

-----------------------------------------------------------------------------
(* How many late acknowledgements there can be.                            *)

Outstanding == Len(buffer) + Cardinality(ackOnAir) + Cardinality(dataOnAir)

Paid == Cardinality(Reported("silent")) + Cardinality(Reported("open")) + copies

Backlog ==
    /\ IsFiniteSet(ackOnAir)
    /\ ~stopped => Outstanding <= Paid

\* What is counted is finite.
LEMMA FiniteCounts ==
    ASSUME TypeOK
    PROVE  /\ \A verdict : /\ IsFiniteSet(Reported(verdict))
                           /\ Cardinality(Reported(verdict)) \in Nat
           /\ IsFiniteSet(dataOnAir) /\ Cardinality(dataOnAir) \in Nat
           /\ Len(buffer) \in Nat /\ copies \in Nat
<1>1. IsFiniteSet(1..sent)
  BY FS_Interval DEF TypeOK
<1>2. \A verdict : Reported(verdict) \subseteq 1..sent
  BY DEF Reported
<1>3. \A S \in SUBSET (1..sent) : IsFiniteSet(S) /\ Cardinality(S) \in Nat
  BY <1>1, FS_Subset, FS_CardinalityType
<1>4. dataOnAir \in SUBSET (1..sent)
  BY DEF TypeOK
<1>5. QED
  BY <1>2, <1>3, <1>4, LenProperties DEF TypeOK

\* A return closes the open exchange, and counts one timeout more or none.
LEMMA ReturnCounts ==
    ASSUME TypeOK, OneExchange, NEW u \in Users, pc[u] = "await", ~stopped, sent' = sent,
           NEW verdict \in {"acked", "invalid", "silent"}, Return(u, verdict)
    PROVE  /\ Cardinality(Reported("open")') = Cardinality(Reported("open")) - 1
           /\ Cardinality(Reported("silent")') =
                Cardinality(Reported("silent")) + (IF verdict = "silent" THEN 1 ELSE 0)
<1>1. /\ sent \in 1..sent /\ report[sent] = "open" /\ report'[sent] = verdict
      /\ \A n \in 1..sent : n # sent => report'[n] = report[n] /\ report[n] # "open"
  BY ReturnEffect
<1>2. Reported("open")' = Reported("open") \ {sent} /\ sent \in Reported("open")
  BY <1>1 DEF Reported
<1>3. CASE verdict = "silent"
  <2>1. Reported("silent")' = Reported("silent") \union {sent} /\ sent \notin Reported("silent")
    BY <1>1, <1>3 DEF Reported
  <2>2. Cardinality(Reported("silent")') = Cardinality(Reported("silent")) + 1
    BY <2>1, FS_AddElement, FiniteCounts
  <2>3. QED
    BY <1>2, <1>3, <2>2, FS_RemoveElement, FiniteCounts
<1>4. CASE verdict # "silent"
  <2>1. Reported("silent")' = Reported("silent")
    BY <1>1, <1>4 DEF Reported
  <2>2. QED
    BY <1>2, <1>4, <2>1, FS_RemoveElement, FiniteCounts
<1>5. QED
  BY <1>3, <1>4

\* A new exchange is counted as open.
LEMMA SendCounts ==
    ASSUME TypeOK, OneExchange, NEW u \in Users, Send(u)
    PROVE  /\ Reported("open") = {} /\ Cardinality(Reported("open")) = 0
           /\ Cardinality(Reported("open")') = 1
           /\ Reported("silent")' = Reported("silent")
<1>1. /\ sent' = sent + 1 /\ sent' \in 1..sent' /\ sent \in Nat /\ report'[sent'] = "open"
      /\ \A n \in 1..sent : report'[n] = report[n] /\ report[n] # "open"
  BY SendEffect
<1>2. Reported("open") = {}
  BY <1>1 DEF Reported
<1>3. Reported("open")' = {sent'}
  BY <1>1 DEF Reported
<1>4. Reported("silent")' = Reported("silent")
  BY <1>1 DEF Reported
<1>5. QED
  BY <1>2, <1>3, <1>4, FS_EmptySet, FS_Singleton

\* The threads keep it: an exchange reads a datagram or is a timeout.
LEMMA UserBacklog ==
    ASSUME TypeOK, OneExchange, Backlog, NEW u \in Users, UserStep(u)
    PROVE  Backlog'
<1> USE DEF netVars
<1>0. Cardinality(ackOnAir) \in Nat
  BY FS_CardinalityType DEF Backlog
<1>1. CASE Lock(u) \/ Skip(u) \/ Check(u)
  <2>1. UNCHANGED <<stopped, buffer, ackOnAir, dataOnAir, copies, sent, report>>
    BY <1>1 DEF Lock, Skip, Check
  <2>2. QED
    BY <2>1 DEF Backlog, Outstanding, Paid, Reported
<1>2. CASE Send(u)
  <2>1. /\ UNCHANGED <<stopped, buffer, ackOnAir, copies>>
        /\ dataOnAir' = dataOnAir \union {sent + 1}
    BY <1>2 DEF Send
  <2>2. Cardinality(dataOnAir') <= Cardinality(dataOnAir) + 1 /\ Cardinality(dataOnAir') \in Nat
    BY <2>1, FS_AddElement, FS_CardinalityType, FiniteCounts
  <2>3. Paid' = Paid + 1
    BY <1>2, <2>1, SendCounts, FiniteCounts DEF Paid
  <2>4. QED
    BY <1>0, <2>1, <2>2, <2>3, FiniteCounts DEF Backlog, Outstanding, Paid
<1>3. CASE ReadAck(u)
  <2>1. PICK verdict \in {"acked", "invalid"} : Return(u, verdict)
    BY <1>3 DEF ReadAck
  <2>2. /\ pc[u] = "await" /\ UNCHANGED <<stopped, sent, ackOnAir, dataOnAir, copies>>
        /\ Len(buffer') = Len(buffer) - 1
    BY <1>3, HeadTailProperties DEF ReadAck, TypeOK
  <2>3. ~stopped => Paid' = Paid - 1
    <3>1. Cardinality(Reported("silent")) \in Nat /\ Cardinality(Reported("open")) \in Nat
      BY FiniteCounts
    <3>2. QED
      BY <2>1, <2>2, <3>1, ReturnCounts, FiniteCounts DEF Paid
  <2>4. QED
    BY <1>0, <2>2, <2>3, FiniteCounts DEF Backlog, Outstanding, Paid
<1>4. CASE Timeout(u)
  <2>1. /\ Return(u, "silent") /\ pc[u] = "await"
        /\ UNCHANGED <<stopped, sent, buffer, ackOnAir, dataOnAir, copies>>
    BY <1>4 DEF Timeout
  <2>2. ~stopped => Paid' = Paid
    BY <2>1, ReturnCounts, FiniteCounts DEF Paid
  <2>3. QED
    BY <2>1, <2>2 DEF Backlog, Outstanding
<1>5. QED
  BY <1>1, <1>2, <1>3, <1>4 DEF UserStep

\* One more element adds one at most to a finite set.
LEMMA OneMore ==
    ASSUME NEW S, NEW x, IsFiniteSet(S)
    PROVE  IsFiniteSet(S \union {x}) /\ Cardinality(S \union {x}) <= Cardinality(S) + 1
<1>1. Cardinality(S) \in Nat
  BY FS_CardinalityType
<1>2. Cardinality(S \union {x}) = Cardinality(S) \/ Cardinality(S \union {x}) = Cardinality(S) + 1
  BY FS_AddElement
<1>3. QED
  BY <1>1, <1>2, FS_AddElement

\* The network keeps it: it only repeats what it is counted to repeat.
LEMMA NetworkBacklog == ASSUME TypeOK, Backlog, Network PROVE Backlog'
<1>0. /\ Cardinality(ackOnAir) \in Nat /\ IsFiniteSet(ackOnAir)
      /\ IsFiniteSet(dataOnAir) /\ Cardinality(dataOnAir) \in Nat
      /\ Len(buffer) \in Nat /\ copies \in Nat /\ Paid \in Nat
      /\ UNCHANGED <<stopped, sent, report>>
  BY FS_CardinalityType, FiniteCounts
     DEF Backlog, Paid, Network, ServerReceives, LoseData, RepeatAck, LoseAck, AckArrives
<1>1. UNCHANGED copies => Paid' = Paid
  BY <1>0 DEF Paid, Reported
<1>2. ASSUME NEW n \in dataOnAir, ServerReceives(n) \/ LoseData(n) PROVE Backlog'
  <2>1. Cardinality(dataOnAir') = Cardinality(dataOnAir) - 1
    BY <1>0, <1>2, FS_RemoveElement DEF ServerReceives, LoseData
  <2>2. IsFiniteSet(ackOnAir') /\ Cardinality(ackOnAir') <= Cardinality(ackOnAir) + 1
    <3>1. CASE ackOnAir' = ackOnAir
      BY <1>0, <3>1
    <3>2. CASE ackOnAir' = ackOnAir \union {[frame |-> n, copy |-> 0]}
      BY <1>0, <3>2, OneMore
    <3>3. QED
      BY <1>2, <3>1, <3>2 DEF ServerReceives, LoseData
  <2>3. UNCHANGED <<buffer, copies>> /\ Cardinality(ackOnAir') \in Nat
    BY <1>2, <2>2, FS_CardinalityType DEF ServerReceives, LoseData
  <2>4. QED
    BY <1>0, <1>1, <2>1, <2>2, <2>3 DEF Backlog, Outstanding
<1>3. ASSUME NEW ack \in ackOnAir, RepeatAck(ack) PROVE Backlog'
  <2>1. IsFiniteSet(ackOnAir') /\ Cardinality(ackOnAir') <= Cardinality(ackOnAir) + 1
    <3>1. ackOnAir' = ackOnAir \union {[ack EXCEPT !.copy = copies + 1]}
      BY <1>3 DEF RepeatAck
    <3>2. QED
      BY <1>0, <3>1, OneMore
  <2>2. /\ UNCHANGED <<buffer, dataOnAir>> /\ copies' = copies + 1
        /\ Cardinality(ackOnAir') \in Nat
    BY <1>3, <2>1, FS_CardinalityType DEF RepeatAck
  <2>3. Paid' = Paid + 1
    <3>1. Cardinality(Reported("silent")) \in Nat /\ Cardinality(Reported("open")) \in Nat
      BY FiniteCounts
    <3>2. QED
      BY <1>0, <2>2, <3>1 DEF Paid, Reported
  <2>4. QED
    BY <1>0, <2>1, <2>2, <2>3 DEF Backlog, Outstanding
<1>4. ASSUME NEW ack \in ackOnAir, LoseAck(ack) \/ AckArrives(ack) PROVE Backlog'
  <2>1. IsFiniteSet(ackOnAir') /\ Cardinality(ackOnAir') = Cardinality(ackOnAir) - 1
    BY <1>0, <1>4, FS_RemoveElement DEF LoseAck, AckArrives
  <2>2. ack.frame \in received
    BY <1>4 DEF TypeOK
  <2>3. Len(buffer') = Len(buffer) \/ Len(buffer') = Len(buffer) + 1
    BY <1>4, <2>2, AppendProperties DEF LoseAck, AckArrives, TypeOK
  <2>4. UNCHANGED <<dataOnAir, copies>>
    BY <1>4 DEF LoseAck, AckArrives
  <2>5. QED
    BY <1>0, <1>1, <2>1, <2>3, <2>4 DEF Backlog, Outstanding
<1>5. QED
  BY <1>2, <1>3, <1>4 DEF Network

\* While the gateway lives, whatever waits or is on its way to confuse a later
\* exchange is paid for by a timeout or by a repetition, but for the answer to
\* the exchange at hand (gateway.cpp:64).
THEOREM BacklogInvariant == Spec => []Backlog
<1>1. Init => Backlog
  <2> SUFFICES ASSUME Init PROVE Backlog
    OBVIOUS
  <2>1. buffer = <<>> /\ ackOnAir = {} /\ dataOnAir = {} /\ copies = 0 /\ sent = 0
    BY DEF Init
  <2>2. Cardinality({}) = 0 /\ IsFiniteSet({})
    BY FS_EmptySet
  <2>3. Reported("silent") = {} /\ Reported("open") = {}
    BY <2>1 DEF Reported
  <2>4. Cardinality(Reported("silent")) = 0 /\ Cardinality(Reported("open")) = 0
    BY <2>2, <2>3
  <2>5. Len(buffer) = 0 /\ Cardinality(ackOnAir) = 0 /\ Cardinality(dataOnAir) = 0
    BY <2>1, <2>2
  <2>6. Outstanding <= Paid
    BY <2>1, <2>4, <2>5 DEF Outstanding, Paid
  <2>7. QED
    BY <2>1, <2>2, <2>6 DEF Backlog
<1>2. TypeOK /\ OneExchange /\ Backlog /\ [Next]_vars => Backlog'
  <2>1. ASSUME Backlog, Stop \/ UNCHANGED vars PROVE Backlog'
    BY <2>1 DEF Stop, vars, netVars, Backlog, Outstanding, Paid, Reported
  <2>2. QED
    BY <2>1, UserBacklog, NetworkBacklog DEF Next
<1>3. QED
  BY <1>1, <1>2, TypeCorrect, ExchangeCorrect, PTL DEF Spec

\* The property of the runs.
THEOREM BacklogCorrect == Spec => []BacklogPaidByTimeouts
<1>1. Backlog => BacklogPaidByTimeouts
  BY DEF Backlog, BacklogPaidByTimeouts, Outstanding, Paid
<1>2. QED
  BY BacklogInvariant, <1>1, PTL

-----------------------------------------------------------------------------
(* What survives an exchange.                                              *)

\* Nothing was repeated and nothing given up, so far, while the gateway lives.
Undisturbed == ~stopped /\ copies = 0 /\ Reported("silent") = {}

\* Then whatever is on its way or waiting belongs to the last exchange.
OnlyLastFrame ==
    Undisturbed =>
        /\ dataOnAir \subseteq {sent}
        /\ \A ack \in ackOnAir : ack.frame = sent
        /\ \A i \in 1..Len(buffer) : buffer[i] = sent

\* The threads keep it: before a new exchange nothing is left, by Backlog.
LEMMA UserOnlyLast ==
    ASSUME TypeOK, OneExchange, Backlog, OnlyLastFrame, NEW u \in Users, UserStep(u)
    PROVE  OnlyLastFrame'
<1> USE DEF netVars
<1>1. CASE Lock(u) \/ Skip(u) \/ Check(u)
  BY <1>1 DEF Lock, Skip, Check, OnlyLastFrame, Undisturbed, Reported
<1>2. CASE Send(u)
  <2>1. SUFFICES ASSUME Undisturbed'
                 PROVE  /\ dataOnAir' \subseteq {sent'}
                        /\ \A ack \in ackOnAir' : ack.frame = sent'
                        /\ \A i \in 1..Len(buffer') : buffer'[i] = sent'
    BY DEF OnlyLastFrame
  <2>2. /\ UNCHANGED <<stopped, copies, buffer, ackOnAir>> /\ sent' = sent + 1
        /\ dataOnAir' = dataOnAir \union {sent + 1}
    BY <1>2 DEF Send
  <2>3. Paid = 0
    <3>1. ~stopped /\ copies = 0 /\ Reported("silent") = {}
      BY <1>2, <2>1, <2>2, SendCounts DEF Undisturbed
    <3>2. QED
      BY <1>2, <3>1, SendCounts, FS_EmptySet DEF Paid
  <2>4. Len(buffer) = 0 /\ Cardinality(ackOnAir) = 0 /\ Cardinality(dataOnAir) = 0
    <3>1. /\ Cardinality(ackOnAir) \in Nat /\ Cardinality(dataOnAir) \in Nat /\ Len(buffer) \in Nat
          /\ Outstanding <= 0
      BY <2>1, <2>2, <2>3, FS_CardinalityType, FiniteCounts DEF Backlog, Undisturbed
    <3>2. QED
      BY <3>1 DEF Outstanding
  <2>5. ackOnAir = {} /\ dataOnAir = {}
    BY <2>4, FS_EmptySet, FiniteCounts DEF Backlog
  <2>6. QED
    BY <2>2, <2>4, <2>5
<1>3. CASE ReadAck(u)
  <2>1. PICK verdict \in {"acked", "invalid"} : Return(u, verdict)
    BY <1>3 DEF ReadAck
  <2>2. pc[u] = "await" /\ UNCHANGED <<stopped, copies, sent, dataOnAir, ackOnAir>>
    BY <1>3 DEF ReadAck
  <2>3. Undisturbed' => Undisturbed
    <3>1. \A n \in 1..sent : report[n] = "silent" => report'[n] = "silent"
      BY <2>1, <2>2, ReturnEffect
    <3>2. QED
      BY <2>2, <3>1 DEF Undisturbed, Reported
  <2>4. Len(buffer') = Len(buffer) - 1 /\ \A i \in 1..Len(buffer') : buffer'[i] = buffer[i + 1]
    BY <1>3, HeadTailProperties DEF ReadAck, TypeOK
  <2>5. Len(buffer) \in Nat
    BY FiniteCounts
  <2>6. QED
    BY <2>2, <2>3, <2>4, <2>5 DEF OnlyLastFrame
<1>4. CASE Timeout(u)
  <2>1. Return(u, "silent") /\ pc[u] = "await" /\ UNCHANGED <<stopped, sent>>
    BY <1>4 DEF Timeout
  <2>2. ~stopped => sent \in Reported("silent")'
    BY <2>1, ReturnEffect DEF Reported
  <2>3. QED
    BY <2>1, <2>2 DEF OnlyLastFrame, Undisturbed
<1>5. QED
  BY <1>1, <1>2, <1>3, <1>4 DEF UserStep

\* The network keeps it: an answer belongs to the frame it answers.
LEMMA NetworkOnlyLast == ASSUME TypeOK, OnlyLastFrame, Network PROVE OnlyLastFrame'
<1>0. UNCHANGED <<stopped, sent, report>>
  BY DEF Network, ServerReceives, LoseData, RepeatAck, LoseAck, AckArrives
<1>1. UNCHANGED copies => (Undisturbed' <=> Undisturbed)
  BY <1>0 DEF Undisturbed, Reported
<1>2. ASSUME NEW n \in dataOnAir, ServerReceives(n) \/ LoseData(n) PROVE OnlyLastFrame'
  BY <1>0, <1>1, <1>2 DEF OnlyLastFrame, ServerReceives, LoseData
<1>3. ASSUME NEW ack \in ackOnAir, RepeatAck(ack) PROVE OnlyLastFrame'
  <2>1. copies' # 0
    BY <1>3 DEF RepeatAck, TypeOK
  <2>2. QED
    BY <2>1 DEF OnlyLastFrame, Undisturbed
<1>4. ASSUME NEW ack \in ackOnAir, LoseAck(ack) PROVE OnlyLastFrame'
  BY <1>0, <1>1, <1>4 DEF OnlyLastFrame, LoseAck
<1>5. ASSUME NEW ack \in ackOnAir, AckArrives(ack) PROVE OnlyLastFrame'
  <2>1. ack.frame \in received /\ buffer' = Append(buffer, ack.frame)
    BY <1>5 DEF TypeOK, AckArrives
  <2>2. /\ Len(buffer') = Len(buffer) + 1 /\ Len(buffer) \in Nat
        /\ \A i \in 1..Len(buffer) : buffer'[i] = buffer[i]
        /\ buffer'[Len(buffer) + 1] = ack.frame
    BY <2>1, AppendProperties, LenProperties DEF TypeOK
  <2>3. /\ UNCHANGED <<copies, dataOnAir>> /\ ackOnAir' \subseteq ackOnAir
    BY <1>5 DEF AckArrives
  <2>4. QED
    BY <1>0, <1>1, <2>2, <2>3 DEF OnlyLastFrame
<1>6. QED
  BY <1>2, <1>3, <1>4, <1>5 DEF Network

\* While the socket is undisturbed, nothing in it belongs to an exchange that
\* is over.
THEOREM OnlyLastCorrect == Spec => []OnlyLastFrame
<1>1. Init => OnlyLastFrame
  <2>1. Init => Len(buffer) = 0
    BY EmptySeq DEF Init
  <2>2. QED
    BY <2>1 DEF Init, OnlyLastFrame
<1>2. TypeOK /\ OneExchange /\ Backlog /\ OnlyLastFrame /\ [Next]_vars => OnlyLastFrame'
  <2>1. ASSUME OnlyLastFrame, Stop \/ UNCHANGED vars PROVE OnlyLastFrame'
    BY <2>1 DEF Stop, vars, netVars, OnlyLastFrame, Undisturbed, Reported
  <2>2. QED
    BY <2>1, UserOnlyLast, NetworkOnlyLast DEF Next
<1>3. QED
  BY <1>1, <1>2, TypeCorrect, ExchangeCorrect, BacklogInvariant, PTL DEF Spec

-----------------------------------------------------------------------------
(* What a false acknowledgement tells.                                     *)

\* The threads keep it: in an undisturbed socket the first datagram answers
\* the exchange that reads it, so that its frame was received.
LEMMA UserFalseAck ==
    ASSUME TypeOK, OneExchange, OnlyLastFrame, FalseAckOnlyAfterLate, NEW u \in Users, UserStep(u)
    PROVE  FalseAckOnlyAfterLate'
<1> USE DEF netVars
<1>1. CASE Lock(u) \/ Skip(u) \/ Check(u)
  BY <1>1 DEF Lock, Skip, Check, FalseAckOnlyAfterLate, Reported
<1>2. CASE Send(u)
  <2>1. /\ sent \in Nat /\ sent' = sent + 1 /\ report'[sent'] = "open"
        /\ UNCHANGED <<copies, received>>
        /\ \A n \in 1..sent : report'[n] = report[n]
    BY <1>2, SendEffect DEF Send
  <2>2. Reported("acked")' = Reported("acked") /\ Reported("silent")' = Reported("silent")
    BY <2>1 DEF Reported
  <2>3. QED
    BY <2>1, <2>2 DEF FalseAckOnlyAfterLate
<1>3. CASE ReadAck(u) \/ Timeout(u)
  <2>1. PICK verdict \in {"acked", "invalid", "silent"} :
          /\ Return(u, verdict)
          /\ verdict = "acked" => buffer # <<>>
    BY <1>3 DEF ReadAck, Timeout
  <2>2. pc[u] = "await" /\ UNCHANGED <<stopped, copies, sent, received>>
    BY <1>3 DEF ReadAck, Timeout
  <2>3. /\ sent \in 1..sent /\ report[sent] = "open"
        /\ report'[sent] = IF stopped THEN "stopped" ELSE verdict
        /\ \A n \in 1..sent : n # sent => report'[n] = report[n]
    BY <2>1, <2>2, ReturnEffect
  <2>4. \A n \in Reported("silent") : n \in Reported("silent")' /\ n < sent
    BY <2>2, <2>3 DEF Reported, TypeOK
  <2>5. report'[sent] = "acked" /\ sent \notin received => ~Undisturbed
    <3>1. SUFFICES ASSUME report'[sent] = "acked", sent \notin received, Undisturbed PROVE FALSE
      OBVIOUS
    <3>2. buffer # <<>>
      BY <2>1, <2>3, <3>1
    <3>3. buffer[1] \in received /\ 1 \in 1..Len(buffer)
      BY <3>2, EmptySeq, LenProperties, ElementOfSeq DEF TypeOK
    <3>4. QED
      BY <3>1, <3>3 DEF OnlyLastFrame
  <2>6. report'[sent] = "acked" /\ sent \notin received =>
            copies > 0 \/ \E m \in Reported("silent")' : m < sent
    <3>1. report'[sent] = "acked" => ~stopped
      BY <2>3
    <3>2. copies \in Nat
      BY FiniteCounts
    <3>3. QED
      BY <2>4, <2>5, <3>1, <3>2 DEF Undisturbed
  <2>7. \A n \in Reported("acked")' : n = sent \/ n \in Reported("acked")
    BY <2>2, <2>3 DEF Reported
  <2>8. ASSUME NEW n \in Reported("acked")', n \notin received
        PROVE  copies' > 0 \/ \E m \in Reported("silent")' : m < n
    <3>1. CASE n = sent
      BY <2>2, <2>6, <2>8, <3>1 DEF Reported
    <3>2. CASE n \in Reported("acked")
      BY <2>2, <2>4, <2>8, <3>2 DEF FalseAckOnlyAfterLate
    <3>3. QED
      BY <2>7, <2>8, <3>1, <3>2
  <2>9. QED
    BY <2>2, <2>8 DEF FalseAckOnlyAfterLate
<1>4. QED
  BY <1>1, <1>2, <1>3 DEF UserStep

\* A frame that was lost is reported as acknowledged only if the network
\* repeated an acknowledgement or an earlier exchange was given up
\* (gateway.cpp:64-71).
THEOREM FalseAckCorrect == Spec => []FalseAckOnlyAfterLate
<1>1. Init => FalseAckOnlyAfterLate
  BY DEF Init, FalseAckOnlyAfterLate, Reported
<1>2. TypeOK /\ OneExchange /\ OnlyLastFrame /\ FalseAckOnlyAfterLate /\ [Next]_vars
        => FalseAckOnlyAfterLate'
  <2>1. ASSUME TypeOK, FalseAckOnlyAfterLate, UNCHANGED exchangeVars, received \subseteq received',
               copies' = copies \/ copies' = copies + 1
        PROVE  FalseAckOnlyAfterLate'
    <3>1. copies \in Nat
      BY <2>1, FiniteCounts
    <3>2. QED
      BY <2>1, <3>1 DEF FalseAckOnlyAfterLate, Reported, exchangeVars
  <2>2. Network \/ Stop \/ UNCHANGED vars =>
            received \subseteq received' /\ (copies' = copies \/ copies' = copies + 1)
    BY DEF Network, ServerReceives, LoseData, RepeatAck, LoseAck, AckArrives, Stop, vars, netVars
  <2>3. QED
    BY <2>1, <2>2, UserFalseAck, OthersExchange DEF Next
<1>3. QED
  BY <1>1, <1>2, TypeCorrect, ExchangeCorrect, OnlyLastCorrect, PTL DEF Spec

-----------------------------------------------------------------------------
(* What an invalid packet tells.                                           *)

\* The threads keep it: in an undisturbed socket the first datagram answers
\* the exchange that reads it.
LEMMA UserInvalid ==
    ASSUME TypeOK, OneExchange, OnlyLastFrame, InvalidOnlyAfterLate, NEW u \in Users, UserStep(u)
    PROVE  InvalidOnlyAfterLate'
<1> USE DEF netVars
<1>1. CASE Lock(u) \/ Skip(u) \/ Check(u)
  BY <1>1 DEF Lock, Skip, Check, InvalidOnlyAfterLate, Reported
<1>2. CASE Send(u)
  <2>1. /\ sent \in Nat /\ sent' = sent + 1 /\ report'[sent'] = "open" /\ copies' = copies
        /\ \A n \in 1..sent : report'[n] = report[n]
    BY <1>2, SendEffect DEF Send
  <2>2. Reported("invalid")' = Reported("invalid") /\ Reported("silent")' = Reported("silent")
    BY <2>1 DEF Reported
  <2>3. QED
    BY <2>1, <2>2 DEF InvalidOnlyAfterLate
<1>3. CASE ReadAck(u) \/ Timeout(u)
  <2>1. PICK verdict \in {"acked", "invalid", "silent"} :
          /\ Return(u, verdict)
          /\ verdict = "invalid" => /\ buffer # <<>>
                                    /\ token[Head(buffer)] # token[mine[u]]
    BY <1>3 DEF ReadAck, Timeout, IsPushAck
  <2>2. pc[u] = "await" /\ UNCHANGED <<stopped, copies, sent>>
    BY <1>3 DEF ReadAck, Timeout
  <2>3. /\ mine[u] = sent /\ sent \in 1..sent /\ report[sent] = "open"
        /\ report'[sent] = IF stopped THEN "stopped" ELSE verdict
        /\ \A n \in 1..sent : n # sent => report'[n] = report[n]
    BY <2>1, <2>2, ReturnEffect
  <2>4. \A n \in Reported("silent") : n \in Reported("silent")' /\ n < sent
    BY <2>2, <2>3 DEF Reported, TypeOK
  <2>5. report'[sent] = "invalid" => ~Undisturbed
    <3>1. SUFFICES ASSUME report'[sent] = "invalid", Undisturbed PROVE FALSE
      OBVIOUS
    <3>2. buffer # <<>> /\ token[Head(buffer)] # token[sent]
      BY <2>1, <2>3, <3>1
    <3>3. Head(buffer) = buffer[1] /\ 1 \in 1..Len(buffer)
      BY <3>2, EmptySeq DEF TypeOK
    <3>4. QED
      BY <3>1, <3>2, <3>3 DEF OnlyLastFrame
  <2>6. report'[sent] = "invalid" => copies > 0 \/ \E m \in Reported("silent")' : m < sent
    <3>1. report'[sent] = "invalid" => ~stopped
      BY <2>3
    <3>2. copies \in Nat
      BY FiniteCounts
    <3>3. QED
      BY <2>4, <2>5, <3>1, <3>2 DEF Undisturbed
  <2>7. \A n \in Reported("invalid")' : n = sent \/ n \in Reported("invalid")
    BY <2>2, <2>3 DEF Reported
  <2>8. \A n \in Reported("invalid")' :
            copies' > 0 \/ \E m \in Reported("silent")' : m < n
    <3>1. ASSUME NEW n \in Reported("invalid")', n = sent
          PROVE  copies' > 0 \/ \E m \in Reported("silent")' : m < n
      BY <2>2, <2>6, <3>1 DEF Reported
    <3>2. ASSUME NEW n \in Reported("invalid")
          PROVE  copies' > 0 \/ \E m \in Reported("silent")' : m < n
      BY <2>2, <2>4, <3>2 DEF InvalidOnlyAfterLate
    <3>3. QED
      BY <2>7, <3>1, <3>2
  <2>9. QED
    BY <2>8 DEF InvalidOnlyAfterLate
<1>4. QED
  BY <1>1, <1>2, <1>3 DEF UserStep

\* "Receive invalid packet" means that the network repeated an acknowledgement
\* or that an earlier exchange was given up (gateway.cpp:73).
THEOREM InvalidCorrect == Spec => []InvalidOnlyAfterLate
<1>1. Init => InvalidOnlyAfterLate
  BY DEF Init, InvalidOnlyAfterLate, Reported
<1>2. TypeOK /\ OneExchange /\ OnlyLastFrame /\ InvalidOnlyAfterLate /\ [Next]_vars
        => InvalidOnlyAfterLate'
  <2>1. ASSUME TypeOK, InvalidOnlyAfterLate, UNCHANGED exchangeVars, copies' = copies \/ copies' = copies + 1
        PROVE  InvalidOnlyAfterLate'
    <3>1. copies \in Nat
      BY <2>1, FiniteCounts
    <3>2. QED
      BY <2>1, <3>1 DEF InvalidOnlyAfterLate, Reported, exchangeVars
  <2>2. Network \/ Stop \/ UNCHANGED vars => copies' = copies \/ copies' = copies + 1
    BY DEF Network, ServerReceives, LoseData, RepeatAck, LoseAck, AckArrives, Stop, vars, netVars
  <2>3. QED
    BY <2>1, <2>2, UserInvalid, OthersExchange DEF Next
<1>3. QED
  BY <1>1, <1>2, TypeCorrect, ExchangeCorrect, OnlyLastCorrect, PTL DEF Spec
=============================================================================
