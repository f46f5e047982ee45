------------------------------- MODULE Uplink -------------------------------
(***************************************************************************)
(* One push socket: gateway::send_uplink_frame (src/core/gateway.cpp),     *)
(* executed by the uplink threads of all the devices of the gateway, and   *)
(* the PUSH_DATA / PUSH_ACK exchange with the network server over UDP.     *)
(*                                                                         *)
(* A PUSH_DATA carries a token of two random bytes, which may repeat.  The *)
(* thread waits four seconds at most for one datagram.  An acknowledgement *)
(* that comes later stays in the receive buffer of the socket, and the     *)
(* next exchange reads it: the model keeps the buffer, the datagrams on    *)
(* their way, and for each frame what the code reported of it.             *)
(***************************************************************************)
EXTENDS Naturals, Sequences, FiniteSets

CONSTANTS
    Users,       \* uplink threads that send through this gateway
    NoUser,      \* the push mutex is free
    Tokens,      \* values of the two random bytes
    MaxFrames,   \* bound: number of PUSH_DATA sent
    MaxCopies    \* bound: number of PUSH_ACK the network repeats

ASSUME UplinkAssumption ==
    /\ NoUser \notin Users
    /\ Tokens # {}
    /\ MaxFrames \in Nat \ {0}
    /\ MaxCopies \in Nat

VARIABLES
    stopped,     \* gateway::_stopped
    owner,       \* who holds _push_mutex
    pc,          \* where each uplink thread is in send_uplink_frame
    sent,        \* number of PUSH_DATA sent: frames are numbered from 1
    mine,        \* the frame each thread has sent last
    token,       \* the token of each frame sent
    dataOnAir,   \* PUSH_DATA on their way, by frame number
    received,    \* frames the server has received
    ackOnAir,    \* PUSH_ACK on their way: [frame, copy]
    copies,      \* number of PUSH_ACK repeated by the network (bound)
    buffer,      \* receive buffer of the push socket: frames acknowledged
    report       \* what the code has reported of each frame

vars == <<stopped, owner, pc, sent, mine, token, dataOnAir, received, ackOnAir,
          copies, buffer, report>>
netVars == <<dataOnAir, received, ackOnAir, copies>>

FrameNumbers == 1..MaxFrames
Reports == {"open", "acked", "invalid", "silent", "stopped"}

Init ==
    /\ stopped = FALSE
    /\ owner = NoUser
    /\ pc = [u \in Users |-> "idle"]
    /\ sent = 0
    /\ mine = [u \in Users |-> 0]
    /\ token = <<>>
    /\ dataOnAir = {}
    /\ received = {}
    /\ ackOnAir = {}
    /\ copies = 0
    /\ buffer = <<>>
    /\ report = <<>>
-----------------------------------------------------------------------------
\* send_uplink_frame

\* Mutant: no mutex.
LockFree(u) ==
    /\ pc[u] = "idle"
    /\ owner' = u
    /\ pc' = [pc EXCEPT ![u] = "locked"]
    /\ UNCHANGED <<stopped, sent, mine, token, netVars, buffer, report>>

Lock(u) ==
    /\ pc[u] = "idle"
    /\ owner = NoUser
    /\ owner' = u
    /\ pc' = [pc EXCEPT ![u] = "locked"]
    /\ UNCHANGED <<stopped, sent, mine, token, netVars, buffer, report>>

\* The first return: the gateway was stopped.
Skip(u) ==
    /\ pc[u] = "locked"
    /\ stopped
    /\ owner' = NoUser
    /\ pc' = [pc EXCEPT ![u] = "idle"]
    /\ UNCHANGED <<stopped, sent, mine, token, netVars, buffer, report>>

\* The flag may rise between this test and the send.
Check(u) ==
    /\ pc[u] = "locked"
    /\ ~stopped
    /\ pc' = [pc EXCEPT ![u] = "send"]
    /\ UNCHANGED <<stopped, owner, sent, mine, token, netVars, buffer, report>>

Send(u) ==
    /\ pc[u] = "send"
    /\ sent < MaxFrames
    /\ sent' = sent + 1
    /\ mine' = [mine EXCEPT ![u] = sent + 1]
    /\ \E t \in Tokens : token' = Append(token, t)
    /\ dataOnAir' = dataOnAir \union {sent + 1}
    /\ report' = Append(report, "open")
    /\ pc' = [pc EXCEPT ![u] = "await"]
    /\ UNCHANGED <<stopped, owner, received, ackOnAir, copies, buffer>>

\* send_uplink_frame returns, with something to say of the frame it sent.
Return(u, verdict) ==
    /\ report' = [report EXCEPT ![mine[u]] = IF stopped THEN "stopped" ELSE verdict]
    /\ owner' = NoUser
    /\ pc' = [pc EXCEPT ![u] = "idle"]

\* Mutant: the tokens are not compared, as in is_pull_ack.
IsAnyAck(u, frame) == TRUE

\* is_push_ack
IsPushAck(u, frame) == token[frame] = token[mine[u]]

\* Mutant: the datagram is only looked at.
PeekAck(u) ==
    /\ pc[u] = "await"
    /\ buffer # <<>>
    /\ Return(u, IF IsPushAck(u, Head(buffer)) THEN "acked" ELSE "invalid")
    /\ UNCHANGED <<stopped, sent, mine, token, netVars, buffer>>

\* One datagram is read, the first of the buffer.
ReadAck(u) ==
    /\ pc[u] = "await"
    /\ buffer # <<>>
    /\ buffer' = Tail(buffer)
    /\ Return(u, IF IsPushAck(u, Head(buffer)) THEN "acked" ELSE "invalid")
    /\ UNCHANGED <<stopped, sent, mine, token, netVars>>

\* Nothing came within four seconds.
Timeout(u) ==
    /\ pc[u] = "await"
    /\ buffer = <<>>
    /\ Return(u, "silent")
    /\ UNCHANGED <<stopped, sent, mine, token, netVars, buffer>>

\* simulator::stop
Stop ==
    /\ ~stopped
    /\ stopped' = TRUE
    /\ UNCHANGED <<owner, pc, sent, mine, token, netVars, buffer, report>>
-----------------------------------------------------------------------------
\* The network and the server (external): datagrams are lost, delayed and
\* overtaken; acknowledgements are also repeated.

ServerReceives(n) ==
    /\ n \in dataOnAir
    /\ dataOnAir' = dataOnAir \ {n}
    /\ received' = received \union {n}
    /\ ackOnAir' = ackOnAir \union {[frame |-> n, copy |-> 0]}
    /\ UNCHANGED <<stopped, owner, pc, sent, mine, token, copies, buffer, report>>

LoseData(n) ==
    /\ n \in dataOnAir
    /\ dataOnAir' = dataOnAir \ {n}
    /\ UNCHANGED <<stopped, owner, pc, sent, mine, token, received, ackOnAir, copies, buffer, report>>

RepeatAck(ack) ==
    /\ ack \in ackOnAir
    /\ copies < MaxCopies
    /\ copies' = copies + 1
    /\ ackOnAir' = ackOnAir \union {[ack EXCEPT !.copy = copies + 1]}
    /\ UNCHANGED <<stopped, owner, pc, sent, mine, token, dataOnAir, received, buffer, report>>

LoseAck(ack) ==
    /\ ack \in ackOnAir
    /\ ackOnAir' = ackOnAir \ {ack}
    /\ UNCHANGED <<stopped, owner, pc, sent, mine, token, dataOnAir, received, copies, buffer, report>>

AckArrives(ack) ==
    /\ ack \in ackOnAir
    /\ ackOnAir' = ackOnAir \ {ack}
    /\ buffer' = Append(buffer, ack.frame)
    /\ UNCHANGED <<stopped, owner, pc, sent, mine, token, dataOnAir, received, copies, report>>
-----------------------------------------------------------------------------
UserStep(u) == Lock(u) \/ Skip(u) \/ Check(u) \/ Send(u) \/ ReadAck(u) \/ Timeout(u)

Network ==
    \/ \E n \in dataOnAir : ServerReceives(n) \/ LoseData(n)
    \/ \E ack \in ackOnAir : RepeatAck(ack) \/ LoseAck(ack) \/ AckArrives(ack)

Next == (\E u \in Users : UserStep(u)) \/ Stop \/ Network

Spec == Init /\ [][Next]_vars
-----------------------------------------------------------------------------
\* The type invariant.
TypeOK ==
    /\ stopped \in BOOLEAN
    /\ owner \in Users \union {NoUser}
    /\ pc \in [Users -> {"idle", "locked", "send", "await"}]
    /\ sent \in 0..MaxFrames
    /\ mine \in [Users -> 0..sent]
    /\ token \in Seq(Tokens) /\ Len(token) = sent
    /\ report \in Seq(Reports) /\ Len(report) = sent
    /\ dataOnAir \subseteq 1..sent
    /\ received \subseteq 1..sent
    /\ ackOnAir \subseteq [frame : received, copy : 0..copies]
    /\ copies \in 0..MaxCopies
    /\ buffer \in Seq(received)

Reported(verdict) == {n \in 1..sent : report[n] = verdict}

\* "Receive PUSH_ACK packet" (gateway.cpp:71) is true of the frame up to the
\* collision of two tokens: the server received it, or an earlier frame with
\* the same two random bytes.
AckedWasReceived ==
    \A n \in Reported("acked") : \E m \in received : m <= n /\ token[m] = token[n]

\* It takes two accidents at once to report a lost frame as acknowledged: the
\* collision above, and an acknowledgement that outlived its exchange.  The
\* latter the network repeated, or the four seconds of its exchange were over
\* before it came (gateway.cpp:64-71).
FalseAckOnlyAfterLate ==
    \A n \in Reported("acked") :
        n \notin received => copies > 0 \/ \E m \in Reported("silent") : m < n

\* "Receive invalid packet" (gateway.cpp:73) never comes out of the blue: the
\* network repeated an acknowledgement, or an earlier exchange of this socket
\* was given up before its acknowledgement came.  The push mutex keeps the
\* threads from reading each other's acknowledgements.
InvalidOnlyAfterLate ==
    \A n \in Reported("invalid") :
        copies > 0 \/ \E m \in Reported("silent") : m < n

\* The acknowledgements that wait to confuse a later exchange are bounded by
\* the exchanges given up so far: each other one has read a datagram.  Past
\* the stop nothing reads any more, so the bound is that of a live gateway.
BacklogPaidByTimeouts ==
    ~stopped =>
        Len(buffer) + Cardinality(ackOnAir) + Cardinality(dataOnAir)
            <= Cardinality(Reported("silent")) + Cardinality(Reported("open")) + copies
=============================================================================
