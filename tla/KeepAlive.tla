----------------------------- MODULE KeepAlive -----------------------------
(***************************************************************************)
(* The two threads of one gateway and their pull socket, with time         *)
(* (gateway::keep_alive and gateway::handle_downlink_frame of              *)
(* src/core/gateway.cpp).  The keep-alive thread sends PULL_DATA and       *)
(* sleeps, longer when _connected is set; the downlink thread waits for    *)
(* datagrams, sets _connected on a PULL_ACK and resets it when the server  *)
(* has been silent for the duration of a receive.  Nothing but the choice  *)
(* of the durations makes the two fit.                                     *)
(*                                                                         *)
(* Time passes in ticks.  There is no clock, only what is left of each     *)
(* sleep and the age of each exchange, and these count down and up.  A     *)
(* sleep lasts its duration at least and Lag ticks more at most;           *)
(* computing takes no time.  What the downlink thread does with a          *)
(* PULL_RESP is in module Gateway.                                         *)
(***************************************************************************)
EXTENDS Integers, Sequences

CONSTANTS
    Short, Long,       \* keep_alive: the sleep after a PULL_DATA (1 s), and
                       \*   the sleep added when connected (15 s)
    Receive, Pause,    \* handle_downlink_frame: timeout (16 s), pause (50 ms)
    Lag,               \* how late a sleep or a timeout may end
    MinTrip, MaxTrip,  \* from a PULL_DATA to its PULL_ACK
    MaxBacklog         \* bound: no stray datagram joins that many others

ASSUME TimingAssumption ==
    /\ Short \in Nat \ {0} /\ Long \in Nat
    /\ Receive \in Nat /\ Pause \in 0..Receive
    /\ Lag \in Nat
    /\ MaxTrip \in Nat /\ MinTrip \in 0..MaxTrip
    /\ MaxBacklog \in Nat \ {0}

VARIABLES
    connected,   \* gateway::_connected
    stopped,     \* gateway::_stopped
    halted,      \* has gateway::stop been called?
    kaPc,        \* the keep-alive thread
    kaLeft,      \* what is left of its sleep, negative when it is late
    pullPc,      \* the downlink thread
    pullLeft,    \* what is left of its receive or its pause
    flying,      \* the PULL_DATA whose PULL_ACK has still to arrive: their ages
    socket,      \* datagrams waiting in the pull socket
    lost,        \* history: has a PULL_DATA not been answered?
    sinceLoss,   \* history: ticks since the last of these, or the start
    silence,     \* history: ticks since a datagram arrived
    sinceStop    \* history: ticks since _stopped was set (it ends the others)

kaVars   == <<kaPc, kaLeft>>
pullVars == <<pullPc, pullLeft>>
flags    == <<connected, stopped, halted>>
netVars  == <<flying, socket>>
history  == <<lost, sinceLoss, silence, sinceStop>>
vars     == <<flags, kaVars, pullVars, netVars, history>>

KaPcs     == {"loop", "short", "long", "ended"}
PullPcs   == {"loop", "receive", "ack", "pause", "ended"}
Datagrams == {"ack", "other"}

\* The bounds of the properties below, in ticks.  Besides the strays the socket
\* may hold two acknowledgements, even of an Unhurried server.
MaxWaiting    == MaxBacklog + 2
LongestRound  == Short + Long + 2 * Lag
AnswerBound   == LongestRound + MaxTrip + (MaxBacklog + 1) * (Pause + Lag)
SilenceBound  == MaxWaiting * (Pause + Lag) + Receive + Lag
StopBound     == IF LongestRound < Receive + Lag THEN Receive + Lag ELSE LongestRound

Init ==
    /\ connected = FALSE
    /\ stopped = FALSE
    /\ halted = FALSE
    /\ kaPc = "loop" /\ kaLeft = 0
    /\ pullPc = "loop" /\ pullLeft = 0
    /\ flying = {}
    /\ socket = <<>>
    /\ lost = FALSE
    /\ sinceLoss = 0
    /\ silence = 0
    /\ sinceStop = 0
-----------------------------------------------------------------------------
\* keep_alive

KeepAliveEnd ==
    /\ kaPc = "loop"
    /\ stopped
    /\ kaPc' = "ended"
    /\ UNCHANGED <<flags, kaLeft, pullVars, netVars, history>>

\* PULL_DATA is sent, and the thread begins to sleep.  Either the server will
\* answer, or the PULL_DATA or its PULL_ACK gets lost.
KeepAliveSend ==
    /\ kaPc = "loop"
    /\ ~stopped
    /\ kaPc' = "short"
    /\ kaLeft' = Short
    /\ \/ flying' = flying \union {0} /\ UNCHANGED <<lost, sinceLoss>>
       \/ lost' = TRUE /\ sinceLoss' = 0 /\ UNCHANGED flying
    /\ UNCHANGED <<flags, pullVars, socket, silence, sinceStop>>

\* Mutant: the whole period is slept again.
KeepAliveTestTooLong ==
    /\ kaPc = "short"
    /\ kaLeft <= 0
    /\ IF connected
       THEN kaPc' = "long" /\ kaLeft' = Short + Long
       ELSE kaPc' = "loop" /\ UNCHANGED kaLeft
    /\ UNCHANGED <<flags, pullVars, netVars, history>>

\* _connected is read once, after the short sleep.
KeepAliveTest ==
    /\ kaPc = "short"
    /\ kaLeft <= 0
    /\ IF connected
       THEN kaPc' = "long" /\ kaLeft' = Long
       ELSE kaPc' = "loop" /\ UNCHANGED kaLeft
    /\ UNCHANGED <<flags, pullVars, netVars, history>>

\* Mutant: sleeps on for as long as the gateway is connected.
KeepAliveWakeAgain ==
    /\ kaPc = "long"
    /\ kaLeft <= 0
    /\ IF connected
       THEN kaLeft' = Long /\ UNCHANGED kaPc
       ELSE kaPc' = "loop" /\ UNCHANGED kaLeft
    /\ UNCHANGED <<flags, pullVars, netVars, history>>

KeepAliveWake ==
    /\ kaPc = "long"
    /\ kaLeft <= 0
    /\ kaPc' = "loop"
    /\ UNCHANGED <<flags, kaLeft, pullVars, netVars, history>>
-----------------------------------------------------------------------------
\* handle_downlink_frame

\* Mutant: waits for the long sleep of the other thread only.
PullCheckImpatient ==
    /\ pullPc = "loop"
    /\ IF stopped
       THEN pullPc' = "ended" /\ UNCHANGED pullLeft
       ELSE pullPc' = "receive" /\ pullLeft' = Long
    /\ UNCHANGED <<flags, kaVars, netVars, history>>

PullCheck ==
    /\ pullPc = "loop"
    /\ IF stopped
       THEN pullPc' = "ended" /\ UNCHANGED pullLeft
       ELSE pullPc' = "receive" /\ pullLeft' = Receive
    /\ UNCHANGED <<flags, kaVars, netVars, history>>

\* Mutant: a timeout is told by a length of zero.
PullTimeoutUnnoticed ==
    /\ pullPc = "receive"
    /\ socket = <<>>
    /\ pullLeft <= 0
    /\ IF stopped
       THEN pullPc' = "ended" /\ UNCHANGED pullLeft
       ELSE pullPc' = "pause" /\ pullLeft' = Pause
    /\ UNCHANGED <<flags, kaVars, netVars, history>>

\* timeout_recvfrom returns -1: the server is taken for gone.
PullTimeout ==
    /\ pullPc = "receive"
    /\ socket = <<>>
    /\ pullLeft <= 0
    /\ IF stopped
       THEN pullPc' = "ended" /\ UNCHANGED <<pullLeft, connected>>
       ELSE pullPc' = "pause" /\ pullLeft' = Pause /\ connected' = FALSE
    /\ UNCHANGED <<stopped, halted, kaVars, netVars, history>>

\* A datagram wakes the thread, which reads its flag and looks at the
\* datagram.  is_pull_ack compares no token: any PULL_ACK will do.
PullReceive ==
    /\ pullPc = "receive"
    /\ socket # <<>>
    /\ socket' = Tail(socket)
    /\ IF stopped
       THEN pullPc' = "ended" /\ UNCHANGED pullLeft
       ELSE IF Head(socket) = "ack"
       THEN pullPc' = "ack" /\ UNCHANGED pullLeft
       ELSE pullPc' = "pause" /\ pullLeft' = Pause
    /\ UNCHANGED <<flags, kaVars, flying, history>>

\* Mutant: the acknowledgement is only logged.
PullAckLogged ==
    /\ pullPc = "ack"
    /\ pullPc' = "pause"
    /\ pullLeft' = Pause
    /\ UNCHANGED <<flags, kaVars, netVars, history>>

\* The flag may have risen since it was read, and gateway::stop may have
\* reset _connected.
PullAck ==
    /\ pullPc = "ack"
    /\ connected' = TRUE
    /\ pullPc' = "pause"
    /\ pullLeft' = Pause
    /\ UNCHANGED <<stopped, halted, kaVars, netVars, history>>

PullResume ==
    /\ pullPc = "pause"
    /\ pullLeft <= 0
    /\ pullPc' = "loop"
    /\ UNCHANGED <<flags, kaVars, pullLeft, netVars, history>>
-----------------------------------------------------------------------------
\* simulator::stop raises the flag, and later calls gateway::stop.

RaiseStopped ==
    /\ ~stopped
    /\ stopped' = TRUE
    /\ sinceLoss' = 0
    /\ silence' = 0
    /\ UNCHANGED <<connected, halted, kaVars, pullVars, netVars, lost, sinceStop>>

Halt ==
    /\ stopped
    /\ ~halted
    /\ halted' = TRUE
    /\ connected' = FALSE
    /\ UNCHANGED <<stopped, kaVars, pullVars, netVars, history>>
-----------------------------------------------------------------------------
\* The network and the server (external).  An acknowledgement takes from
\* MinTrip to MaxTrip, in any order.

AckArrives(age) ==
    /\ age \in flying
    /\ age >= MinTrip
    /\ flying' = flying \ {age}
    /\ socket' = Append(socket, "ack")
    /\ silence' = 0
    /\ UNCHANGED <<flags, kaVars, pullVars, lost, sinceLoss, sinceStop>>

\* A PULL_RESP, anything invalid, or a PULL_ACK repeated by the network.
StrayArrives(datagram) ==
    /\ pullPc # "ended"
    /\ Len(socket) < MaxBacklog
    /\ socket' = Append(socket, datagram)
    /\ silence' = 0
    /\ UNCHANGED <<flags, kaVars, pullVars, flying, lost, sinceLoss, sinceStop>>
-----------------------------------------------------------------------------
\* Time

Asleep(pc, left) ==
    \/ pc \in {"short", "long", "receive", "pause"} /\ left > -Lag
    \/ pc = "ended"

\* A history counter stops counting past the bound it is compared with.
Aged(n, bound) == IF n > bound THEN n ELSE n + 1

LeftAfterTick(pc, left) == IF pc = "ended" THEN left ELSE left - 1

\* Time passes when nobody has anything to do and no acknowledgement is due.
Tick ==
    /\ Asleep(kaPc, kaLeft)
    /\ Asleep(pullPc, pullLeft)
    /\ ~(pullPc = "receive" /\ socket # <<>>)
    /\ MaxTrip \notin flying
    /\ kaLeft' = LeftAfterTick(kaPc, kaLeft)
    /\ pullLeft' = LeftAfterTick(pullPc, pullLeft)
    /\ flying' = {age + 1 : age \in flying}
    /\ IF stopped
       THEN sinceStop' = Aged(sinceStop, StopBound) /\ UNCHANGED <<sinceLoss, silence>>
       ELSE /\ sinceLoss' = Aged(sinceLoss, AnswerBound)
            /\ silence' = Aged(silence, SilenceBound)
            /\ UNCHANGED sinceStop
    /\ UNCHANGED <<flags, kaPc, pullPc, socket, lost>>
-----------------------------------------------------------------------------
KeepAliveThread == KeepAliveEnd \/ KeepAliveSend \/ KeepAliveTest \/ KeepAliveWake

PullThread ==
    PullCheck \/ PullTimeout \/ PullReceive \/ PullAck \/ PullResume

Environment ==
    \/ RaiseStopped \/ Halt
    \/ \E age \in flying : AckArrives(age)
    \/ \E datagram \in Datagrams : StrayArrives(datagram)

Next == KeepAliveThread \/ PullThread \/ Environment \/ Tick

Spec == Init /\ [][Next]_vars
-----------------------------------------------------------------------------
\* The type invariant.
TypeOK ==
    /\ connected \in BOOLEAN /\ stopped \in BOOLEAN /\ halted \in BOOLEAN
    /\ kaPc \in KaPcs
    /\ kaLeft \in Int /\ kaLeft >= -Lag
    /\ kaLeft <= (IF Short < Long THEN Long ELSE Short)
    /\ pullPc \in PullPcs
    /\ pullLeft \in (-Lag)..Receive
    /\ flying \subseteq 0..MaxTrip
    /\ socket \in Seq(Datagrams)
    /\ lost \in BOOLEAN
    /\ sinceLoss \in 0..(AnswerBound + 1)
    /\ silence \in 0..(SilenceBound + 1)
    /\ sinceStop \in 0..(StopBound + 1)

\* The durations fit: a receive and a pause outlast a round of keep_alive by
\* more than the round trip varies.  In the program Short + Long = Receive,
\* so all the play there is are the 50 ms of the pause.
SteadyNetwork ==
    /\ LongestRound + (MaxTrip - MinTrip) < Pause + Receive
    /\ MaxTrip < Pause + Receive

\* A connected gateway whose PULL_DATA are all answered stays connected
\* (gateway.cpp:80-142), although the two threads share nothing but the flag
\* and the answers come in any order within their round trips.
StaysConnected ==
    [][(SteadyNetwork /\ connected /\ ~lost' /\ ~halted') => connected']_vars

\* When the server comes back, or for the first time, the gateway is
\* connected after one period, one round trip and the datagrams ahead of the
\* answer, and then stays so for as long as every PULL_DATA is answered
\* (gateway.cpp:91, gateway.cpp:130).
ConnectedOnceAnswered ==
    (SteadyNetwork /\ ~stopped /\ sinceLoss > AnswerBound) => connected

\* The round trip varies by less than the short sleep of keep_alive, so that
\* the downlink thread is done with one acknowledgement when the next arrives.
\* In the program the pause of 50 ms stands against the sleep of 1 s.
Unhurried ==
    /\ MaxTrip - MinTrip < Short
    /\ Pause + Lag + (MaxTrip - MinTrip) <= Short

\* A server that sends nothing is taken for gone after the datagrams still
\* waiting and one receive (gateway.cpp:134-137).
SilenceNoticed ==
    (Unhurried /\ ~stopped /\ silence > SilenceBound) => ~connected

\* Once the flag is up both threads end within one period of keep_alive or one
\* receive, whatever the server does and wherever they were: that is what
\* gateway::stop waits for (gateway.cpp:28-42).
StopsInTime == sinceStop > StopBound => kaPc = "ended" /\ pullPc = "ended"
=============================================================================
