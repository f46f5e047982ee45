-------------------------- MODULE KeepAliveProofs --------------------------
(***************************************************************************)
(* What holds of the two threads of a gateway for every choice of the      *)
(* durations.                                                              *)
(***************************************************************************)
EXTENDS KeepAlive, SequenceTheorems, TLAPS

\* The bounds are numbers.
LEMMA BoundsAreNumbers ==
    AnswerBound \in Nat /\ SilenceBound \in Nat /\ StopBound \in Nat /\ LongestRound \in Nat
<1>1. Short \in Nat /\ Long \in Nat /\ Receive \in Nat /\ Pause \in Nat /\ Lag \in Nat
        /\ MaxTrip \in Nat /\ MaxBacklog \in Nat
  BY TimingAssumption
<1>2. LongestRound \in Nat
  BY <1>1 DEF LongestRound
<1>3. (MaxBacklog + 1) * (Pause + Lag) \in Nat /\ (MaxBacklog + 2) * (Pause + Lag) \in Nat
  BY <1>1
<1>4. QED
  BY <1>1, <1>2, <1>3 DEF AnswerBound, SilenceBound, StopBound, MaxWaiting

\* A counter that stops past its bound stays within it.
LEMMA AgedInRange ==
    ASSUME NEW bound \in Nat, NEW n \in 0..(bound + 1)
    PROVE  Aged(n, bound) \in 0..(bound + 1)
BY DEF Aged

-----------------------------------------------------------------------------
\* Types.  A sleep is no longer than what it was set to.

KeepAliveType ==
    /\ kaPc \in KaPcs
    /\ kaLeft \in Int /\ kaLeft >= -Lag
    /\ kaPc = "short" => kaLeft <= Short
    /\ kaPc = "long" => kaLeft <= Long
    /\ kaLeft <= (IF Short < Long THEN Long ELSE Short)

PullType ==
    /\ pullPc \in PullPcs
    /\ pullLeft \in (-Lag)..Receive
    /\ pullPc = "pause" => pullLeft <= Pause

NetType ==
    /\ flying \subseteq 0..MaxTrip
    /\ socket \in Seq(Datagrams)

FlagType == connected \in BOOLEAN /\ stopped \in BOOLEAN /\ halted \in BOOLEAN

HistoryType ==
    /\ lost \in BOOLEAN
    /\ sinceLoss \in 0..(AnswerBound + 1)
    /\ silence \in 0..(SilenceBound + 1)
    /\ sinceStop \in 0..(StopBound + 1)

Types == KeepAliveType /\ PullType /\ NetType /\ FlagType /\ HistoryType

\* The types hold at first.
LEMMA InitTypes == Init => Types
<1> SUFFICES ASSUME Init PROVE Types
  OBVIOUS
<1>1. KeepAliveType /\ PullType
  BY TimingAssumption DEF Init, KeepAliveType, PullType, KaPcs, PullPcs
<1>2. NetType
  BY EmptySeq DEF Init, NetType
<1>3. FlagType /\ lost \in BOOLEAN
  BY DEF Init, FlagType
<1>4. HistoryType
  <2>1. sinceLoss = 0 /\ silence = 0 /\ sinceStop = 0
    BY DEF Init
  <2>2. QED
    BY <1>3, <2>1, BoundsAreNumbers DEF HistoryType
<1>5. QED
  BY <1>1, <1>2, <1>3, <1>4 DEF Types

\* Every step of the keep-alive thread keeps the types.
LEMMA KeepAliveTypes == ASSUME Types, KeepAliveThread PROVE Types'
<1> USE DEF Types
<1>1. CASE KeepAliveEnd
  BY <1>1 DEF KeepAliveEnd, KeepAliveType, PullType, NetType, FlagType, HistoryType, KaPcs,
     flags, pullVars, netVars, history
<1>2. CASE KeepAliveSend
  <2>1. KeepAliveType'
    BY <1>2, TimingAssumption DEF KeepAliveSend, KeepAliveType, KaPcs
  <2>2. PullType' /\ FlagType'
    BY <1>2 DEF KeepAliveSend, PullType, FlagType, pullVars, flags
  <2>3. NetType'
    <3>1. (flying' = flying \union {0} \/ flying' = flying) /\ socket' = socket
      BY <1>2 DEF KeepAliveSend
    <3>2. 0 \in 0..MaxTrip
      BY TimingAssumption
    <3>3. flying' \subseteq 0..MaxTrip
      BY <3>1, <3>2 DEF NetType
    <3>4. QED
      BY <3>1, <3>3 DEF NetType
  <2>4. HistoryType'
    <3>1. lost' \in BOOLEAN
      BY <1>2 DEF KeepAliveSend, HistoryType
    <3>2. /\ sinceLoss' = sinceLoss \/ sinceLoss' = 0
          /\ silence' = silence /\ sinceStop' = sinceStop
      BY <1>2 DEF KeepAliveSend
    <3>3. QED
      BY <3>1, <3>2, BoundsAreNumbers DEF HistoryType
  <2>5. QED
    BY <2>1, <2>2, <2>3, <2>4
<1>3. CASE KeepAliveTest
  <2>1. KeepAliveType'
    BY <1>3, TimingAssumption DEF KeepAliveTest, KeepAliveType, KaPcs
  <2>2. QED
    BY <1>3, <2>1 DEF KeepAliveTest, PullType, NetType, FlagType, HistoryType,
       flags, pullVars, netVars, history
<1>4. CASE KeepAliveWake
  BY <1>4 DEF KeepAliveWake, KeepAliveType, PullType, NetType, FlagType, HistoryType, KaPcs,
     flags, pullVars, netVars, history
<1>5. QED
  BY <1>1, <1>2, <1>3, <1>4 DEF KeepAliveThread

\* Every step of the downlink thread keeps the types.
LEMMA PullTypes == ASSUME Types, PullThread PROVE Types'
<1> USE DEF Types
<1>1. CASE PullCheck
  <2>1. PullType'
    BY <1>1, TimingAssumption DEF PullCheck, PullType, PullPcs
  <2>2. QED
    BY <1>1, <2>1 DEF PullCheck, KeepAliveType, NetType, FlagType, HistoryType,
       flags, kaVars, netVars, history
<1>2. CASE PullTimeout
  <2>1. PullType'
    BY <1>2, TimingAssumption DEF PullTimeout, PullType, PullPcs
  <2>2. FlagType'
    BY <1>2 DEF PullTimeout, FlagType
  <2>3. QED
    BY <1>2, <2>1, <2>2 DEF PullTimeout, KeepAliveType, NetType, HistoryType,
       kaVars, netVars, history
<1>3. CASE PullReceive
  <2>1. PullType'
    BY <1>3, TimingAssumption DEF PullReceive, PullType, PullPcs
  <2>2. NetType'
    BY <1>3 DEF PullReceive, NetType
  <2>3. QED
    BY <1>3, <2>1, <2>2 DEF PullReceive, KeepAliveType, FlagType, HistoryType,
       flags, kaVars, history
<1>4. CASE PullAck
  <2>1. PullType' /\ FlagType'
    BY <1>4, TimingAssumption DEF PullAck, PullType, FlagType, PullPcs
  <2>2. QED
    BY <1>4, <2>1 DEF PullAck, KeepAliveType, NetType, HistoryType, kaVars, netVars, history
<1>5. CASE PullResume
  BY <1>5 DEF PullResume, KeepAliveType, PullType, NetType, FlagType, HistoryType, PullPcs,
     flags, kaVars, netVars, history
<1>6. QED
  BY <1>1, <1>2, <1>3, <1>4, <1>5 DEF PullThread

\* Every step of the environment keeps the types.
LEMMA EnvironmentTypes == ASSUME Types, Environment PROVE Types'
<1> USE DEF Types
<1>1. CASE RaiseStopped
  BY <1>1, BoundsAreNumbers DEF RaiseStopped, KeepAliveType, PullType, NetType, FlagType,
     HistoryType, kaVars, pullVars, netVars
<1>2. CASE Halt
  BY <1>2 DEF Halt, KeepAliveType, PullType, NetType, FlagType, HistoryType,
     kaVars, pullVars, netVars, history
<1>3. ASSUME NEW age \in flying, AckArrives(age) PROVE Types'
  <2>1. NetType'
    BY <1>3 DEF AckArrives, NetType, Datagrams
  <2>2. HistoryType'
    BY <1>3, BoundsAreNumbers DEF AckArrives, HistoryType
  <2>3. QED
    BY <1>3, <2>1, <2>2 DEF AckArrives, KeepAliveType, PullType, FlagType,
       flags, kaVars, pullVars
<1>4. ASSUME NEW datagram \in Datagrams, StrayArrives(datagram) PROVE Types'
  <2>1. NetType'
    BY <1>4 DEF StrayArrives, NetType
  <2>2. HistoryType'
    BY <1>4, BoundsAreNumbers DEF StrayArrives, HistoryType
  <2>3. QED
    BY <1>4, <2>1, <2>2 DEF StrayArrives, KeepAliveType, PullType, FlagType,
       flags, kaVars, pullVars
<1>5. QED
  BY <1>1, <1>2, <1>3, <1>4 DEF Environment

\* The passing of time keeps the types: whoever is late by Lag blocks it.
LEMMA TickTypes == ASSUME Types, Tick PROVE Types'
<1>1. KeepAliveType'
  BY TimingAssumption DEF Types, Tick, KeepAliveType, Asleep, LeftAfterTick, KaPcs
<1>2. PullType'
  BY TimingAssumption DEF Types, Tick, PullType, Asleep, LeftAfterTick, PullPcs
<1>3. NetType'
  <2>1. flying' \subseteq 0..MaxTrip
    BY TimingAssumption DEF Types, Tick, NetType
  <2>2. QED
    BY <2>1 DEF Types, Tick, NetType
<1>4. HistoryType'
  BY AgedInRange, BoundsAreNumbers DEF Types, Tick, HistoryType
<1>5. FlagType'
  BY DEF Types, Tick, FlagType, flags
<1>6. QED
  BY <1>1, <1>2, <1>3, <1>4, <1>5 DEF Types

\* Every step keeps the types.
LEMMA TypesKept == ASSUME Types, [Next]_vars PROVE Types'
<1>1. CASE UNCHANGED vars
  BY <1>1 DEF Types, KeepAliveType, PullType, NetType, FlagType, HistoryType,
     vars, flags, kaVars, pullVars, netVars, history
<1>2. QED
  BY <1>1, KeepAliveTypes, PullTypes, EnvironmentTypes, TickTypes DEF Next

\* The types are inductive.
LEMMA TypesCorrect == Spec => []Types
BY InitTypes, TypesKept, PTL DEF Spec

\* Every variable keeps its type, for every choice of the durations.
THEOREM TypeCorrect == Spec => []TypeOK
<1>1. Types => TypeOK
  BY DEF Types, KeepAliveType, PullType, NetType, FlagType, HistoryType, TypeOK
<1>2. QED
  BY <1>1, TypesCorrect, PTL
-----------------------------------------------------------------------------
\* What is left of the sleeps, at most: until keep_alive is back at its loop,
\* and until handle_downlink_frame is, when nothing arrives.
UntilLoop ==
    IF kaPc = "short" THEN kaLeft + Long + 2 * Lag
    ELSE IF kaPc = "long" THEN kaLeft + Lag ELSE 0

UntilPullLoop ==
    IF pullPc \in {"receive", "pause"} THEN pullLeft + Lag
    ELSE IF pullPc = "ack" THEN Pause + Lag ELSE 0

\* A thread that has not ended has time left until its bound.
StopInv ==
    /\ ~stopped => sinceStop = 0
    /\ kaPc # "ended" => sinceStop + UntilLoop <= LongestRound
    /\ pullPc # "ended" => sinceStop + UntilPullLoop <= Receive + Lag
    /\ kaPc = "ended" \/ pullPc = "ended" => stopped

\* Until the earliest timeout: a receive that finds nothing lasts Receive.
UntilTimeout ==
    IF pullPc = "receive" THEN pullLeft
    ELSE IF pullPc = "ack" THEN Pause + Receive
    ELSE IF pullPc = "pause" /\ pullLeft > 0 THEN pullLeft + Receive
    ELSE Receive

\* The next PULL_DATA leaves soon enough, or the answer to the last is under
\* way.
RoundInv ==
    \/ kaPc = "loop"
    \/ UntilLoop + MinTrip <= LongestRound
    \/ \E age \in flying : UntilLoop + age <= LongestRound

\* An acknowledgement is here, or arrives before the earliest timeout.
AnswerInTime ==
    \/ socket # <<>>
    \/ \E age \in flying : MaxTrip - age < UntilTimeout
    \/ UntilLoop + MaxTrip < UntilTimeout

\* So it is while the PULL_DATA are answered.
AnswerKept == RoundInv /\ (SteadyNetwork /\ connected => AnswerInTime)
AnswerInv == ~lost /\ ~stopped => AnswerKept

\* A PULL_DATA sent in this step, if any, will be answered.
Answered == KeepAliveSend => flying' = flying \union {0}

\* The constants are numbers.
LEMMA Numbers ==
    /\ Short \in Nat /\ Long \in Nat /\ Receive \in Nat /\ Pause \in Nat /\ Lag \in Nat
    /\ MinTrip \in Nat /\ MaxTrip \in Nat /\ Pause <= Receive
  BY TimingAssumption

\* Each step of a thread keeps what the stop rests on.
LEMMA StopThreads == ASSUME Types, StopInv, KeepAliveThread \/ PullThread PROVE StopInv'
<1> USE Numbers DEF Types, KeepAliveType, PullType, HistoryType, StopInv, UntilLoop,
        UntilPullLoop, LongestRound
<1>1. CASE KeepAliveEnd
  BY <1>1 DEF KeepAliveEnd, flags, pullVars, netVars, history
<1>2. CASE KeepAliveSend
  BY <1>2 DEF KeepAliveSend, flags, pullVars
<1>3. CASE KeepAliveTest
  BY <1>3 DEF KeepAliveTest, flags, pullVars, netVars, history
<1>4. CASE KeepAliveWake
  BY <1>4 DEF KeepAliveWake, flags, pullVars, netVars, history
<1>5. CASE PullCheck
  BY <1>5 DEF PullCheck, flags, kaVars, netVars, history
<1>6. CASE PullTimeout
  BY <1>6 DEF PullTimeout, kaVars, netVars, history
<1>7. CASE PullReceive
  BY <1>7 DEF PullReceive, flags, kaVars, history
<1>8. CASE PullAck
  BY <1>8 DEF PullAck, kaVars, netVars, history
<1>9. CASE PullResume
  BY <1>9 DEF PullResume, flags, kaVars, netVars, history
<1>10. QED
  BY <1>1, <1>2, <1>3, <1>4, <1>5, <1>6, <1>7, <1>8, <1>9 DEF KeepAliveThread, PullThread

\* So does each step of the environment.
LEMMA StopEnvironment == ASSUME Types, StopInv, Environment PROVE StopInv'
<1> USE Numbers DEF Types, KeepAliveType, PullType, HistoryType, StopInv, UntilLoop,
        UntilPullLoop, LongestRound
<1>1. CASE RaiseStopped
  BY <1>1 DEF RaiseStopped, kaVars, pullVars
<1>2. CASE Halt
  BY <1>2 DEF Halt, kaVars, pullVars, history
<1>3. ASSUME NEW age \in flying, AckArrives(age) PROVE StopInv'
  BY <1>3 DEF AckArrives, flags, kaVars, pullVars
<1>4. ASSUME NEW datagram \in Datagrams, StrayArrives(datagram) PROVE StopInv'
  BY <1>4 DEF StrayArrives, flags, kaVars, pullVars
<1>5. QED
  BY <1>1, <1>2, <1>3, <1>4 DEF Environment

\* And so does a tick, which takes from the time left what it adds to the
\* time since the stop.
LEMMA StopTick == ASSUME Types, StopInv, Tick PROVE StopInv'
<1> USE Numbers DEF Types, KeepAliveType, PullType, HistoryType, StopInv
<1>1. /\ stopped' = stopped /\ kaPc' = kaPc /\ pullPc' = pullPc
      /\ Asleep(kaPc, kaLeft) /\ Asleep(pullPc, pullLeft)
      /\ kaLeft' = LeftAfterTick(kaPc, kaLeft) /\ pullLeft' = LeftAfterTick(pullPc, pullLeft)
  BY DEF Tick, flags
<1>2. sinceStop' \in Nat /\ sinceStop' <= sinceStop + 1 /\ (~stopped => sinceStop' = sinceStop)
  BY BoundsAreNumbers DEF Tick, Aged
<1>3. kaPc # "ended" => UntilLoop' = UntilLoop - 1
  <2>1. kaPc # "ended" => kaPc \in {"short", "long"} /\ kaLeft' = kaLeft - 1
    BY <1>1 DEF Asleep, LeftAfterTick, KaPcs
  <2>2. QED
    BY <1>1, <2>1 DEF UntilLoop
<1>4. pullPc # "ended" => UntilPullLoop' = UntilPullLoop - 1
  <2>1. pullPc # "ended" => pullPc \in {"receive", "pause"} /\ pullLeft' = pullLeft - 1
    BY <1>1 DEF Asleep, LeftAfterTick, PullPcs
  <2>2. QED
    BY <1>1, <2>1 DEF UntilPullLoop
<1>5. UntilLoop \in Int /\ UntilPullLoop \in Int /\ LongestRound \in Int
  BY DEF UntilLoop, UntilPullLoop, LongestRound
<1>6. QED
  BY <1>1, <1>2, <1>3, <1>4, <1>5

\* What the stop rests on is inductive.
LEMMA StopInvCorrect == Spec => []StopInv
<1>1. Init => StopInv
  BY Numbers DEF Init, StopInv, UntilLoop, UntilPullLoop, LongestRound
<1>2. ASSUME Types, StopInv, [Next]_vars PROVE StopInv'
  <2>1. CASE UNCHANGED vars
    BY <1>2, <2>1 DEF StopInv, UntilLoop, UntilPullLoop, vars, flags, kaVars, pullVars, history
  <2>2. QED
    BY <1>2, <2>1, StopThreads, StopEnvironment, StopTick DEF Next
<1>3. QED
  BY <1>1, <1>2, TypesCorrect, PTL DEF Spec

\* Once the flag is up both threads end within their bound, for every choice
\* of the durations (gateway.cpp:28-42).
THEOREM StopCorrect == Spec => []StopsInTime
<1>1. Types /\ StopInv => StopsInTime
  BY Numbers DEF Types, KeepAliveType, PullType, HistoryType, StopInv, StopsInTime, StopBound,
     LongestRound, UntilLoop, UntilPullLoop
<1>2. QED
  BY <1>1, TypesCorrect, StopInvCorrect, PTL
-----------------------------------------------------------------------------
\* At any time the next acknowledgement is less than a pause and a receive
\* away, if the network is steady.
LEMMA AnswerIsNear ==
    ASSUME Types, RoundInv, SteadyNetwork
    PROVE  \/ \E age \in flying : MaxTrip - age < Pause + Receive
           \/ UntilLoop + MaxTrip < Pause + Receive
<1> USE Numbers DEF Types, KeepAliveType, NetType
<1>1. CASE kaPc = "loop"
  BY <1>1 DEF UntilLoop, SteadyNetwork
<1>2. CASE UntilLoop + MinTrip <= LongestRound
  <2>1. UntilLoop \in Int /\ LongestRound \in Int
    BY DEF UntilLoop, LongestRound
  <2>2. QED
    BY <1>2, <2>1 DEF SteadyNetwork
<1>3. ASSUME NEW age \in flying PROVE MaxTrip - age < Pause + Receive
  BY <1>3 DEF SteadyNetwork
<1>4. QED
  BY <1>1, <1>2, <1>3 DEF RoundInv

\* What is left of a round is a natural number, and no longer than one.
LEMMA UntilLoopBounded ==
    ASSUME Types
    PROVE  UntilLoop \in Nat /\ UntilLoop <= LongestRound
BY Numbers DEF Types, KeepAliveType, UntilLoop, LongestRound

\* Whatever meets a deadline meets it if it begins sooner.
LEMMA Sooner ==
    ASSUME NEW early \in Int, NEW late \in Int, NEW span \in Int, NEW end \in Int,
           early <= late
    PROVE  /\ late + span <= end => early + span <= end
           /\ late + span < end => early + span < end
OBVIOUS

\* The next PULL_DATA leaves in time as long as the last one was answered.
LEMMA RoundSteps ==
    ASSUME Types, StopInv, RoundInv, [Next]_vars, Answered, ~stopped'
    PROVE  RoundInv'
<1> USE Numbers DEF Types, KeepAliveType, NetType
<1>0. UntilLoop \in Int /\ LongestRound \in Int
  BY UntilLoopBounded, BoundsAreNumbers
<1>1. CASE UNCHANGED <<kaPc, kaLeft, flying>>
  BY <1>1 DEF RoundInv, UntilLoop
<1>2. CASE KeepAliveSend
  <2>1. UntilLoop' = LongestRound /\ flying' = flying \union {0}
    BY <1>2 DEF KeepAliveSend, UntilLoop, LongestRound, Answered
  <2>2. QED
    BY <1>0, <2>1 DEF RoundInv
<1>3. CASE KeepAliveTest \/ KeepAliveWake
  <2>1. kaPc # "loop" /\ flying' = flying
    BY <1>3 DEF KeepAliveTest, KeepAliveWake, netVars
  <2>2. PICK n \in Int : n = UntilLoop' /\ n <= UntilLoop
    BY <1>3 DEF KeepAliveTest, KeepAliveWake, UntilLoop
  <2>3. ASSUME NEW span \in Int, UntilLoop + span <= LongestRound
        PROVE  UntilLoop' + span <= LongestRound
    BY <1>0, <2>2, <2>3, Sooner
  <2>4. CASE UntilLoop + MinTrip <= LongestRound
    BY <2>3, <2>4 DEF RoundInv
  <2>5. ASSUME NEW age \in flying, UntilLoop + age <= LongestRound PROVE RoundInv'
    <3>1. age \in Int
      OBVIOUS
    <3>2. QED
      BY <2>1, <2>3, <2>5, <3>1 DEF RoundInv
  <2>6. QED
    BY <2>1, <2>4, <2>5 DEF RoundInv
<1>4. ASSUME NEW age \in flying, AckArrives(age) PROVE RoundInv'
  <2>1. UNCHANGED <<kaPc, kaLeft>> /\ flying' = flying \ {age} /\ age >= MinTrip
    BY <1>4 DEF AckArrives, kaVars
  <2>2. UntilLoop' = UntilLoop
    BY <2>1 DEF UntilLoop
  <2>3. QED
    BY <1>0, <2>1, <2>2 DEF RoundInv
<1>5. CASE Tick
  <2>1. /\ kaPc \in {"short", "long"} /\ kaPc' = kaPc /\ kaLeft' = kaLeft - 1
        /\ flying' = {age + 1 : age \in flying}
    BY <1>5 DEF Tick, Asleep, LeftAfterTick, StopInv, KaPcs, flags
  <2>2. UntilLoop' = UntilLoop - 1
    BY <2>1 DEF UntilLoop
  <2>3. CASE UntilLoop + MinTrip <= LongestRound
    BY <1>0, <2>2, <2>3 DEF RoundInv
  <2>4. ASSUME NEW age \in flying, UntilLoop + age <= LongestRound PROVE RoundInv'
    <3>1. age + 1 \in flying' /\ UntilLoop' + (age + 1) <= LongestRound
      BY <1>0, <2>1, <2>2, <2>4
    <3>2. QED
      BY <3>1 DEF RoundInv
  <2>5. QED
    BY <2>1, <2>3, <2>4 DEF RoundInv
<1>6. KeepAliveEnd => stopped'
  BY DEF KeepAliveEnd, flags
<1>7. CASE PullThread \/ RaiseStopped \/ Halt
           \/ \E datagram \in Datagrams : StrayArrives(datagram)
  BY <1>1, <1>7 DEF PullThread, PullCheck, PullTimeout, PullReceive, PullAck, PullResume,
     RaiseStopped, Halt, StrayArrives, kaVars, netVars
<1>8. CASE UNCHANGED vars
  BY <1>1, <1>8 DEF vars, kaVars, netVars
<1>9. QED
  BY <1>2, <1>3, <1>4, <1>5, <1>6, <1>7, <1>8 DEF Next, KeepAliveThread, Environment

\* The keep-alive thread sends in time.
LEMMA AnswerKeepAlive ==
    ASSUME Types, StopInv, AnswerKept, KeepAliveThread, Answered, ~stopped'
    PROVE  AnswerKept'
<1> SUFFICES SteadyNetwork' /\ connected' => AnswerInTime'
  BY RoundSteps DEF AnswerKept, Next
<1> USE Numbers DEF Types, KeepAliveType, PullType, NetType
<1>1. CASE KeepAliveEnd
  BY <1>1 DEF KeepAliveEnd, flags
<1>2. CASE KeepAliveSend
  <2>1. /\ flying' = flying \union {0}
        /\ socket' = socket /\ pullPc' = pullPc /\ pullLeft' = pullLeft
        /\ connected' = connected /\ kaPc = "loop"
    BY <1>2 DEF KeepAliveSend, pullVars, flags, Answered
  <2>2. ASSUME SteadyNetwork, connected PROVE AnswerInTime'
    <3>1. AnswerInTime /\ UntilTimeout' = UntilTimeout /\ UntilTimeout \in Int /\ UntilLoop = 0
      BY <2>1, <2>2 DEF AnswerKept, UntilTimeout, UntilLoop
    <3>2. QED
      BY <2>1, <3>1 DEF AnswerInTime
  <2>3. QED
    BY <2>1, <2>2 DEF SteadyNetwork
<1>3. CASE KeepAliveTest \/ KeepAliveWake
  <2>1. /\ flying' = flying
        /\ socket' = socket /\ pullPc' = pullPc /\ pullLeft' = pullLeft
        /\ connected' = connected
    BY <1>3 DEF KeepAliveTest, KeepAliveWake, pullVars, flags, netVars
  <2>2. kaPc # "loop" /\ UntilLoop \in Int
    BY <1>3 DEF KeepAliveTest, KeepAliveWake, UntilLoop
  <2>3. PICK n \in Int : n = UntilLoop' /\ n <= UntilLoop
    BY <1>3 DEF KeepAliveTest, KeepAliveWake, UntilLoop
  <2>4. /\ UntilTimeout' = UntilTimeout /\ UntilTimeout \in Int
        /\ MinTrip \in Int /\ MaxTrip \in Int
    BY <2>1 DEF UntilTimeout
  <2>5. ASSUME SteadyNetwork, connected PROVE AnswerInTime'
    <3>1. AnswerInTime
      BY <2>1, <2>5 DEF AnswerKept
    <3>2. ASSUME UntilLoop + MaxTrip < UntilTimeout PROVE AnswerInTime'
      <4>1. n + MaxTrip < UntilTimeout
        BY <2>2, <2>3, <2>4, <3>2, Sooner
      <4>2. QED
        BY <2>3, <2>4, <4>1 DEF AnswerInTime
    <3>3. CASE \E age \in flying : MaxTrip - age < UntilTimeout
      BY <2>1, <2>4, <3>3 DEF AnswerInTime
    <3>4. QED
      BY <2>1, <3>1, <3>2, <3>3 DEF AnswerInTime
  <2>6. QED
    BY <2>1, <2>5 DEF SteadyNetwork
<1>4. QED
  BY <1>1, <1>2, <1>3 DEF KeepAliveThread

\* A connected gateway never times out: the acknowledgement comes before.
LEMMA NoTimeout ==
    ASSUME Types, AnswerKept, SteadyNetwork, connected
    PROVE  ~PullTimeout
<1> SUFFICES ASSUME PullTimeout PROVE FALSE
  OBVIOUS
<1>1. socket = <<>> /\ UntilTimeout <= 0 /\ UntilTimeout \in Int
  BY DEF PullTimeout, UntilTimeout, Types, PullType
<1>2. UntilLoop \in Nat
  BY UntilLoopBounded
<1>3. QED
  BY <1>1, <1>2, Numbers DEF AnswerKept, AnswerInTime, Types, NetType

\* Each datagram the downlink thread takes gives it a new pause and receive.
LEMMA AnswerPull == ASSUME Types, AnswerKept, PullThread, ~stopped' PROVE AnswerKept'
<1> SUFFICES RoundInv' /\ (SteadyNetwork' /\ connected' => AnswerInTime')
  BY DEF AnswerKept
<1>1. UNCHANGED <<kaPc, kaLeft, flying, stopped>>
  BY DEF PullThread, PullCheck, PullTimeout, PullReceive, PullAck, PullResume,
     flags, kaVars, netVars
<1>2. UntilLoop' = UntilLoop /\ RoundInv /\ RoundInv' /\ (SteadyNetwork' <=> SteadyNetwork)
  BY <1>1 DEF UntilLoop, AnswerKept, RoundInv, SteadyNetwork
<1> SUFFICES ASSUME SteadyNetwork, connected' PROVE AnswerInTime'
  BY <1>2
<1> USE Numbers DEF Types, PullType, NetType
<1>3. CASE PullCheck \/ PullResume
  <2>1. socket' = socket /\ connected' = connected
    BY <1>3 DEF PullCheck, PullResume, netVars, flags
  <2>2. CASE PullCheck
    <3>1. pullPc = "loop" /\ pullPc' = "receive" /\ pullLeft' = Receive
      BY <1>1, <2>2 DEF PullCheck
    <3>2. QED
      BY <1>1, <1>2, <2>1, <3>1 DEF AnswerKept, AnswerInTime, UntilTimeout
  <2>3. CASE PullResume
    <3>1. pullPc = "pause" /\ pullPc' = "loop" /\ pullLeft' = pullLeft /\ pullLeft <= 0
      BY <2>3 DEF PullResume
    <3>2. UntilTimeout' = UntilTimeout
      BY <3>1 DEF UntilTimeout
    <3>3. QED
      BY <1>1, <1>2, <2>1, <3>2 DEF AnswerKept, AnswerInTime
  <2>4. QED
    BY <1>3, <2>2, <2>3
<1>4. CASE PullTimeout
  BY <1>1, <1>4 DEF PullTimeout
<1>5. CASE PullReceive \/ PullAck
  <2>1. UntilTimeout' = Pause + Receive
    BY <1>1, <1>5 DEF PullReceive, PullAck, UntilTimeout
  <2>2. QED
    BY <1>1, <1>2, <2>1, AnswerIsNear DEF AnswerInTime
<1>6. QED
  BY <1>3, <1>4, <1>5 DEF PullThread

\* What arrives ends the wait.
LEMMA AnswerEnvironment ==
    ASSUME Types, StopInv, AnswerKept, Environment, ~stopped'
    PROVE  AnswerKept' /\ connected' = connected
<1>1. ~RaiseStopped /\ ~Halt /\ ~KeepAliveSend
  BY StopInv DEF RaiseStopped, Halt, KeepAliveSend, Environment, AckArrives, StrayArrives, kaVars,
     StopInv
<1>2. RoundInv'
  BY <1>1, RoundSteps DEF AnswerKept, Next, Answered
<1>3. socket' # <<>> /\ connected' = connected
  BY <1>1, AppendProperties DEF Environment, AckArrives, StrayArrives, flags, Types, NetType,
     Datagrams
<1>4. QED
  BY <1>2, <1>3 DEF AnswerKept, AnswerInTime

\* A tick brings the acknowledgement and the timeout nearer alike.
LEMMA AnswerTick == ASSUME Types, StopInv, AnswerKept, Tick, ~stopped' PROVE AnswerKept'
<1>0. RoundInv'
  <2>1. ~KeepAliveSend
    BY DEF Tick, KeepAliveSend, Asleep
  <2>2. QED
    BY <2>1, RoundSteps DEF AnswerKept, Next, Answered
<1> SUFFICES SteadyNetwork' /\ connected' => AnswerInTime'
  BY <1>0 DEF AnswerKept
<1> USE Numbers DEF Types, KeepAliveType, PullType, NetType
<1>1. /\ stopped' = stopped /\ connected' = connected
      /\ kaPc' = kaPc /\ pullPc' = pullPc /\ socket' = socket
      /\ flying' = {age + 1 : age \in flying}
  BY DEF Tick, flags
<1>2. kaPc \in {"short", "long"} /\ kaLeft' = kaLeft - 1
  BY <1>1 DEF Tick, Asleep, LeftAfterTick, StopInv, KaPcs
<1>3. UntilLoop' = UntilLoop - 1 /\ UntilLoop \in Int /\ LongestRound \in Int
  <2>1. UntilLoop' = UntilLoop - 1
    BY <1>1, <1>2 DEF UntilLoop
  <2>2. QED
    BY <2>1, UntilLoopBounded, BoundsAreNumbers
<1>4. pullPc \in {"receive", "pause"} /\ pullLeft' = pullLeft - 1
  BY <1>1 DEF Tick, Asleep, LeftAfterTick, StopInv, PullPcs
<1>5. UntilTimeout' >= UntilTimeout - 1 /\ UntilTimeout \in Int /\ UntilTimeout' \in Int
  BY <1>1, <1>4 DEF UntilTimeout
<1>6. ASSUME SteadyNetwork, connected PROVE AnswerInTime'
  <2>1. AnswerInTime
    BY <1>1, <1>6 DEF AnswerKept
  <2>2. CASE socket # <<>> \/ UntilLoop + MaxTrip < UntilTimeout
    BY <1>1, <1>3, <1>5, <2>2 DEF AnswerInTime
  <2>3. ASSUME NEW age \in flying, MaxTrip - age < UntilTimeout PROVE AnswerInTime'
    <3>1. age + 1 \in flying' /\ MaxTrip - (age + 1) < UntilTimeout'
      BY <1>1, <1>5, <2>3
    <3>2. QED
      BY <3>1 DEF AnswerInTime
  <2>4. QED
    BY <2>1, <2>2, <2>3 DEF AnswerInTime
<1>7. QED
  BY <1>1, <1>6 DEF SteadyNetwork

\* Unless a PULL_DATA is lost the answers keep coming, and keep the gateway
\* connected.
LEMMA AnswerSteps ==
    ASSUME Types, StopInv, AnswerKept, [Next]_vars, Answered, ~stopped'
    PROVE  AnswerKept' /\ (SteadyNetwork /\ connected => connected')
<1>1. CASE KeepAliveThread
  <2>1. connected' = connected
    BY <1>1 DEF KeepAliveThread, KeepAliveEnd, KeepAliveSend, KeepAliveTest, KeepAliveWake, flags
  <2>2. QED
    BY <1>1, <2>1, AnswerKeepAlive
<1>2. CASE PullThread
  <2>1. ~PullTimeout => connected' = connected \/ connected'
    BY <1>2 DEF PullThread, PullCheck, PullReceive, PullAck, PullResume, flags
  <2>2. QED
    BY <1>2, <2>1, AnswerPull, NoTimeout
<1>3. CASE Environment
  BY <1>3, AnswerEnvironment
<1>4. CASE Tick
  <2>1. connected' = connected
    BY <1>4 DEF Tick, flags
  <2>2. QED
    BY <1>4, <2>1, AnswerTick
<1>5. CASE UNCHANGED vars
  BY <1>5 DEF AnswerKept, RoundInv, AnswerInTime, UntilLoop, UntilTimeout, SteadyNetwork,
     vars, flags, kaVars, pullVars, netVars
<1>6. QED
  BY <1>1, <1>2, <1>3, <1>4, <1>5 DEF Next

\* A connected gateway whose PULL_DATA are answered stays connected, for every
\* choice of the durations in which they fit (gateway.cpp:80-142).
THEOREM StaysConnectedCorrect == Spec => StaysConnected
<1>1. Init => AnswerInv
  BY DEF Init, AnswerInv, AnswerKept, RoundInv
<1>2. ASSUME Types, [Next]_vars, ~lost'
      PROVE  Answered /\ ~lost /\ (~stopped' => ~stopped)
  <2>1. CASE KeepAliveThread
    BY <1>2, <2>1 DEF Answered, KeepAliveThread, KeepAliveEnd, KeepAliveSend, KeepAliveTest,
       KeepAliveWake, flags, history
  <2>2. CASE PullThread \/ Tick
    BY <1>2, <2>2 DEF Answered, KeepAliveSend, PullThread, PullCheck, PullTimeout, PullReceive,
       PullAck, PullResume, Tick, flags, history, kaVars
  <2>3. CASE Environment
    BY <1>2, <2>3 DEF Answered, KeepAliveSend, Environment, RaiseStopped, Halt, AckArrives,
       StrayArrives, flags, history, kaVars
  <2>4. CASE UNCHANGED vars
    BY <1>2, <2>4 DEF Answered, KeepAliveSend, vars, flags, kaVars, history
  <2>5. QED
    BY <1>2, <2>1, <2>2, <2>3, <2>4 DEF Next
<1>3. ASSUME Types, StopInv, AnswerInv, [Next]_vars PROVE AnswerInv'
  BY <1>2, <1>3, AnswerSteps DEF AnswerInv
<1>4. ASSUME Types, StopInv, AnswerInv, [Next]_vars
      PROVE  [(SteadyNetwork /\ connected /\ ~lost' /\ ~halted') => connected']_vars
  <2> SUFFICES ASSUME SteadyNetwork, connected, ~lost', ~halted', Next PROVE connected'
    BY <1>4
  <2>1. CASE ~stopped'
    BY <1>2, <1>4, <2>1, AnswerSteps DEF AnswerInv
  <2>2. CASE stopped'
    <3>1. stopped \/ RaiseStopped
      BY <2>2 DEF Next, KeepAliveThread, KeepAliveEnd, KeepAliveSend, KeepAliveTest,
         KeepAliveWake, PullThread, PullCheck, PullTimeout, PullReceive, PullAck, PullResume,
         Environment, Halt, AckArrives, StrayArrives, Tick, flags
    <3>2. QED
      BY <3>1 DEF RaiseStopped, Next, KeepAliveThread, KeepAliveEnd, KeepAliveSend, KeepAliveTest,
         KeepAliveWake, PullThread, PullCheck, PullTimeout, PullReceive, PullAck, PullResume,
         Environment, Halt, AckArrives, StrayArrives, Tick, flags
  <2>3. QED
    BY <2>1, <2>2
<1>5. QED
  BY <1>1, <1>2, <1>3, <1>4, TypesCorrect, StopInvCorrect, PTL DEF Spec, StaysConnected
-----------------------------------------------------------------------------
(* How a gateway gets connected: the way of the first answer after a loss. *)

\* The longest that one datagram keeps the downlink thread.
Cycle == Pause + Lag

\* Until the downlink thread takes the next datagram, at most.
UntilTake ==
    IF pullPc = "pause" THEN pullLeft + Lag
    ELSE IF pullPc = "ack" THEN Cycle ELSE 0

\* A stray never joins as many as MaxBacklog others, so that what waits behind
\* is an acknowledgement.
FewStrays == \A i \in 1..Len(socket) : i > MaxBacklog => socket[i] = "ack"

\* The PULL_DATA that will be answered leaves within a round of the loss...
NotYetSent == sinceLoss + UntilLoop <= LongestRound

\* ...its acknowledgement is under way...
Underway == \E age \in flying : sinceLoss <= LongestRound + age

\* ...it waits behind other datagrams...
Waiting ==
    \E i \in 1..Len(socket) :
        socket[i] = "ack" /\ sinceLoss + UntilTake + (i - 1) * Cycle <= AnswerBound

\* ...and the downlink thread has taken it.
Taken == pullPc = "ack" /\ sinceLoss <= AnswerBound

\* From then on the answers keep the gateway connected.
Held == connected /\ RoundInv /\ AnswerInTime

RecoverInv ==
    ~stopped =>
        /\ RoundInv \/ NotYetSent
        /\ SteadyNetwork => Held \/ NotYetSent \/ Underway \/ Waiting \/ Taken

\* A product of natural numbers grows with its factor.
LEMMA Times ==
    ASSUME NEW n \in Nat, NEW p \in Nat
    PROVE  n * p \in Nat /\ (n + 1) * p = n * p + p /\ 0 * p = 0
OBVIOUS

\* A product of natural numbers is no smaller with a greater factor.
LEMMA TimesMonotonic ==
    ASSUME NEW m \in Nat, NEW n \in Nat, NEW p \in Nat, m <= n
    PROVE  m * p <= n * p
<1>1. n - m \in Nat /\ n = m + (n - m)
  OBVIOUS
<1>2. (n - m) * p \in Nat
  BY <1>1, Times
<1>3. n * p = m * p + (n - m) * p
  OBVIOUS
<1>4. QED
  BY <1>2, <1>3, Times

\* The waits are numbers, and a datagram is taken within a cycle.
LEMMA Waits ==
    ASSUME Types
    PROVE  /\ UntilTake \in Nat /\ UntilTake <= Cycle /\ Cycle \in Nat
           /\ AnswerBound = LongestRound + MaxTrip + (MaxBacklog + 1) * Cycle
           /\ SilenceBound = (MaxBacklog + 2) * Cycle + Receive + Lag
           /\ MaxBacklog \in Nat /\ (MaxBacklog + 1) * Cycle \in Nat
           /\ (MaxBacklog + 2) * Cycle \in Nat
           /\ Len(socket) \in Nat /\ LongestRound \in Nat /\ sinceLoss \in Nat
           /\ silence \in Nat
<1>1. /\ MaxBacklog \in Nat /\ Cycle \in Nat /\ LongestRound \in Nat
      /\ sinceLoss \in Nat /\ silence \in Nat /\ Len(socket) \in Nat
  BY Numbers, BoundsAreNumbers, TimingAssumption, LenProperties
     DEF Types, NetType, HistoryType, Cycle
<1>2. UntilTake \in Nat /\ UntilTake <= Cycle
  BY Numbers DEF Types, PullType, UntilTake, Cycle
<1>3. (MaxBacklog + 1) * Cycle \in Nat /\ (MaxBacklog + 2) * Cycle \in Nat
  <2>1. MaxBacklog + 1 \in Nat /\ MaxBacklog + 2 \in Nat
    BY <1>1
  <2>2. QED
    BY <1>1, <2>1, Times
<1>4. QED
  BY <1>1, <1>2, <1>3 DEF AnswerBound, SilenceBound, MaxWaiting, Cycle

\* Only time lengthens the time since a loss.
LEMMA SinceLossSteps ==
    ASSUME Types, [Next]_vars
    PROVE  /\ sinceLoss' \in Nat
           /\ ~Tick => sinceLoss' <= sinceLoss
           /\ Tick => sinceLoss' <= sinceLoss + 1
<1>1. sinceLoss \in Nat
  BY Waits
<1>2. Tick => sinceLoss' \in Nat /\ sinceLoss' <= sinceLoss + 1
  BY <1>1 DEF Tick, Aged
<1>3. ~Tick => sinceLoss' = sinceLoss \/ sinceLoss' = 0
  BY DEF Next, KeepAliveThread, KeepAliveEnd, KeepAliveSend, KeepAliveTest, KeepAliveWake,
     PullThread, PullCheck, PullTimeout, PullReceive, PullAck, PullResume, Environment,
     RaiseStopped, Halt, AckArrives, StrayArrives, vars, history
<1>4. QED
  BY <1>1, <1>2, <1>3

\* Strays stay few: what is taken moves the others up.
LEMMA StraysSteps == ASSUME Types, FewStrays, [Next]_vars PROVE FewStrays'
<1>0. socket \in Seq(Datagrams) /\ MaxBacklog \in Nat /\ Len(socket) \in Nat
  BY Waits DEF Types, NetType
<1>1. CASE socket' = socket
  BY <1>1 DEF FewStrays
<1>2. CASE PullReceive
  <2>1. /\ Len(socket') = Len(socket) - 1
        /\ \A i \in 1..Len(socket') : socket'[i] = socket[i + 1]
    BY <1>0, <1>2, HeadTailProperties DEF PullReceive
  <2>2. QED
    BY <1>0, <2>1 DEF FewStrays
<1>3. ASSUME NEW age \in flying, AckArrives(age) PROVE FewStrays'
  <2>1. socket' = Append(socket, "ack") /\ "ack" \in Datagrams
    BY <1>3 DEF AckArrives, Datagrams
  <2>2. /\ Len(socket') = Len(socket) + 1 /\ socket'[Len(socket) + 1] = "ack"
        /\ \A i \in 1..Len(socket) : socket'[i] = socket[i]
    BY <1>0, <2>1, AppendProperties
  <2>3. QED
    BY <1>0, <2>2 DEF FewStrays
<1>4. ASSUME NEW datagram \in Datagrams, StrayArrives(datagram) PROVE FewStrays'
  <2>1. Len(socket') = Len(socket) + 1 /\ Len(socket) < MaxBacklog
    BY <1>0, <1>4, AppendProperties DEF StrayArrives
  <2>2. QED
    BY <1>0, <2>1 DEF FewStrays
<1>5. QED
  BY <1>1, <1>2, <1>3, <1>4
     DEF Next, KeepAliveThread, KeepAliveEnd, KeepAliveSend, KeepAliveTest, KeepAliveWake,
         PullThread, PullCheck, PullTimeout, PullAck, PullResume, Environment,
         RaiseStopped, Halt, Tick, vars, netVars

\* Until the next PULL_DATA leaves, the loss is less than a round ago.
LEMMA NotYetSentSteps ==
    ASSUME Types, StopInv, NotYetSent, [Next]_vars, ~KeepAliveSend, ~stopped'
    PROVE  NotYetSent'
<1>0. UntilLoop \in Nat /\ LongestRound \in Nat /\ sinceLoss \in Nat /\ sinceLoss' \in Nat
  BY UntilLoopBounded, BoundsAreNumbers, Waits, SinceLossSteps
<1>1. SUFFICES ASSUME ~KeepAliveEnd
               PROVE  \E n \in Int : n = UntilLoop'
                          /\ \/ n <= UntilLoop /\ sinceLoss' <= sinceLoss
                             \/ n <= UntilLoop - 1 /\ sinceLoss' <= sinceLoss + 1
  <2>1. PICK l \in Int, u \in Int, r \in Int :
            l = sinceLoss /\ u = UntilLoop /\ r = LongestRound
    BY <1>0
  <2>2. PICK m \in Int : m = sinceLoss'
    BY <1>0
  <2>3. KeepAliveEnd => stopped'
    BY DEF KeepAliveEnd, flags
  <2>4. ASSUME NEW n \in Int, n = UntilLoop',
               (n <= u /\ m <= l) \/ (n <= u - 1 /\ m <= l + 1)
        PROVE  NotYetSent'
    <3>1. l + u <= r /\ LongestRound' = LongestRound
      BY <2>1 DEF NotYetSent, LongestRound
    <3>2. (n <= u /\ m <= l) \/ (n <= u - 1 /\ m <= l + 1)
      BY <2>4
    <3>3. m + n <= r
      BY ONLY <3>1, <3>2
    <3>4. QED
      BY <2>1, <2>2, <2>4, <3>1, <3>3 DEF NotYetSent
  <2>5. QED
    BY <1>1, <2>1, <2>2, <2>3, <2>4
<1>2. CASE UNCHANGED <<kaPc, kaLeft>> /\ ~Tick
  BY <1>0, <1>2, SinceLossSteps DEF UntilLoop
<1>3. CASE KeepAliveTest \/ KeepAliveWake
  <2>1. PICK n \in Int : n = UntilLoop' /\ n <= UntilLoop
    BY <1>3, Numbers DEF KeepAliveTest, KeepAliveWake, UntilLoop, Types, KeepAliveType
  <2>2. sinceLoss' <= sinceLoss
    BY <1>0, <1>3 DEF KeepAliveTest, KeepAliveWake, history
  <2>3. QED
    BY <2>1, <2>2
<1>4. CASE Tick
  <2>1. kaPc \in {"short", "long"} /\ kaPc' = kaPc /\ kaLeft' = kaLeft - 1
    BY <1>4 DEF Tick, Asleep, LeftAfterTick, StopInv, KaPcs, flags, Types, KeepAliveType
  <2>2. PICK n \in Int : n = UntilLoop' /\ n <= UntilLoop - 1
    BY <2>1, Numbers DEF UntilLoop, Types, KeepAliveType
  <2>3. QED
    BY <1>4, <2>2, SinceLossSteps
<1>5. PullThread \/ Environment \/ UNCHANGED vars => UNCHANGED <<kaPc, kaLeft>> /\ ~Tick
  <2>1. Tick => kaLeft' # kaLeft
    BY Numbers DEF Tick, Asleep, LeftAfterTick, StopInv, flags, Types, KeepAliveType
  <2>2. QED
    BY <2>1 DEF PullThread, PullCheck, PullTimeout, PullReceive, PullAck, PullResume,
       Environment, RaiseStopped, Halt, AckArrives, StrayArrives, vars, kaVars
<1>6. QED
  BY <1>1, <1>2, <1>3, <1>4, <1>5 DEF Next, KeepAliveThread

\* A PULL_DATA that is lost starts the count anew, with a round ahead.
LEMMA LostSteps == ASSUME Types, KeepAliveSend, ~Answered PROVE NotYetSent'
<1>1. sinceLoss' = 0 /\ kaPc' = "short" /\ kaLeft' = Short
  BY DEF KeepAliveSend, Answered
<1>2. QED
  BY <1>1, Numbers DEF NotYetSent, UntilLoop, LongestRound

\* At any time the next PULL_DATA leaves in time, or the first after the loss
\* has not left.
LEMMA RoundOrNext ==
    ASSUME Types, StopInv, RoundInv \/ NotYetSent, [Next]_vars, ~stopped'
    PROVE  RoundInv' \/ NotYetSent'
<1>1. KeepAliveSend => RoundInv
  BY DEF KeepAliveSend, RoundInv
<1>2. QED
  BY <1>1, LostSteps, RoundSteps, NotYetSentSteps DEF Answered

\* The wait of an acknowledgement that arrives, in the place it takes or in
\* the first that strays leave to acknowledgements.
LEMMA ArrivalWaits ==
    ASSUME NEW since \in Nat, NEW age \in Nat, NEW take \in Nat, NEW before \in Nat,
           NEW cycle \in Nat, NEW round \in Nat, NEW trip \in Nat, NEW backlog \in Nat,
           since <= round + age, age <= trip, take <= cycle, before <= backlog
    PROVE  since + take + before * cycle <= round + trip + (backlog + 1) * cycle
<1>1. before * cycle <= backlog * cycle /\ before * cycle \in Nat /\ backlog * cycle \in Nat
  BY TimesMonotonic, Times
<1>2. (backlog + 1) * cycle = backlog * cycle + cycle
  BY Times
<1>3. QED
  BY <1>1, <1>2

\* An answer on its way gets nearer or arrives.
LEMMA UnderwaySteps ==
    ASSUME Types, StopInv, FewStrays, Underway, [Next]_vars, Answered, ~stopped'
    PROVE  Underway' \/ Waiting'
<1>0. PICK age \in flying : sinceLoss <= LongestRound + age
  BY DEF Underway
<1>1. /\ age \in 0..MaxTrip /\ MaxTrip \in Nat /\ LongestRound' = LongestRound
      /\ LongestRound \in Nat /\ sinceLoss \in Nat /\ sinceLoss' \in Nat
  BY Waits, SinceLossSteps, Numbers DEF Types, NetType, LongestRound
<1>2. CASE age \in flying' /\ sinceLoss' <= sinceLoss
  <2>1. sinceLoss' <= LongestRound + age
    BY <1>0, <1>1, <1>2
  <2>2. QED
    BY <1>1, <1>2, <2>1 DEF Underway
<1>3. CASE Tick
  <2>1. age + 1 \in flying' /\ sinceLoss' <= sinceLoss + 1
    BY <1>3, SinceLossSteps DEF Tick
  <2>2. sinceLoss' <= LongestRound + (age + 1)
    BY <1>0, <1>1, <2>1
  <2>3. QED
    BY <1>1, <2>1, <2>2 DEF Underway
<1>4. CASE AckArrives(age)
  <2>1. /\ socket' = Append(socket, "ack") /\ UntilTake' = UntilTake /\ sinceLoss' = sinceLoss
        /\ AnswerBound' = AnswerBound /\ Cycle' = Cycle
    BY <1>4 DEF AckArrives, pullVars, UntilTake, AnswerBound, LongestRound, Cycle
  <2>2. /\ socket \in Seq(Datagrams) /\ "ack" \in Datagrams
        /\ Len(socket) \in Nat /\ MaxBacklog \in Nat
    BY Waits DEF Types, NetType, Datagrams
  <2>3. /\ Len(socket') = Len(socket) + 1 /\ socket'[Len(socket) + 1] = "ack"
        /\ \A i \in 1..Len(socket) : socket'[i] = socket[i]
    BY <2>1, <2>2, AppendProperties
  <2>4. PICK before \in Nat : /\ before <= MaxBacklog /\ before + 1 \in 1..Len(socket')
                              /\ socket'[before + 1] = "ack"
    <3>1. CASE Len(socket) <= MaxBacklog
      BY <2>2, <2>3, <3>1
    <3>2. CASE Len(socket) > MaxBacklog
      <4>1. MaxBacklog + 1 \in 1..Len(socket) /\ socket[MaxBacklog + 1] = "ack"
        BY <2>2, <3>2 DEF FewStrays
      <4>2. MaxBacklog + 1 \in 1..Len(socket') /\ socket'[MaxBacklog + 1] = "ack"
        BY <2>2, <2>3, <4>1
      <4>3. QED
        BY <2>2, <4>2
    <3>3. QED
      BY <2>2, <3>1, <3>2
  <2>5. sinceLoss + UntilTake + before * Cycle <= AnswerBound
    <3>1. PICK s \in Nat, r \in Nat, t \in Nat, c \in Nat :
              s = sinceLoss /\ r = LongestRound /\ t = UntilTake /\ c = Cycle
      BY Waits
    <3>2. /\ s <= r + age /\ age \in Nat /\ age <= MaxTrip /\ t <= c
          /\ AnswerBound = r + MaxTrip + (MaxBacklog + 1) * c
      BY <1>0, <1>1, <3>1, Waits
    <3>3. s + t + before * c <= r + MaxTrip + (MaxBacklog + 1) * c
      BY <1>1, <2>2, <2>4, <3>2, ArrivalWaits
    <3>4. QED
      BY <3>1, <3>2, <3>3
  <2>6. before = (before + 1) - 1
    BY <2>4
  <2>7. QED
    BY <2>1, <2>4, <2>5, <2>6 DEF Waiting
<1>5. ASSUME NEW other \in flying, AckArrives(other), other # age
      PROVE  age \in flying' /\ sinceLoss' <= sinceLoss
  BY <1>1, <1>5 DEF AckArrives
<1>6. Tick \/ flying \subseteq flying' \/ \E other \in flying : AckArrives(other)
  BY DEF Answered, Next, KeepAliveThread, KeepAliveEnd, KeepAliveSend, KeepAliveTest,
     KeepAliveWake, PullThread, PullCheck, PullTimeout, PullReceive, PullAck, PullResume,
     Environment, RaiseStopped, Halt, StrayArrives, vars, netVars
<1>7. QED
  BY <1>2, <1>3, <1>4, <1>5, <1>6, SinceLossSteps

\* Each step leaves a waiting datagram at most the wait it had.
LEMMA WaitsOn ==
    ASSUME NEW since \in Nat, NEW take \in Nat, NEW n \in Nat, NEW cycle \in Nat,
           NEW bound \in Nat, NEW sinceNext \in Nat, NEW takeNext \in Nat, NEW m \in Nat,
           since + take + n * cycle <= bound,
           \/ m = n /\ sinceNext <= since /\ takeNext <= take
           \/ m = n /\ sinceNext <= since + 1 /\ takeNext + 1 <= take
           \/ m + 1 = n /\ sinceNext <= since /\ takeNext <= cycle
    PROVE  sinceNext + takeNext + m * cycle <= bound
<1>1. n * cycle \in Nat /\ m * cycle \in Nat
  BY Times
<1>2. m + 1 = n => n * cycle = m * cycle + cycle
  BY Times
<1>3. QED
  BY <1>1, <1>2

\* An answer that waits is taken in time.
LEMMA WaitingSteps ==
    ASSUME Types, StopInv, Waiting, [Next]_vars, ~stopped'
    PROVE  Waiting' \/ Taken'
<1>0. Types' /\ MaxBacklog \in Nat
  BY TypesKept, Waits
<1>1. /\ UntilTake \in Nat /\ UntilTake' \in Nat /\ Cycle \in Nat
      /\ sinceLoss \in Nat /\ sinceLoss' \in Nat /\ AnswerBound \in Nat
      /\ Cycle' = Cycle /\ AnswerBound' = AnswerBound
  <2>1. UntilTake' \in Nat
    <3>1. PICK left \in (-Lag)..Receive : left = pullLeft'
      BY <1>0 DEF Types, PullType
    <3>2. left + Lag \in Nat /\ Pause + Lag \in Nat
      BY Numbers
    <3>3. UntilTake' \in {left + Lag, Pause + Lag, 0}
      BY <3>1 DEF UntilTake, Cycle
    <3>4. QED
      BY <3>2, <3>3
  <2>2. QED
    BY <2>1, Waits, SinceLossSteps, BoundsAreNumbers DEF Cycle, AnswerBound, LongestRound
<1>2. PICK n \in Nat : /\ n + 1 \in 1..Len(socket) /\ socket[n + 1] = "ack"
                       /\ sinceLoss + UntilTake + n * Cycle <= AnswerBound
  <2>1. PICK i \in 1..Len(socket) :
            socket[i] = "ack" /\ sinceLoss + UntilTake + (i - 1) * Cycle <= AnswerBound
    BY DEF Waiting
  <2>2. i - 1 \in Nat /\ (i - 1) + 1 = i
    BY Waits
  <2>3. QED
    BY <2>1, <2>2
<1>3. ASSUME NEW m \in Nat, m + 1 \in 1..Len(socket'), socket'[m + 1] = "ack",
             \/ m = n /\ sinceLoss' <= sinceLoss /\ UntilTake' <= UntilTake
             \/ m = n /\ sinceLoss' <= sinceLoss + 1 /\ UntilTake' + 1 <= UntilTake
             \/ m + 1 = n /\ sinceLoss' <= sinceLoss /\ UntilTake' <= Cycle
      PROVE  Waiting'
  <2>1. sinceLoss' + UntilTake' + m * Cycle <= AnswerBound
    <3>1. PICK s \in Nat, t \in Nat, c \in Nat, b \in Nat :
              s = sinceLoss /\ t = UntilTake /\ c = Cycle /\ b = AnswerBound
      BY <1>1
    <3>2. PICK sNext \in Nat, tNext \in Nat : sNext = sinceLoss' /\ tNext = UntilTake'
      BY <1>1
    <3>3. /\ s + t + n * c <= b
          /\ \/ m = n /\ sNext <= s /\ tNext <= t
             \/ m = n /\ sNext <= s + 1 /\ tNext + 1 <= t
             \/ m + 1 = n /\ sNext <= s /\ tNext <= c
      BY <1>2, <1>3, <3>1, <3>2
    <3>4. sNext + tNext + m * c <= b
      BY ONLY <1>2, <3>3, WaitsOn
    <3>5. QED
      BY <3>1, <3>2, <3>4
  <2>2. m = (m + 1) - 1
    OBVIOUS
  <2>3. QED
    BY <1>1, <1>3, <2>1, <2>2 DEF Waiting
<1>4. socket \in Seq(Datagrams) /\ Len(socket) \in Nat
  BY Waits DEF Types, NetType
<1>5. CASE socket' = socket /\ sinceLoss' <= sinceLoss /\ UntilTake' <= UntilTake
  BY <1>2, <1>3, <1>5
<1>6. CASE Environment
  <2>1. UntilTake' = UntilTake /\ ~RaiseStopped
    BY <1>6 DEF Environment, RaiseStopped, Halt, AckArrives, StrayArrives, pullVars, UntilTake
  <2>2. sinceLoss' = sinceLoss
    BY <1>6, <2>1 DEF Environment, Halt, AckArrives, StrayArrives, history
  <2>3. socket' = socket \/ \E datagram \in Datagrams : socket' = Append(socket, datagram)
    BY <1>6, <2>1 DEF Environment, Halt, AckArrives, StrayArrives, netVars, Datagrams
  <2>4. n + 1 \in 1..Len(socket') /\ socket'[n + 1] = "ack"
    BY <1>2, <1>4, <2>3, AppendProperties
  <2>5. UntilTake' <= UntilTake /\ sinceLoss' <= sinceLoss
    BY <1>1, <2>1, <2>2
  <2>6. QED
    BY <1>3, <2>4, <2>5
<1>7. CASE PullReceive
  <2>1. /\ pullPc = "receive" /\ socket # <<>> /\ socket' = Tail(socket)
        /\ sinceLoss' = sinceLoss
        /\ IF socket[1] = "ack" THEN pullPc' = "ack" ELSE pullPc' = "pause" /\ pullLeft' = Pause
    BY <1>4, <1>7 DEF PullReceive, flags, history
  <2>2. sinceLoss' <= sinceLoss /\ UntilTake' <= Cycle
    BY <1>1, <2>1, Numbers DEF UntilTake, Cycle
  <2>3. CASE n = 0
    <3>1. sinceLoss + UntilTake <= AnswerBound
      BY <1>1, <1>2, <2>3, Times
    <3>2. sinceLoss' <= AnswerBound'
      BY <1>1, <2>2, <3>1
    <3>3. QED
      BY <1>2, <2>1, <2>3, <3>2 DEF Taken
  <2>4. CASE n # 0
    <3>1. PICK m \in Nat : m + 1 = n
      BY <2>4
    <3>2. m + 1 \in 1..Len(socket') /\ socket'[m + 1] = "ack"
      BY <1>2, <1>4, <2>1, <3>1, HeadTailProperties
    <3>3. QED
      BY <1>3, <2>2, <3>1, <3>2
  <2>5. QED
    BY <2>3, <2>4
<1>8. CASE Tick
  <2>1. pullPc = "pause" /\ pullPc' = pullPc /\ pullLeft' = pullLeft - 1 /\ socket' = socket
    BY <1>2, <1>4, <1>8 DEF Tick, Asleep, LeftAfterTick, StopInv, flags, Types, PullType, PullPcs
  <2>2. UntilTake' + 1 <= UntilTake /\ sinceLoss' <= sinceLoss + 1
    BY <1>8, <2>1, Numbers, SinceLossSteps DEF UntilTake, Types, PullType
  <2>3. QED
    BY <1>2, <1>3, <2>1, <2>2
<1>9. CASE KeepAliveThread \/ UNCHANGED vars
  <2>1. UntilTake' = UntilTake /\ socket' = socket
    BY <1>9 DEF KeepAliveThread, KeepAliveEnd, KeepAliveSend, KeepAliveTest, KeepAliveWake, vars,
       netVars, pullVars, UntilTake
  <2>2. sinceLoss' = sinceLoss \/ sinceLoss' = 0
    BY <1>9 DEF KeepAliveThread, KeepAliveEnd, KeepAliveSend, KeepAliveTest, KeepAliveWake, vars,
       history
  <2>3. QED
    BY <1>1, <1>5, <2>1, <2>2
<1>10. CASE PullCheck \/ PullTimeout \/ PullAck \/ PullResume
  <2>1. socket' = socket /\ sinceLoss' = sinceLoss /\ ~PullTimeout
    BY <1>2, <1>4, <1>10 DEF PullCheck, PullTimeout, PullAck, PullResume, netVars, history
  <2>2. UntilTake' <= UntilTake
    BY <1>1, <1>10, <2>1, Numbers DEF PullCheck, PullAck, PullResume, UntilTake, Cycle, Types,
       PullType
  <2>3. QED
    BY <1>1, <1>5, <2>1, <2>2
<1>11. QED
  BY <1>6, <1>7, <1>8, <1>9, <1>10 DEF Next, PullThread

\* The answer that was taken sets the flag; the answers after it keep it.
LEMMA TakenSteps ==
    ASSUME Types, StopInv, RoundInv \/ NotYetSent, SteadyNetwork, Taken, [Next]_vars, ~stopped'
    PROVE  Taken' \/ Held' \/ NotYetSent'
<1>1. CASE PullAck
  <2>1. ASSUME RoundInv PROVE Held'
    <3>1. connected' /\ RoundInv'
      <4>1. ~KeepAliveSend
        BY <1>1 DEF PullAck, KeepAliveSend, kaVars
      <4>2. Answered
        BY <4>1 DEF Answered
      <4>3. QED
        BY <1>1, <2>1, <4>2, RoundSteps DEF PullAck, Next, PullThread
    <3>2. UntilTimeout' = Pause + Receive /\ UntilLoop' = UntilLoop /\ flying' = flying
      BY <1>1, Numbers DEF PullAck, UntilTimeout, UntilLoop, kaVars, netVars
    <3>3. AnswerInTime'
      <4>1. CASE \E age \in flying : MaxTrip - age < Pause + Receive
        BY <3>2, <4>1 DEF AnswerInTime
      <4>2. CASE UntilLoop + MaxTrip < Pause + Receive
        BY <3>2, <4>2 DEF AnswerInTime
      <4>3. QED
        BY <2>1, <4>1, <4>2, AnswerIsNear
    <3>4. QED
      BY <3>1, <3>3 DEF Held
  <2>2. ASSUME NotYetSent PROVE NotYetSent'
    <3>1. ~KeepAliveSend
      BY <1>1 DEF PullAck, KeepAliveSend, kaVars
    <3>2. QED
      BY <2>2, <3>1, NotYetSentSteps
  <2>3. QED
    BY <2>1, <2>2
<1>2. CASE ~PullAck
  <2>1. pullPc = "ack"
    BY DEF Taken
  <2>2. pullPc' = "ack" /\ ~Tick
    BY <1>2, <2>1 DEF Next, KeepAliveThread, KeepAliveEnd, KeepAliveSend, KeepAliveTest,
       KeepAliveWake, PullThread, PullCheck, PullTimeout, PullReceive, PullResume, Environment,
       RaiseStopped, Halt, AckArrives, StrayArrives, Tick, Asleep, vars, pullVars
  <2>3. sinceLoss' <= sinceLoss /\ sinceLoss' \in Nat /\ sinceLoss \in Nat
    BY <2>2, SinceLossSteps, Waits
  <2>4. AnswerBound' = AnswerBound /\ AnswerBound \in Nat
    BY BoundsAreNumbers DEF AnswerBound, LongestRound
  <2>5. sinceLoss' <= AnswerBound
    BY <2>3, <2>4 DEF Taken
  <2>6. QED
    BY <2>2, <2>4, <2>5 DEF Taken
<1>3. QED
  BY <1>1, <1>2

\* The way of the answer, step by step.
LEMMA RecoverSteps ==
    ASSUME Types, StopInv, FewStrays, RecoverInv, [Next]_vars
    PROVE  RecoverInv'
<1> SUFFICES ASSUME ~stopped' PROVE RecoverInv'
  BY DEF RecoverInv
<1>1. ~stopped
  BY DEF Next, KeepAliveThread, KeepAliveEnd, KeepAliveSend, KeepAliveTest, KeepAliveWake,
     PullThread, PullCheck, PullTimeout, PullReceive, PullAck, PullResume, Environment,
     RaiseStopped, Halt, AckArrives, StrayArrives, Tick, vars, flags
<1>2. RoundInv' \/ NotYetSent'
  BY <1>1, RoundOrNext DEF RecoverInv
<1>3. ASSUME SteadyNetwork
      PROVE  Held' \/ NotYetSent' \/ Underway' \/ Waiting' \/ Taken'
  <2>1. CASE ~Answered
    BY <2>1, LostSteps DEF Answered
  <2>2. CASE Answered
    <3>1. CASE Held
      <4>1. AnswerKept /\ connected
        BY <3>1 DEF Held, AnswerKept
      <4>2. AnswerKept' /\ connected'
        BY <1>3, <2>2, <4>1, AnswerSteps
      <4>3. SteadyNetwork'
        BY <1>3 DEF SteadyNetwork, LongestRound
      <4>4. QED
        BY <4>2, <4>3 DEF Held, AnswerKept
    <3>2. CASE NotYetSent /\ ~KeepAliveSend
      BY <3>2, NotYetSentSteps
    <3>3. CASE NotYetSent /\ KeepAliveSend
      <4>1. 0 \in flying' /\ kaPc = "loop" /\ ~Tick
        BY <2>2, <3>3 DEF Answered, KeepAliveSend, Tick, Asleep
      <4>2. UntilLoop = 0 /\ LongestRound' = LongestRound
        BY <4>1 DEF UntilLoop, LongestRound
      <4>3. sinceLoss' <= sinceLoss /\ sinceLoss' \in Nat /\ sinceLoss \in Nat /\ LongestRound \in Nat
        BY <4>1, SinceLossSteps, Waits
      <4>4. sinceLoss <= LongestRound
        BY <3>3, <4>2, <4>3 DEF NotYetSent
      <4>5. sinceLoss' <= LongestRound + 0
        BY <4>3, <4>4
      <4>6. QED
        BY <4>1, <4>2, <4>5 DEF Underway
    <3>4. CASE Underway
      BY <2>2, <3>4, UnderwaySteps
    <3>5. CASE Waiting
      BY <3>5, WaitingSteps
    <3>6. CASE Taken
      BY <1>1, <1>3, <3>6, TakenSteps DEF RecoverInv
    <3>7. QED
      BY <1>1, <1>3, <3>1, <3>2, <3>3, <3>4, <3>5, <3>6 DEF RecoverInv
  <2>3. QED
    BY <2>1, <2>2
<1>4. QED
  BY <1>2, <1>3 DEF RecoverInv, SteadyNetwork

\* When the server comes back, or for the first time, the gateway is connected
\* within its bound and stays so, for every choice of the durations that fits
\* the network (gateway.cpp:91, gateway.cpp:130).
THEOREM ConnectedCorrect == Spec => []ConnectedOnceAnswered
<1>1. Init => FewStrays /\ RecoverInv
  <2> SUFFICES ASSUME Init PROVE FewStrays /\ RecoverInv
    OBVIOUS
  <2>1. socket = <<>> /\ sinceLoss = 0 /\ UntilLoop = 0 /\ kaPc = "loop"
    BY DEF Init, UntilLoop
  <2>2. FewStrays
    BY <2>1, EmptySeq DEF FewStrays
  <2>3. RecoverInv
    BY <2>1, BoundsAreNumbers DEF RecoverInv, NotYetSent, RoundInv
  <2>4. QED
    BY <2>2, <2>3
<1>2. ASSUME Types, RecoverInv PROVE ConnectedOnceAnswered
  <2> SUFFICES ASSUME SteadyNetwork, ~stopped, sinceLoss > AnswerBound PROVE connected
    BY DEF ConnectedOnceAnswered
  <2>1. /\ sinceLoss \in Nat /\ AnswerBound \in Nat /\ LongestRound \in Nat /\ MaxTrip \in Nat
        /\ UntilLoop \in Nat /\ UntilTake \in Nat /\ Cycle \in Nat
    BY <1>2, Waits, BoundsAreNumbers, UntilLoopBounded, Numbers
  <2>2. LongestRound + MaxTrip <= AnswerBound
    BY <1>2, <2>1, Waits
  <2>3. ~NotYetSent
    BY <2>1, <2>2 DEF NotYetSent
  <2>4. ~Underway
    BY <1>2, <2>1, <2>2 DEF Underway, Types, NetType
  <2>5. ~Waiting
    <3> SUFFICES ASSUME NEW i \in 1..Len(socket),
                        sinceLoss + UntilTake + (i - 1) * Cycle <= AnswerBound
                 PROVE  FALSE
      BY DEF Waiting
    <3>1. (i - 1) * Cycle \in Nat
      <4>1. i - 1 \in Nat
        OBVIOUS
      <4>2. QED
        BY <2>1, <4>1, Times
    <3>2. QED
      BY <2>1, <3>1
  <2>6. ~Taken
    BY <2>1 DEF Taken
  <2>7. QED
    BY <1>2, <2>3, <2>4, <2>5, <2>6 DEF RecoverInv, Held
<1>3. QED
  BY <1>1, <1>2, StraysSteps, RecoverSteps, TypesCorrect, StopInvCorrect, PTL DEF Spec
-----------------------------------------------------------------------------
(* How the silence of the server is noticed: what waits in the socket is     *)
(* taken, and then a receive times out.  The socket never holds more than    *)
(* two acknowledgements besides the strays.                                  *)

\* The next PULL_DATA leaves no sooner than this.
NextIn == IF kaPc = "short" /\ kaLeft > 0 THEN kaLeft ELSE 0

\* A short sleep is between any two PULL_DATA.
Spacing ==
    /\ \A a \in flying : Short <= NextIn + a
    /\ \A a, b \in flying : a < b => a + Short <= b

\* With that many datagrams in the socket, the next to be taken after take, and
\* the acknowledgements to come of these ages and of a PULL_DATA after next, no
\* acknowledgement comes too soon.
RoomFor(waiting, take, next, ages) ==
    \/ waiting <= MaxBacklog
    \/ /\ waiting = MaxBacklog + 1
       /\ take <= next + MinTrip
       /\ \A a \in ages : a + take <= MinTrip
    \/ /\ waiting = MaxBacklog + 2
       /\ take = 0
       /\ Cycle <= next + MinTrip /\ 0 < next + MinTrip
       /\ \A a \in ages : a + Cycle <= MinTrip /\ a < MinTrip

Room == RoomFor(Len(socket), UntilTake, NextIn, flying)

\* The timeout comes within this time, if nothing arrives.
UntilGone ==
    IF pullPc = "receive" /\ socket = <<>> THEN pullLeft + Lag
    ELSE UntilTake + Len(socket) * Cycle + Receive + Lag

\* The server is taken for gone, and nothing waits that would change it.
Gone == ~connected /\ socket = <<>> /\ pullPc # "ack"

SilenceInv == ~stopped => Room /\ (Gone \/ silence + UntilGone <= SilenceBound)

\* A sleep spaces the PULL_DATA.
LEMMA SpacingSteps == ASSUME Types, Spacing, [Next]_vars PROVE Spacing'
<1> USE Numbers DEF Types, KeepAliveType, NetType
<1>1. CASE UNCHANGED <<kaPc, kaLeft>> /\ flying' \subseteq flying
  <2>1. NextIn' = NextIn
    BY <1>1 DEF NextIn
  <2>2. QED
    BY <1>1, <2>1 DEF Spacing
<1>2. CASE KeepAliveSend
  <2>1. /\ \A a \in flying : Short <= a
        /\ \A a, b \in flying : a < b => a + Short <= b
    BY <1>2 DEF KeepAliveSend, Spacing, NextIn
  <2>2. NextIn' = Short /\ flying' \subseteq flying \union {0}
    BY <1>2, TimingAssumption DEF KeepAliveSend, NextIn
  <2>3. \A a \in flying' : a \in Nat /\ Short <= Short + a
    BY <2>2
  <2>4. \A a, b \in flying' : a < b => a + Short <= b
    BY <2>1, <2>2
  <2>5. QED
    BY <2>2, <2>3, <2>4 DEF Spacing
<1>3. CASE KeepAliveEnd \/ KeepAliveTest \/ KeepAliveWake
  <2>1. NextIn = 0 /\ NextIn' = 0 /\ flying' = flying
    BY <1>3 DEF KeepAliveEnd, KeepAliveTest, KeepAliveWake, NextIn, netVars
  <2>2. QED
    BY <2>1 DEF Spacing
<1>4. CASE Tick
  <2>1. PICK n \in Nat, m \in Nat : n = NextIn /\ m = NextIn' /\ n <= m + 1
    BY <1>4 DEF Tick, NextIn, LeftAfterTick
  <2>2. flying' = {a + 1 : a \in flying}
    BY <1>4 DEF Tick
  <2>3. \A a \in flying : Short <= m + (a + 1)
    <3>1. \A a \in flying : Short <= n + a
      BY <2>1 DEF Spacing
    <3>2. n <= m + 1
      BY <2>1
    <3>3. QED
      BY <3>1, <3>2
  <2>4. \A a \in flying' : Short <= m + a
    BY <2>2, <2>3
  <2>5. \A a, b \in flying : a + 1 < b + 1 => (a + 1) + Short <= b + 1
    BY DEF Spacing
  <2>6. \A a, b \in flying' : a < b => a + Short <= b
    BY <2>2, <2>5
  <2>7. QED
    BY <2>1, <2>4, <2>6 DEF Spacing
<1>5. PullThread \/ Environment => UNCHANGED <<kaPc, kaLeft>> /\ flying' \subseteq flying
  <2>1. PullThread => UNCHANGED <<kaPc, kaLeft, flying>>
    BY DEF PullThread, PullCheck, PullTimeout, PullReceive, PullAck, PullResume, kaVars, netVars
  <2>2. Environment => UNCHANGED <<kaPc, kaLeft>> /\ flying' \subseteq flying
    BY DEF Environment, RaiseStopped, Halt, AckArrives, StrayArrives, kaVars, netVars
  <2>3. QED
    BY <2>1, <2>2
<1>6. QED
  BY <1>1, <1>2, <1>3, <1>4, <1>5 DEF Next, KeepAliveThread, vars, kaVars, netVars

\* An acknowledgement that arrives finds room: the one before it is taken, and
\* the one behind it is a short sleep away.
LEMMA RoomArrives ==
    ASSUME Unhurried, NEW waiting \in Nat, NEW take \in Nat, NEW next \in Nat,
           NEW ages \in SUBSET (0..MaxTrip), NEW age \in ages, age >= MinTrip, take <= Cycle,
           \A a \in ages : Short <= next + a,
           \A a, b \in ages : a < b => a + Short <= b,
           RoomFor(waiting, take, next, ages)
    PROVE  RoomFor(waiting + 1, take, next, ages \ {age})
<1>0. MaxBacklog \in Nat /\ Cycle \in Nat /\ Cycle + (MaxTrip - MinTrip) <= Short
  BY Numbers, TimingAssumption DEF Unhurried, Cycle
<1> USE Numbers
<1>1. \A a \in ages \ {age} : a + Short <= age
  <2> SUFFICES ASSUME NEW a \in ages, a # age, ~(a + Short <= age) PROVE FALSE
    OBVIOUS
  <2>1. age + Short <= a
    OBVIOUS
  <2>2. QED
    BY <2>1 DEF Unhurried
<1>2. Short <= next + age /\ age <= MaxTrip
  OBVIOUS
<1>3. CASE waiting < MaxBacklog
  BY <1>0, <1>3 DEF RoomFor
<1>4. CASE waiting = MaxBacklog
  <2>1. take <= next + MinTrip
    BY <1>0, <1>2
  <2>2. ASSUME NEW a \in ages \ {age} PROVE a + take <= MinTrip
    <3>1. a + Short <= MaxTrip
      BY <1>1, <1>2
    <3>2. QED
      BY <1>0, <3>1
  <2>3. QED
    BY <1>0, <1>4, <2>1, <2>2 DEF RoomFor
<1>5. CASE waiting = MaxBacklog + 1
  <2>1. age + take <= MinTrip
    BY <1>0, <1>5 DEF RoomFor
  <2>2. take = 0 /\ age = MinTrip
    BY <2>1
  <2>3. Cycle <= Short
    BY <1>0
  <2>4. Cycle <= next + MinTrip /\ 0 < next + MinTrip
    BY <1>0, <1>2, <2>2, <2>3, TimingAssumption
  <2>5. ASSUME NEW a \in ages \ {age} PROVE a + Cycle <= MinTrip /\ a < MinTrip
    BY <1>0, <1>1, <2>2, <2>3, TimingAssumption
  <2>6. QED
    BY <1>0, <1>5, <2>2, <2>4, <2>5 DEF RoomFor
<1>6. CASE waiting = MaxBacklog + 2
  BY <1>0, <1>6 DEF RoomFor
<1>7. QED
  BY <1>0, <1>3, <1>4, <1>5, <1>6 DEF RoomFor

\* Taking one makes room for one more, a datagram's time later.
LEMMA RoomTaken ==
    ASSUME NEW waiting \in Nat, NEW take \in Nat, take <= Cycle, NEW next \in Nat,
           NEW ages \in SUBSET Nat, RoomFor(waiting, 0, next, ages)
    PROVE  RoomFor(waiting - 1, take, next, ages)
<1>0. MaxBacklog \in Nat /\ Cycle \in Nat /\ MinTrip \in Nat
  BY Numbers, TimingAssumption DEF Cycle
<1>1. CASE waiting <= MaxBacklog + 1
  BY <1>0, <1>1 DEF RoomFor
<1>2. CASE waiting = MaxBacklog + 2
  <2>1. Cycle <= next + MinTrip /\ \A a \in ages : a + Cycle <= MinTrip
    BY <1>0, <1>2 DEF RoomFor
  <2>2. waiting - 1 = MaxBacklog + 1
    BY <1>0, <1>2
  <2>3. take <= next + MinTrip /\ \A a \in ages : a + take <= MinTrip
    BY <1>0, <2>1
  <2>4. QED
    BY <2>2, <2>3 DEF RoomFor
<1>3. QED
  BY <1>0, <1>1, <1>2 DEF RoomFor

\* A shorter wait, and a PULL_DATA that leaves later or now, leave the room.
LEMMA RoomKept ==
    ASSUME NEW waiting \in Nat, NEW take \in Nat, NEW next \in Nat, NEW ages \in SUBSET Nat,
           NEW takeNext \in Nat, NEW nextNext \in Nat, NEW agesNext \in SUBSET Nat,
           takeNext <= take, next <= nextNext,
           agesNext \subseteq ages \/ (agesNext \subseteq ages \union {0} /\ next = 0),
           RoomFor(waiting, take, next, ages)
    PROVE  RoomFor(waiting, takeNext, nextNext, agesNext)
<1>0. MaxBacklog \in Nat /\ Cycle \in Nat /\ MinTrip \in Nat
  BY Numbers, TimingAssumption DEF Cycle
<1>1. CASE waiting <= MaxBacklog
  BY <1>1 DEF RoomFor
<1>2. CASE waiting = MaxBacklog + 1
  <2>1. take <= next + MinTrip /\ \A a \in ages : a + take <= MinTrip
    BY <1>0, <1>2 DEF RoomFor
  <2>2. takeNext <= nextNext + MinTrip /\ \A a \in agesNext : a + takeNext <= MinTrip
    BY <1>0, <2>1
  <2>3. QED
    BY <1>2, <2>2 DEF RoomFor
<1>3. CASE waiting = MaxBacklog + 2
  <2>1. /\ take = 0 /\ Cycle <= next + MinTrip /\ 0 < next + MinTrip
        /\ \A a \in ages : a + Cycle <= MinTrip /\ a < MinTrip
    BY <1>0, <1>3 DEF RoomFor
  <2>2. /\ takeNext = 0 /\ Cycle <= nextNext + MinTrip /\ 0 < nextNext + MinTrip
        /\ \A a \in agesNext : a + Cycle <= MinTrip /\ a < MinTrip
    BY <1>0, <2>1
  <2>3. QED
    BY <1>3, <2>2 DEF RoomFor
<1>4. QED
  BY <1>0, <1>1, <1>2, <1>3 DEF RoomFor

\* A tick brings the end of the wait and the acknowledgements nearer alike.
LEMMA RoomTicks ==
    ASSUME NEW waiting \in Nat, NEW take \in Nat, NEW next \in Nat, NEW ages \in SUBSET Nat,
           NEW takeNext \in Nat, NEW nextNext \in Nat,
           waiting > MaxBacklog => takeNext + 1 <= take, next <= nextNext + 1,
           RoomFor(waiting, take, next, ages)
    PROVE  RoomFor(waiting, takeNext, nextNext, {a + 1 : a \in ages})
<1>0. MaxBacklog \in Nat /\ MinTrip \in Nat
  BY Numbers, TimingAssumption
<1>1. CASE waiting <= MaxBacklog
  BY <1>1 DEF RoomFor
<1>2. CASE waiting = MaxBacklog + 1
  <2>1. take <= next + MinTrip /\ \A a \in ages : a + take <= MinTrip
    BY <1>0, <1>2 DEF RoomFor
  <2>2. takeNext + 1 <= take
    BY <1>0, <1>2
  <2>3. takeNext <= nextNext + MinTrip /\ \A a \in ages : (a + 1) + takeNext <= MinTrip
    BY <1>0, <2>1, <2>2
  <2>4. QED
    BY <1>2, <2>3 DEF RoomFor
<1>3. QED
  BY <1>0, <1>1, <1>2 DEF RoomFor

\* The waits are numbers in the next state as well.
LEMMA NextWaits ==
    ASSUME Types'
    PROVE  /\ UntilTake' \in Nat /\ UntilTake' <= Cycle
           /\ NextIn' \in Nat /\ silence' \in Nat /\ Len(socket') \in Nat
<1>1. PICK left \in (-Lag)..Receive : left = pullLeft' /\ (pullPc' = "pause" => left <= Pause)
  BY DEF Types, PullType
<1>2. left + Lag \in Nat /\ Cycle \in Nat
  BY Numbers DEF Cycle
<1>3. pullPc' = "pause" => left + Lag <= Cycle
  <2> SUFFICES ASSUME pullPc' = "pause" PROVE left + Lag <= Cycle
    OBVIOUS
  <2>1. left <= Pause
    BY <1>1
  <2>2. QED
    BY <2>1, Numbers DEF Cycle
<1>4. UntilTake' \in Nat /\ UntilTake' <= Cycle
  <2>1. UntilTake' = IF pullPc' = "pause" THEN left + Lag
                     ELSE IF pullPc' = "ack" THEN Cycle ELSE 0
    BY <1>1 DEF UntilTake, Cycle
  <2>2. CASE pullPc' = "pause"
    BY <1>2, <1>3, <2>1, <2>2
  <2>3. CASE pullPc' # "pause"
    BY <1>2, <2>1, <2>3
  <2>4. QED
    BY <2>2, <2>3
<1>5. NextIn' \in Nat
  BY DEF Types, KeepAliveType, NextIn
<1>6. silence' \in Nat
  <2>1. silence' \in 0..(SilenceBound' + 1) /\ SilenceBound' = SilenceBound
    BY DEF Types, HistoryType, SilenceBound, MaxWaiting
  <2>2. QED
    BY <2>1, BoundsAreNumbers
<1>7. Len(socket') \in Nat
  BY LenProperties DEF Types, NetType
<1>8. QED
  BY <1>4, <1>5, <1>6, <1>7

\* There is always room for what comes.
LEMMA RoomSteps ==
    ASSUME Types, Types', StopInv, Unhurried, Spacing, Room, [Next]_vars, ~stopped'
    PROVE  Room'
<1>0. /\ UntilTake \in Nat /\ UntilTake' \in Nat /\ UntilTake <= Cycle /\ UntilTake' <= Cycle
      /\ NextIn \in Nat /\ NextIn' \in Nat /\ Cycle \in Nat /\ MaxBacklog \in Nat
      /\ Len(socket) \in Nat /\ Len(socket') \in Nat
  BY Waits, NextWaits DEF NextIn, Types, KeepAliveType
<1>1. flying \in SUBSET (0..MaxTrip) /\ flying' \in SUBSET (0..MaxTrip)
  <2>1. flying' \subseteq 0..(MaxTrip')
    BY DEF Types, NetType
  <2>2. QED
    BY <2>1 DEF Types, NetType
<1>2. flying \in SUBSET Nat /\ flying' \in SUBSET Nat
  BY <1>1, Numbers
<1>3. socket \in Seq(Datagrams) /\ "ack" \in Datagrams
  BY DEF Types, NetType, Datagrams
<1> DEFINE RoomNext == RoomFor(Len(socket'), UntilTake', NextIn', flying')
<1> SUFFICES RoomNext
  BY DEF Room, RoomFor, Cycle
<1> HIDE DEF RoomNext
<1>4. ASSUME socket' = socket, UntilTake' <= UntilTake, NextIn <= NextIn',
             flying' \subseteq flying \/ (flying' \subseteq flying \union {0} /\ NextIn = 0)
      PROVE  RoomNext
  BY <1>0, <1>2, <1>4, RoomKept DEF Room, RoomNext
<1>5. CASE KeepAliveThread
  <2>1. UntilTake' = UntilTake /\ socket' = socket
    BY <1>5 DEF KeepAliveThread, KeepAliveEnd, KeepAliveSend, KeepAliveTest, KeepAliveWake,
       netVars, pullVars, UntilTake
  <2>2. NextIn = 0
    BY <1>5 DEF KeepAliveThread, KeepAliveEnd, KeepAliveSend, KeepAliveTest, KeepAliveWake,
       NextIn, Types, KeepAliveType
  <2>3. flying' \subseteq flying \union {0}
    BY <1>5 DEF KeepAliveThread, KeepAliveEnd, KeepAliveSend, KeepAliveTest, KeepAliveWake, netVars
  <2>4. UntilTake' <= UntilTake /\ NextIn <= NextIn'
    BY <1>0, <2>1, <2>2
  <2>5. QED
    BY <1>4, <2>1, <2>2, <2>3, <2>4
<1>6. CASE (PullThread /\ ~PullReceive) \/ RaiseStopped \/ Halt \/ UNCHANGED vars
  <2>1. NextIn' = NextIn /\ flying' = flying /\ socket' = socket
    BY <1>6 DEF PullThread, PullCheck, PullTimeout, PullAck, PullResume, RaiseStopped, Halt, vars,
       kaVars, netVars, NextIn
  <2>2. CASE PullTimeout
    <3>1. Len(socket') = 0
      BY <2>1, <2>2 DEF PullTimeout
    <3>2. QED
      BY <1>0, <3>1 DEF RoomNext, RoomFor
  <2>3. CASE ~PullTimeout
    <3>1. UntilTake' <= UntilTake
      <4>1. CASE PullCheck \/ PullResume
        <5>1. UntilTake' = 0
          BY <4>1 DEF PullCheck, PullResume, UntilTake
        <5>2. QED
          BY <1>0, <5>1
      <4>2. CASE PullAck
        <5>1. UntilTake = Cycle
          BY <4>2 DEF PullAck, UntilTake
        <5>2. QED
          BY <1>0, <5>1
      <4>3. CASE UNCHANGED pullVars
        <5>1. UntilTake' = UntilTake
          BY <4>3 DEF pullVars, UntilTake
        <5>2. QED
          BY <1>0, <5>1
      <4>4. QED
        BY <1>6, <2>3, <4>1, <4>2, <4>3 DEF PullThread, RaiseStopped, Halt, vars
    <3>2. NextIn <= NextIn'
      BY <1>0, <2>1
    <3>3. QED
      BY <1>4, <2>1, <3>1, <3>2
  <2>4. QED
    BY <2>2, <2>3
<1>7. CASE PullReceive
  <2>1. UntilTake = 0 /\ NextIn' = NextIn /\ flying' = flying /\ Len(socket') = Len(socket) - 1
    BY <1>3, <1>7, HeadTailProperties DEF PullReceive, UntilTake, NextIn, kaVars
  <2>2. RoomFor(Len(socket), 0, NextIn, flying)
    BY <2>1 DEF Room
  <2>3. RoomFor(Len(socket) - 1, UntilTake', NextIn, flying)
    BY <1>0, <1>2, <2>2, RoomTaken
  <2>4. QED
    BY <2>1, <2>3 DEF RoomNext
<1>8. ASSUME NEW age \in flying, AckArrives(age) PROVE RoomNext
  <2>1. /\ UntilTake' = UntilTake /\ NextIn' = NextIn /\ flying' = flying \ {age}
        /\ socket' = Append(socket, "ack") /\ age >= MinTrip
    BY <1>8 DEF AckArrives, UntilTake, NextIn, kaVars, pullVars
  <2>2. Len(socket') = Len(socket) + 1
    BY <1>3, <2>1, AppendProperties
  <2>3. RoomFor(Len(socket) + 1, UntilTake, NextIn, flying \ {age})
    BY <1>0, <1>1, <2>1, RoomArrives DEF Room, Spacing
  <2>4. QED
    BY <2>1, <2>2, <2>3 DEF RoomNext
<1>9. ASSUME NEW datagram \in Datagrams, StrayArrives(datagram) PROVE RoomNext
  <2>1. Len(socket') = Len(socket) + 1 /\ Len(socket) < MaxBacklog
    BY <1>3, <1>9, AppendProperties DEF StrayArrives
  <2>2. Len(socket') <= MaxBacklog
    BY <1>0, <2>1
  <2>3. QED
    BY <2>2 DEF RoomNext, RoomFor
<1>10. CASE Tick
  <2>1. socket' = socket /\ flying' = {a + 1 : a \in flying}
    BY <1>10 DEF Tick
  <2>2. NextIn <= NextIn' + 1
    BY <1>10, Numbers DEF Tick, NextIn, LeftAfterTick, Types, KeepAliveType
  <2>3. Len(socket) > MaxBacklog => UntilTake' + 1 <= UntilTake
    <3> SUFFICES ASSUME Len(socket) > MaxBacklog PROVE UntilTake' + 1 <= UntilTake
      OBVIOUS
    <3>1. socket # <<>>
      BY <1>0
    <3>2. pullPc = "pause" /\ pullPc' = pullPc /\ pullLeft' = pullLeft - 1
      BY <1>10, <3>1 DEF Tick, Asleep, LeftAfterTick, StopInv, flags, Types, PullType, PullPcs
    <3>3. QED
      BY <3>2, Numbers DEF UntilTake, Types, PullType
  <2>4. RoomFor(Len(socket), UntilTake', NextIn', {a + 1 : a \in flying})
    BY <1>0, <1>2, <2>2, <2>3, RoomTicks DEF Room
  <2>5. QED
    BY <2>1, <2>4 DEF RoomNext
<1>11. QED
  BY <1>5, <1>6, <1>7, <1>8, <1>9, <1>10 DEF Next, Environment

\* What arrives, even behind all that may wait, leaves time to notice.
LEMMA SilenceFrom ==
    ASSUME NEW waiting \in Nat, NEW take \in Nat, take <= Cycle, NEW next, NEW ages,
           RoomFor(waiting, take, next, ages)
    PROVE  take + waiting * Cycle + Receive + Lag <= SilenceBound
<1>1. /\ Cycle \in Nat /\ MaxBacklog \in Nat /\ Receive \in Nat /\ Lag \in Nat
      /\ SilenceBound = (MaxBacklog + 2) * Cycle + Receive + Lag
  BY Numbers, TimingAssumption DEF Cycle, SilenceBound, MaxWaiting
<1>2. take + waiting * Cycle <= (MaxBacklog + 2) * Cycle
  <2>1. CASE waiting <= MaxBacklog + 1
    <3>1. waiting + 1 \in Nat /\ MaxBacklog + 2 \in Nat /\ waiting + 1 <= MaxBacklog + 2
      BY <1>1, <2>1
    <3>2. (waiting + 1) * Cycle <= (MaxBacklog + 2) * Cycle
      BY <1>1, <3>1, TimesMonotonic
    <3>3. (waiting + 1) * Cycle = waiting * Cycle + Cycle /\ waiting * Cycle \in Nat
      BY <1>1, Times
    <3>4. (MaxBacklog + 2) * Cycle \in Nat
      BY <1>1, <3>1, Times
    <3>5. QED
      BY <1>1, <3>2, <3>3, <3>4
  <2>2. CASE waiting = MaxBacklog + 2 /\ take = 0
    <3>1. waiting * Cycle \in Nat
      BY <1>1, Times
    <3>2. QED
      BY <2>2, <3>1
  <2>3. QED
    BY <1>1, <2>1, <2>2 DEF RoomFor
<1>3. waiting * Cycle \in Nat /\ (MaxBacklog + 2) * Cycle \in Nat
  <2>1. MaxBacklog + 2 \in Nat
    BY <1>1
  <2>2. QED
    BY <1>1, <2>1, Times
<1>4. QED
  BY <1>1, <1>2, <1>3

\* The time until the timeout is a number.
LEMMA UntilGoneIsNumber == ASSUME Types PROVE UntilGone \in Nat
<1>1. Len(socket) * Cycle \in Nat /\ UntilTake \in Nat
  BY Waits, Times
<1>2. UntilTake + Len(socket) * Cycle + Receive + Lag \in Nat
  BY <1>1, Numbers
<1>3. pullLeft + Lag \in Nat
  BY Numbers DEF Types, PullType
<1>4. QED
  BY <1>2, <1>3 DEF UntilGone

\* Only an arrival or a tick changes the time since the last arrival.
LEMMA SilenceCounts ==
    ASSUME Types, [Next]_vars, ~stopped'
    PROVE  /\ Tick => silence' <= silence + 1
           /\ ~Tick /\ ~Environment => silence' = silence
           /\ Environment => silence' = 0
<1>1. Tick => silence' <= silence + 1
  BY Waits DEF Tick, Aged
<1>2. ~Tick /\ ~Environment => silence' = silence
  BY DEF Next, KeepAliveThread, KeepAliveEnd, KeepAliveSend, KeepAliveTest, KeepAliveWake,
     PullThread, PullCheck, PullTimeout, PullReceive, PullAck, PullResume, vars, history
<1>3. Environment => silence' = 0
  BY DEF Environment, RaiseStopped, Halt, AckArrives, StrayArrives, flags
<1>4. QED
  BY <1>1, <1>2, <1>3

\* The thread gets nearer to its timeout as time passes.
LEMMA SilenceSteps ==
    ASSUME Types, Types', StopInv, Room', [Next]_vars, ~stopped',
           Gone \/ silence + UntilGone <= SilenceBound
    PROVE  Gone' \/ silence' + UntilGone' <= SilenceBound'
<1>0. /\ UntilGone \in Nat /\ silence \in Nat /\ silence' \in Nat /\ Cycle \in Nat
      /\ Len(socket) \in Nat /\ UntilTake \in Nat /\ UntilTake <= Cycle
      /\ UntilTake' \in Nat /\ UntilTake' <= Cycle /\ Len(socket') \in Nat
      /\ SilenceBound \in Nat /\ Len(socket) * Cycle \in Nat
  BY UntilGoneIsNumber, Waits, NextWaits, BoundsAreNumbers, Times
<1>1. SilenceBound' = SilenceBound /\ socket \in Seq(Datagrams)
  BY DEF SilenceBound, MaxWaiting, Types, NetType
<1> SUFFICES Gone' \/ silence' + UntilGone' <= SilenceBound
  BY <1>1
<1>2. ASSUME NEW gone \in Nat, gone = UntilGone',
             \/ silence' = silence /\ gone <= UntilGone
             \/ silence' <= silence + 1 /\ gone + 1 <= UntilGone,
             ~Gone
      PROVE  silence' + UntilGone' <= SilenceBound
  <2>1. PICK s \in Nat, g \in Nat : s = silence /\ g = UntilGone /\ s + g <= SilenceBound
    BY <1>0, <1>2
  <2>2. PICK t \in Nat : t = silence'
    BY <1>0
  <2>3. (t = s /\ gone <= g) \/ (t <= s + 1 /\ gone + 1 <= g)
    BY <1>2, <2>1, <2>2
  <2>4. s + g <= SilenceBound
    BY <2>1
  <2>5. t + gone <= SilenceBound
    BY ONLY <1>0, <2>3, <2>4
  <2>6. QED
    BY <1>2, <2>2, <2>5
<1>3. CASE Environment
  <2>2. socket' # <<>>
    BY <1>3, <1>1, AppendProperties DEF Environment, RaiseStopped, Halt, AckArrives,
       StrayArrives, Datagrams
  <2>3. PICK take \in Nat, waiting \in Nat :
            take = UntilTake' /\ waiting = Len(socket') /\ take <= Cycle
    BY <1>0
  <2>4. RoomFor(waiting, take, NextIn', flying')
    BY <2>3 DEF Room, RoomFor, Cycle
  <2>5. take + waiting * Cycle + Receive + Lag <= SilenceBound
    BY <2>3, <2>4, SilenceFrom
  <2>6. UntilGone' = take + waiting * Cycle + Receive + Lag
    BY <2>2, <2>3 DEF UntilGone, Cycle
  <2>7. take + waiting * Cycle + Receive + Lag \in Nat
    BY <1>0, <2>3, Numbers, Times
  <2>8. 0 + (take + waiting * Cycle + Receive + Lag) <= SilenceBound
    BY <1>0, <2>5, <2>7
  <2>9. QED
    BY <1>3, <2>6, <2>8, SilenceCounts
<1>4. CASE KeepAliveThread \/ UNCHANGED vars
  <2>1. /\ UNCHANGED <<socket, pullPc, pullLeft, connected>>
        /\ silence' = silence
    BY <1>4 DEF KeepAliveThread, KeepAliveEnd, KeepAliveSend, KeepAliveTest, KeepAliveWake,
       vars, netVars, pullVars, flags, history
  <2>2. UntilGone' = UntilGone /\ Gone' = Gone
    BY <2>1 DEF UntilGone, UntilTake, Gone, Cycle
  <2>3. QED
    BY <1>0, <1>2, <2>1, <2>2
<1>5. CASE PullReceive
  <2>1. /\ socket # <<>> /\ socket' = Tail(socket) /\ pullPc = "receive" /\ pullPc' # "receive"
        /\ silence' = silence
    BY <1>5 DEF PullReceive, flags, history
  <2>2. PICK n \in Nat : Len(socket) = n + 1 /\ Len(socket') = n
    <3>1. Len(socket) # 0 /\ Len(socket') = Len(socket) - 1
      BY <1>1, <2>1, HeadTailProperties, EmptySeq
    <3>2. Len(socket) - 1 \in Nat /\ Len(socket) = (Len(socket) - 1) + 1
      BY <1>0, <3>1
    <3>3. QED
      BY <3>1, <3>2
  <2>3. PICK take \in Nat : take = UntilTake' /\ take <= Cycle
    BY <1>0
  <2>4. UntilGone = 0 + (n + 1) * Cycle + Receive + Lag
    BY <2>1, <2>2 DEF UntilGone, UntilTake
  <2>5. UntilGone' = take + n * Cycle + Receive + Lag
    BY <2>1, <2>2, <2>3 DEF UntilGone, Cycle
  <2>6. (n + 1) * Cycle = n * Cycle + Cycle /\ n * Cycle \in Nat
    BY <1>0, <2>2, Times
  <2>7. take <= Cycle
    BY <2>3
  <2>8. /\ take + n * Cycle + Receive + Lag \in Nat
        /\ take + n * Cycle + Receive + Lag <= 0 + (n + 1) * Cycle + Receive + Lag
    BY <1>0, <2>6, <2>7, Numbers
  <2>9. ~Gone
    BY <2>1 DEF Gone
  <2>10. QED
    BY <1>2, <2>1, <2>4, <2>5, <2>8, <2>9
<1>6. CASE PullTimeout
  BY <1>6 DEF PullTimeout, Gone, netVars
<1>7. CASE PullCheck \/ PullAck \/ PullResume
  <2>1. socket' = socket /\ silence' = silence
    BY <1>7 DEF PullCheck, PullAck, PullResume, netVars, history
  <2>2. CASE Gone
    BY <1>7, <2>1, <2>2 DEF PullCheck, PullAck, PullResume, Gone, flags
  <2>3. PICK take \in Nat, c \in Nat :
            /\ take = UntilTake' /\ c = Len(socket) * Cycle
    BY <1>0
  <2>4. UntilGone = UntilTake + c + Receive + Lag
    BY <1>7, <2>3 DEF UntilGone, PullCheck, PullAck, PullResume
  <2>5. take <= UntilTake
    <3>1. CASE PullCheck \/ PullResume
      <4>1. take = 0
        BY <2>3, <3>1 DEF PullCheck, PullResume, UntilTake
      <4>2. QED
        BY <1>0, <4>1
    <3>2. CASE PullAck
      <4>1. UntilTake = Cycle
        BY <3>2 DEF PullAck, UntilTake
      <4>2. QED
        BY <1>0, <2>3, <4>1
    <3>3. QED
      BY <1>7, <3>1, <3>2
  <2>6. UntilGone' = take + c + Receive + Lag
    <3>1. CASE PullCheck /\ socket = <<>>
      <4>1. pullPc' = "receive" /\ pullLeft' = Receive /\ take = 0
        BY <2>3, <3>1 DEF PullCheck, UntilTake, flags
      <4>2. Len(socket) = 0
        BY <3>1, EmptySeq
      <4>3. c = 0
        BY <1>0, <2>3, <4>2, Times
      <4>4. UntilGone' = Receive + Lag
        BY <2>1, <3>1, <4>1 DEF UntilGone
      <4>5. QED
        BY <4>1, <4>3, <4>4, Numbers
    <3>2. CASE socket # <<>> \/ pullPc' # "receive"
      BY <2>1, <2>3, <3>2 DEF UntilGone, Cycle
    <3>3. QED
      BY <1>7, <3>1, <3>2 DEF PullAck, PullResume
  <2>7. /\ take + c + Receive + Lag \in Nat
        /\ take + c + Receive + Lag <= UntilTake + c + Receive + Lag
    BY <1>0, <2>5, Numbers
  <2>8. QED
    BY <1>2, <2>1, <2>2, <2>4, <2>6, <2>7
<1>8. CASE Tick
  <2>1. /\ UNCHANGED <<connected, socket, pullPc>> /\ pullLeft' = pullLeft - 1
        /\ pullPc = "pause" \/ (pullPc = "receive" /\ socket = <<>>)
    BY <1>8 DEF Tick, Asleep, LeftAfterTick, StopInv, flags, Types, PullType, PullPcs
  <2>2. Gone => Gone'
    BY <2>1 DEF Gone
  <2>3. PICK gone \in Nat : gone = UntilGone' /\ gone + 1 <= UntilGone
    <3>1. UntilGone' \in Nat
      <4>1. PICK take \in Nat, n \in Nat : take = UntilTake' /\ n = Len(socket')
        BY <1>0
      <4>2. n * Cycle \in Nat
        BY <1>0, <4>1, Times
      <4>3. take + n * Cycle + Receive + Lag \in Nat
        BY <4>1, <4>2, Numbers
      <4>4. pullLeft' + Lag \in Nat
        <5>1. PICK left \in (-Lag)..Receive : left = pullLeft'
          BY DEF Types, PullType
        <5>2. left + Lag \in Nat
          BY Numbers
        <5>3. QED
          BY <5>1, <5>2
      <4>5. QED
        BY <4>1, <4>3, <4>4 DEF UntilGone, Cycle
    <3>2. CASE pullPc = "receive" /\ socket = <<>>
      <4>1. UntilGone' = (pullLeft - 1) + Lag /\ UntilGone = pullLeft + Lag
        BY <2>1, <3>2 DEF UntilGone
      <4>2. ((pullLeft - 1) + Lag) + 1 <= pullLeft + Lag
        BY Numbers DEF Types, PullType
      <4>3. QED
        BY <3>1, <4>1, <4>2
    <3>3. CASE pullPc = "pause"
      <4>1. PICK c \in Nat : c = Len(socket) * Cycle
        BY <1>0
      <4>2. /\ UntilGone' = ((pullLeft - 1) + Lag) + c + Receive + Lag
            /\ UntilGone = (pullLeft + Lag) + c + Receive + Lag
        BY <2>1, <3>3, <4>1 DEF UntilGone, UntilTake, Cycle
      <4>3. (((pullLeft - 1) + Lag) + c + Receive + Lag) + 1
                <= (pullLeft + Lag) + c + Receive + Lag
        BY Numbers DEF Types, PullType
      <4>4. QED
        BY <3>1, <4>2, <4>3
    <3>4. QED
      BY <2>1, <3>2, <3>3
  <2>4. silence' <= silence + 1
    BY <1>8, SilenceCounts
  <2>5. CASE ~Gone
    BY <1>2, <2>3, <2>4, <2>5
  <2>6. QED
    BY <2>2, <2>5
<1>9. QED
  BY <1>3, <1>4, <1>5, <1>6, <1>7, <1>8 DEF Next, PullThread

\* A silent server is taken for gone within its bound, for every choice of the
\* durations in which acknowledgements do not pile up (gateway.cpp:134-137).
THEOREM SilenceCorrect == Spec => []SilenceNoticed
<1>1. Init => Spacing /\ SilenceInv
  <2> SUFFICES ASSUME Init PROVE Spacing /\ SilenceInv
    OBVIOUS
  <2>1. Spacing
    BY DEF Init, Spacing
  <2>2. Gone
    BY DEF Init, Gone
  <2>3. Len(socket) <= MaxBacklog
    BY EmptySeq, TimingAssumption DEF Init
  <2>4. QED
    BY <2>1, <2>2, <2>3 DEF SilenceInv, Room, RoomFor
<1>2. ASSUME Unhurried, Types, StopInv, Spacing, SilenceInv, [Next]_vars PROVE SilenceInv'
  <2> SUFFICES ASSUME ~stopped'
               PROVE  Room' /\ (Gone' \/ silence' + UntilGone' <= SilenceBound')
    BY DEF SilenceInv
  <2>1. ~stopped
    BY <1>2 DEF Next, KeepAliveThread, KeepAliveEnd, KeepAliveSend, KeepAliveTest, KeepAliveWake,
       PullThread, PullCheck, PullTimeout, PullReceive, PullAck, PullResume, Environment,
       RaiseStopped, Halt, AckArrives, StrayArrives, Tick, vars, flags
  <2>2. Room /\ (Gone \/ silence + UntilGone <= SilenceBound) /\ Types'
    BY <1>2, <2>1, TypesKept DEF SilenceInv
  <2>3. Room'
    BY <1>2, <2>2, RoomSteps
  <2>4. QED
    BY <1>2, <2>2, <2>3, SilenceSteps
<1>3. ASSUME Types, SilenceInv PROVE SilenceNoticed
  <2>1. UntilGone \in Nat /\ silence \in Nat /\ SilenceBound \in Nat
    BY <1>3, UntilGoneIsNumber, Waits, BoundsAreNumbers
  <2>2. QED
    BY <1>3, <2>1 DEF SilenceInv, SilenceNoticed, Gone
<1>4. CASE Unhurried
  <2>1. ASSUME Types, StopInv, Spacing, SilenceInv, [Next]_vars PROVE SilenceInv'
    BY <1>2, <1>4, <2>1
  <2>2. QED
    BY <1>1, <1>3, <2>1, SpacingSteps, TypesCorrect, StopInvCorrect, PTL DEF Spec
<1>5. CASE ~Unhurried
  <2>1. SilenceNoticed
    BY <1>5 DEF SilenceNoticed
  <2>2. QED
    BY <2>1, PTL
<1>6. QED
  BY <1>4, <1>5
=============================================================================
