--------------------------- MODULE ChannelProofs ---------------------------
(***************************************************************************)
(* Proofs about module Channel, for any number of putters, getters and     *)
(* closers and any number of calls: its types, the mutual exclusion its    *)
(* mutex gives, the order of its items, and that it implements             *)
(* ClosableQueue.                                                          *)
(***************************************************************************)
EXTENDS Channel, FiniteSetTheorems, SequenceTheorems, TLAPS

USE DEF PutPcs, GetPcs, ClosePcs

\* A putter is no getter and no closer, and NoThread is none of them.
LEMMA KindsDisjoint ==
    /\ Putters \subseteq Threads /\ Getters \subseteq Threads /\ Closers \subseteq Threads
    /\ NoThread \notin Threads
    /\ Putters \intersect Getters = {}
    /\ Putters \intersect Closers = {}
    /\ Getters \intersect Closers = {}
  BY ThreadAssumption DEF Threads

-----------------------------------------------------------------------------
(* Type correctness, one step per action.                                  *)

\* The initial state is well typed.
LEMMA TypeInit == Init => TypeOK
  <1> SUFFICES ASSUME Init PROVE TypeOK
    OBVIOUS
  <1>1. queue \in Seq(Items) /\ accepted \in Seq(Items) /\ delivered \in Seq(Items)
    BY DEF Init
  <1>2. /\ pc \in [Threads -> {"idle", "threw"} \union PutPcs \union GetPcs \union ClosePcs]
        /\ \A t \in Threads : pc[t] = "idle"
    BY DEF Init
  <1>3. willWait \in [Getters -> BOOLEAN] /\ putItem \in [Putters -> Items]
    BY DEF Init
  <1> QED
    BY <1>1, <1>2, <1>3, KindsDisjoint DEF Init, TypeOK

\* The steps of channel::put keep the types.
LEMMA TypePut ==
    ASSUME TypeOK, NEW t \in Putters, CallPut(t) \/ PutStep(t)
    PROVE  TypeOK'
  <1> USE KindsDisjoint, ThreadAssumption DEF TypeOK, Goto, Unlock, args, history
  <1>1. CASE CallPut(t)
    BY <1>1 DEF CallPut
  <1>2. CASE LockPut(t)
    BY <1>2 DEF LockPut, Lock
  <1>3. CASE PutThrows(t)
    BY <1>3 DEF PutThrows
  <1>4. CASE PutAllowed(t)
    BY <1>4 DEF PutAllowed
  <1>5. CASE Push(t)
    BY <1>5 DEF Push
  <1>6. CASE NotifyOne(t)
    BY <1>6 DEF NotifyOne, Asleep
  <1> QED
    BY <1>1, <1>2, <1>3, <1>4, <1>5, <1>6 DEF PutStep

\* The steps of channel::get keep the types.
LEMMA TypeGet ==
    ASSUME TypeOK, NEW t \in Getters, CallGet(t) \/ SpuriousWakeup(t) \/ GetStep(t)
    PROVE  TypeOK'
  <1> USE KindsDisjoint, ThreadAssumption DEF TypeOK, Goto, Unlock, args, history
  <1>1. CASE CallGet(t)
    BY <1>1 DEF CallGet
  <1>2. CASE SpuriousWakeup(t)
    BY <1>2 DEF SpuriousWakeup
  <1>3. CASE LockGet(t)
    BY <1>3 DEF LockGet, Lock
  <1>4. CASE Sleep(t)
    BY <1>4 DEF Sleep
  <1>5. CASE TestPassed(t)
    BY <1>5 DEF TestPassed
  <1>6. CASE Pop(t)
    <2>1. queue' \in Seq(Items) /\ delivered' \in Seq(Items)
      <3>1. CASE queue = <<>>
        BY <1>6, <3>1 DEF Pop
      <3>2. CASE queue # <<>>
        <4>1. queue' = Tail(queue) /\ delivered' = Append(delivered, Head(queue))
          BY <1>6, <3>2 DEF Pop
        <4>2. Tail(queue) \in Seq(Items) /\ Head(queue) \in Items
          BY <3>2, HeadTailProperties
        <4> QED
          BY <4>1, <4>2, AppendProperties
      <3> QED
        BY <3>1, <3>2
    <2>2. UNCHANGED <<closed, willWait, putItem, puts, accepted>> /\ mutex' = NoThread
      BY <1>6 DEF Pop
    <2>3. pc' = [pc EXCEPT ![t] = "idle"]
      BY <1>6 DEF Pop
    <2> QED
      BY <2>1, <2>2, <2>3
  <1> QED
    BY <1>1, <1>2, <1>3, <1>4, <1>5, <1>6 DEF GetStep

\* The steps of channel::close keep the types.
LEMMA TypeClose ==
    ASSUME TypeOK, NEW t \in Closers, CallClose(t) \/ CloseStep(t)
    PROVE  TypeOK'
  <1> USE KindsDisjoint, ThreadAssumption DEF TypeOK, Goto, Unlock, args, history
  <1>1. CASE CallClose(t)
    BY <1>1 DEF CallClose
  <1>2. CASE LockClose(t)
    BY <1>2 DEF LockClose, Lock
  <1>3. CASE SetClosed(t)
    BY <1>3 DEF SetClosed
  <1>4. CASE NotifyAll(t)
    BY <1>4 DEF NotifyAll, Asleep
  <1> QED
    BY <1>1, <1>2, <1>3, <1>4 DEF CloseStep

\* Every variable keeps its type: in particular a thread only ever is at a
\* label of its own operations.
THEOREM TypeCorrect == Spec => []TypeOK
  <1>1. TypeOK /\ [Next]_vars => TypeOK'
    <2> SUFFICES ASSUME TypeOK, [Next]_vars PROVE TypeOK'
      OBVIOUS
    <2>1. CASE Next
      BY <2>1, TypePut, TypeGet, TypeClose DEF Next
    <2>2. CASE UNCHANGED vars
      BY <2>2 DEF vars, TypeOK
    <2> QED
      BY <2>1, <2>2
  <1> QED
    BY TypeInit, <1>1, PTL DEF Spec
-----------------------------------------------------------------------------
(* Mutual exclusion, and what a thread that has passed a test knows.       *)

Inv == TypeOK /\ MutexHeld /\ PushesOnOpen

\* The steps of put keep the mutex exclusive and the test of closed valid.
LEMMA MutexPut ==
    ASSUME Inv, NEW t \in Putters, CallPut(t) \/ PutStep(t)
    PROVE  MutexHeld' /\ PushesOnOpen'
  <1> USE KindsDisjoint DEF Inv, TypeOK, MutexHeld, PushesOnOpen, Critical, Goto, Unlock, args, history
  <1>1. CASE CallPut(t)
    BY <1>1 DEF CallPut
  <1>2. CASE LockPut(t)
    BY <1>2 DEF LockPut, Lock
  <1>3. CASE PutThrows(t)
    BY <1>3 DEF PutThrows
  <1>4. CASE PutAllowed(t)
    BY <1>4 DEF PutAllowed
  <1>5. CASE Push(t)
    BY <1>5 DEF Push
  <1>6. CASE NotifyOne(t)
    BY <1>6 DEF NotifyOne, Asleep
  <1> QED
    BY <1>1, <1>2, <1>3, <1>4, <1>5, <1>6 DEF PutStep

\* The steps of get keep the mutex exclusive and the test of closed valid.
LEMMA MutexGet ==
    ASSUME Inv, NEW t \in Getters, CallGet(t) \/ SpuriousWakeup(t) \/ GetStep(t)
    PROVE  MutexHeld' /\ PushesOnOpen'
  <1> USE KindsDisjoint DEF Inv, TypeOK, MutexHeld, PushesOnOpen, Critical, Goto, Unlock, args, history
  <1>1. CASE CallGet(t)
    BY <1>1 DEF CallGet
  <1>2. CASE SpuriousWakeup(t)
    BY <1>2 DEF SpuriousWakeup
  <1>3. CASE LockGet(t)
    BY <1>3 DEF LockGet, Lock
  <1>4. CASE Sleep(t)
    BY <1>4 DEF Sleep
  <1>5. CASE TestPassed(t)
    BY <1>5 DEF TestPassed
  <1>6. CASE Pop(t)
    BY <1>6 DEF Pop
  <1> QED
    BY <1>1, <1>2, <1>3, <1>4, <1>5, <1>6 DEF GetStep

\* The steps of close keep the mutex exclusive and the test of closed valid:
\* no putter is past its test while the closer holds the mutex.
LEMMA MutexClose ==
    ASSUME Inv, NEW t \in Closers, CallClose(t) \/ CloseStep(t)
    PROVE  MutexHeld' /\ PushesOnOpen'
  <1> USE KindsDisjoint DEF Inv, TypeOK, MutexHeld, PushesOnOpen, Critical, Goto, Unlock, args, history
  <1>1. CASE CallClose(t)
    BY <1>1 DEF CallClose
  <1>2. CASE LockClose(t)
    BY <1>2 DEF LockClose, Lock
  <1>3. CASE SetClosed(t)
    BY <1>3 DEF SetClosed
  <1>4. CASE NotifyAll(t)
    BY <1>4 DEF NotifyAll, Asleep
  <1> QED
    BY <1>1, <1>2, <1>3, <1>4 DEF CloseStep

\* The mutex is held by exactly the thread inside a body, and a putter that
\* has passed its test of closed pushes on an open channel.
THEOREM MutexCorrect == Spec => []Inv
  <1>1. Init => Inv
    <2> SUFFICES ASSUME Init PROVE Inv
      OBVIOUS
    <2>1. mutex = NoThread /\ \A t \in Threads : pc[t] = "idle"
      BY DEF Init
    <2> QED
      BY <2>1, TypeInit, KindsDisjoint DEF Inv, MutexHeld, PushesOnOpen, Critical
  <1>2. Inv /\ TypeOK' /\ [Next]_vars => Inv'
    <2> SUFFICES ASSUME Inv, TypeOK', [Next]_vars PROVE MutexHeld' /\ PushesOnOpen'
      BY DEF Inv
    <2>1. CASE Next
      BY <2>1, MutexPut, MutexGet, MutexClose DEF Next
    <2>2. CASE UNCHANGED vars
      BY <2>2 DEF vars, Inv, MutexHeld, PushesOnOpen
    <2> QED
      BY <2>1, <2>2
  <1> QED
    BY TypeCorrect, <1>1, <1>2, PTL DEF Spec

\* Nothing is pushed on a closed channel, although put tests and pushes in
\* different steps.
THEOREM PushCorrect == Spec => []PushesOnOpen
  <1>1. Inv => PushesOnOpen
    BY DEF Inv
  <1> QED
    BY MutexCorrect, <1>1, PTL
-----------------------------------------------------------------------------
(* Waiting gets.                                                           *)

\* Under the mutex, what a waiting get has tested stays true until it pops.
TestHolds == \A g \in Getters : pc[g] = "get_pop" /\ willWait[g] => closed \/ queue # <<>>

\* No other thread can empty the queue between the test and the pop.
LEMMA TestPut ==
    ASSUME Inv, TestHolds, NEW t \in Putters, CallPut(t) \/ PutStep(t)
    PROVE  TestHolds'
  <1>1. \A g \in Getters : pc'[g] = "get_pop" => pc[g] = "get_pop"
    BY KindsDisjoint DEF CallPut, PutStep, LockPut, Lock, PutThrows, PutAllowed, Push, NotifyOne,
       Goto, Asleep, Inv, TypeOK
  <1>2. UNCHANGED <<willWait, closed>>
    BY DEF CallPut, PutStep, LockPut, Lock, PutThrows, PutAllowed, Push, NotifyOne, args
  <1>3. queue # <<>> => queue' # <<>>
    <2>1. CASE Push(t)
      <3>1. putItem[t] \in Items /\ queue \in Seq(Items)
        BY DEF Inv, TypeOK
      <3>2. Len(queue') = Len(queue) + 1 /\ Len(queue) \in Nat /\ Len(<<>>) = 0
        BY <2>1, <3>1, AppendProperties, LenProperties, EmptySeq DEF Push
      <3>3. QED
        BY <3>2
    <2>2. CASE ~Push(t)
      BY <2>2 DEF CallPut, PutStep, LockPut, Lock, PutThrows, PutAllowed, NotifyOne
    <2>3. QED
      BY <2>1, <2>2
  <1>4. QED
    BY <1>1, <1>2, <1>3 DEF TestHolds

\* A getter pops under the mutex, when no other getter is past its test.
LEMMA TestGet ==
    ASSUME Inv, TestHolds, NEW t \in Getters, CallGet(t) \/ SpuriousWakeup(t) \/ GetStep(t)
    PROVE  TestHolds'
  <1> USE KindsDisjoint DEF Inv, TypeOK, MutexHeld, Critical, TestHolds, Goto, args
  <1>1. CASE CallGet(t) \/ SpuriousWakeup(t)
    BY <1>1 DEF CallGet, SpuriousWakeup
  <1>2. CASE LockGet(t) \/ Sleep(t)
    BY <1>2 DEF LockGet, Lock, Sleep
  <1>3. CASE TestPassed(t)
    BY <1>3 DEF TestPassed, MustSleep
  <1>4. CASE Pop(t)
    <2>1. \A g \in Getters : g # t => pc[g] # "get_pop"
      BY <1>4 DEF Pop
    <2>2. \A g \in Getters : pc'[g] # "get_pop"
      BY <1>4, <2>1 DEF Pop
    <2>3. QED
      BY <2>2
  <1>5. QED
    BY <1>1, <1>2, <1>3, <1>4 DEF GetStep

\* A close can only help.
LEMMA TestClose ==
    ASSUME Inv, TestHolds, NEW t \in Closers, CallClose(t) \/ CloseStep(t)
    PROVE  TestHolds'
  <1> USE KindsDisjoint DEF Inv, TypeOK, TestHolds, Goto, args
  <1>1. CASE CallClose(t) \/ LockClose(t)
    BY <1>1 DEF CallClose, LockClose, Lock
  <1>2. CASE SetClosed(t)
    BY <1>2 DEF SetClosed
  <1>3. CASE NotifyAll(t)
    BY <1>3 DEF NotifyAll, Asleep
  <1>4. QED
    BY <1>1, <1>2, <1>3 DEF CloseStep

\* A get that waits brings an item or finds the channel closed, in spite of
\* spurious wake-ups and of other getters that are faster.
THEOREM EmptyHandedCorrect == Spec => EmptyHandedOnlyIfClosed
  <1>1. Init => TestHolds
    BY KindsDisjoint DEF Init, TestHolds
  <1>2. TestHolds /\ Inv /\ [Next]_vars => TestHolds'
    <2>1. TestHolds /\ UNCHANGED vars => TestHolds'
      BY DEF TestHolds, vars
    <2>2. QED
      BY <2>1, TestPut, TestGet, TestClose DEF Next
  <1>3. ASSUME TestHolds, Inv, [Next]_vars, NEW g \in Getters,
               pc[g] # "idle", pc'[g] = "idle", willWait[g], UNCHANGED delivered
        PROVE  closed
    <2>1. Pop(g)
      <3>1. pc[g] \in GetPcs
        BY <1>3, KindsDisjoint DEF Inv, TypeOK
      <3>2. ASSUME NEW t \in Putters, CallPut(t) \/ PutStep(t) PROVE FALSE
        BY <1>3, <3>1, <3>2, KindsDisjoint DEF CallPut, PutStep, LockPut, Lock, PutThrows,
           PutAllowed, Push, NotifyOne, Goto, Asleep, Inv, TypeOK
      <3>3. ASSUME NEW t \in Closers, CallClose(t) \/ CloseStep(t) PROVE FALSE
        BY <1>3, <3>1, <3>3, KindsDisjoint DEF CallClose, CloseStep, LockClose, Lock, SetClosed,
           NotifyAll, Goto, Asleep, Inv, TypeOK
      <3>4. ASSUME NEW t \in Getters, CallGet(t) \/ SpuriousWakeup(t) \/ GetStep(t)
            PROVE  Pop(g)
        BY <1>3, <3>1, <3>4, KindsDisjoint DEF CallGet, SpuriousWakeup, GetStep, LockGet, Lock,
           Sleep, TestPassed, Pop, Goto, Inv, TypeOK
      <3>5. ~UNCHANGED vars
        BY <1>3 DEF vars
      <3>6. QED
        BY <1>3, <3>2, <3>3, <3>4, <3>5 DEF Next
    <2>2. queue = <<>>
      <3>1. SUFFICES ASSUME queue # <<>> PROVE FALSE
        OBVIOUS
      <3>2. queue \in Seq(Items) /\ delivered \in Seq(Items)
        BY <1>3 DEF Inv, TypeOK
      <3>3. Head(queue) \in Items /\ delivered' = Append(delivered, Head(queue))
        BY <2>1, <3>1, <3>2, HeadTailProperties DEF Pop
      <3>4. Len(delivered') = Len(delivered) + 1 /\ Len(delivered) \in Nat
        BY <3>2, <3>3, AppendProperties, LenProperties
      <3>5. QED
        BY <1>3, <3>4
    <2>3. QED
      BY <1>3, <2>1, <2>2 DEF TestHolds, Pop
  <1>4. TestHolds /\ Inv /\ [Next]_vars =>
            [\A g \in Getters :
                (pc[g] # "idle" /\ pc'[g] = "idle" /\ willWait[g] /\ UNCHANGED delivered)
                    => closed]_vars
    BY <1>3
  <1>5. QED
    BY MutexCorrect, <1>1, <1>2, <1>4, PTL DEF Spec, EmptyHandedOnlyIfClosed
-----------------------------------------------------------------------------
(* The order of items.                                                     *)

\* An item appended to the second of two sequences is appended to both.
LEMMA AppendToConcat ==
    ASSUME NEW S, NEW s \in Seq(S), NEW t \in Seq(S), NEW e \in S
    PROVE  Append(s \o t, e) = s \o Append(t, e)
  <1>1. /\ s \o t \in Seq(S) /\ Append(t, e) \in Seq(S)
        /\ Append(s \o t, e) \in Seq(S) /\ s \o Append(t, e) \in Seq(S)
    BY ConcatProperties, AppendProperties
  <1>2. Len(s) \in Nat /\ Len(t) \in Nat
    BY LenProperties
  <1>3. /\ Len(Append(s \o t, e)) = Len(s) + Len(t) + 1
        /\ Len(s \o Append(t, e)) = Len(s) + Len(t) + 1
    BY <1>1, <1>2, ConcatProperties, AppendProperties
  <1>4. ASSUME NEW i \in 1..(Len(s) + Len(t) + 1)
        PROVE  Append(s \o t, e)[i] = (s \o Append(t, e))[i]
    BY <1>1, <1>2, <1>3, ConcatProperties, AppendProperties
  <1> QED
    BY <1>1, <1>3, <1>4, SeqEqual

\* Moving the head of the second of two sequences to the end of the first
\* changes nothing of their concatenation.
LEMMA MoveHeadOver ==
    ASSUME NEW S, NEW s \in Seq(S), NEW t \in Seq(S), t # <<>>
    PROVE  Append(s, Head(t)) \o Tail(t) = s \o t
  <1>1. /\ Head(t) \in S /\ Head(t) = t[1]
        /\ Tail(t) \in Seq(S) /\ Len(Tail(t)) = Len(t) - 1
        /\ \A i \in 1..Len(Tail(t)) : Tail(t)[i] = t[i + 1]
    BY HeadTailProperties
  <1>2. Len(s) \in Nat /\ Len(t) \in Nat /\ Len(t) > 0
    BY LenProperties, EmptySeq
  <1>3. /\ Append(s, Head(t)) \in Seq(S)
        /\ Len(Append(s, Head(t))) = Len(s) + 1
        /\ \A i \in 1..Len(s) : Append(s, Head(t))[i] = s[i]
        /\ Append(s, Head(t))[Len(s) + 1] = t[1]
    BY <1>1, AppendProperties
  <1>4. /\ Append(s, Head(t)) \o Tail(t) \in Seq(S)
        /\ Len(Append(s, Head(t)) \o Tail(t)) = Len(s) + Len(t)
        /\ s \o t \in Seq(S)
        /\ Len(s \o t) = Len(s) + Len(t)
    BY <1>1, <1>2, <1>3, ConcatProperties
  <1>5. ASSUME NEW i \in 1..(Len(s) + Len(t))
        PROVE  (Append(s, Head(t)) \o Tail(t))[i] = (s \o t)[i]
    <2>1. CASE i <= Len(s)
      BY <1>1, <1>2, <1>3, <2>1, ConcatProperties
    <2>2. CASE i = Len(s) + 1
      BY <1>1, <1>2, <1>3, <2>2, ConcatProperties
    <2>3. CASE i > Len(s) + 1
      <3>1. i - (Len(s) + 1) \in 1..Len(Tail(t))
        BY <1>1, <1>2, <2>3
      <3>2. (Append(s, Head(t)) \o Tail(t))[i] = t[i - Len(s)]
        BY <1>1, <1>2, <1>3, <2>3, <3>1, ConcatProperties
      <3> QED
        BY <1>2, <2>3, <3>2, ConcatProperties
    <2> QED
      BY <1>2, <2>1, <2>2, <2>3
  <1> QED
    BY <1>4, <1>5, SeqEqual

\* The steps of a channel that change what ClosableQueue sees, and how.
Unobserved == UNCHANGED <<queue, closed, history>>
Pushes == ~closed /\ UNCHANGED <<closed, delivered>> /\ \E item \in Items :
             queue' = Append(queue, item) /\ accepted' = Append(accepted, item)
Pops == /\ queue # <<>>
        /\ queue' = Tail(queue)
        /\ delivered' = Append(delivered, Head(queue))
        /\ UNCHANGED <<closed, accepted>>
Closes == closed' = TRUE /\ UNCHANGED <<queue, history>>

\* Every step of the channel pushes, pops, closes or is not observed.
LEMMA StepKinds ==
    ASSUME Inv, [Next]_vars
    PROVE  Unobserved \/ Pushes \/ Pops \/ Closes
  <1> USE DEF Unobserved, Pushes, Pops, Closes, Inv, TypeOK, PushesOnOpen, args, history
  <1>1. ASSUME NEW t \in Putters, CallPut(t) \/ PutStep(t)
        PROVE  Unobserved \/ Pushes
    BY <1>1 DEF CallPut, PutStep, LockPut, Lock, PutThrows, PutAllowed, Push, NotifyOne
  <1>2. ASSUME NEW t \in Getters, CallGet(t) \/ SpuriousWakeup(t) \/ GetStep(t)
        PROVE  Unobserved \/ Pops
    BY <1>2 DEF CallGet, SpuriousWakeup, GetStep, LockGet, Lock, Sleep, TestPassed, Pop
  <1>3. ASSUME NEW t \in Closers, CallClose(t) \/ CloseStep(t)
        PROVE  Unobserved \/ Closes
    BY <1>3 DEF CallClose, CloseStep, LockClose, Lock, SetClosed, NotifyAll
  <1>4. CASE UNCHANGED vars
    BY <1>4 DEF vars
  <1> QED
    BY <1>1, <1>2, <1>3, <1>4 DEF Next

\* Nothing is lost, repeated or reordered: what is queued is what was
\* accepted and not delivered yet.
THEOREM OrderCorrect == Spec => []NothingLostOrReordered
  <1> USE DEF NothingLostOrReordered
  <1>1. Init => NothingLostOrReordered
    BY ConcatEmptySeq, EmptySeq DEF Init
  <1>2. NothingLostOrReordered /\ Inv /\ [Next]_vars => NothingLostOrReordered'
    <2> SUFFICES ASSUME NothingLostOrReordered, Inv, [Next]_vars
                 PROVE  NothingLostOrReordered'
      OBVIOUS
    <2>1. queue \in Seq(Items) /\ delivered \in Seq(Items)
      BY DEF Inv, TypeOK
    <2>2. CASE Unobserved \/ Closes
      BY <2>2 DEF Unobserved, Closes, history
    <2>3. CASE Pushes
      <3>1. PICK item \in Items :
                queue' = Append(queue, item) /\ accepted' = Append(accepted, item)
        BY <2>3 DEF Pushes
      <3>2. Append(delivered \o queue, item) = delivered \o Append(queue, item)
        BY <2>1, AppendToConcat
      <3> QED
        BY <2>3, <3>1, <3>2 DEF Pushes
    <2>4. CASE Pops
      BY <2>1, <2>4, MoveHeadOver DEF Pops
    <2> QED
      BY <2>2, <2>3, <2>4, StepKinds
  <1> QED
    BY MutexCorrect, <1>1, <1>2, PTL DEF Spec

\* Channel implements ClosableQueue.
THEOREM Refinement == Spec => ImplementsClosableQueue
  <1>1. Init => Queue!Init
    BY DEF Init, Queue!Init
  <1>2. Inv /\ NothingLostOrReordered /\ [Next]_vars => [Queue!Next]_(Queue!vars)
    <2> SUFFICES ASSUME Inv, NothingLostOrReordered, [Next]_vars
                 PROVE  [Queue!Next]_(Queue!vars)
      OBVIOUS
    <2> USE DEF Queue!Next, Queue!vars
    <2>1. queue \in Seq(Items) /\ delivered \in Seq(Items)
      BY DEF Inv, TypeOK
    <2>2. CASE Unobserved
      BY <2>2 DEF Unobserved, history
    <2>3. CASE Pushes
      BY <2>3 DEF Pushes, Queue!Accept
    <2>4. CASE Pops
      <3>1. Head(queue) \in Items /\ Len(queue) > 0
        BY <2>1, <2>4, HeadTailProperties, EmptySeq DEF Pops
      <3>2. Len(delivered) \in Nat /\ Len(accepted) = Len(delivered) + Len(queue)
        BY <2>1, ConcatProperties, LenProperties DEF NothingLostOrReordered
      <3>3. Len(delivered') = Len(delivered) + 1
        BY <2>1, <2>4, <3>1, AppendProperties DEF Pops
      <3> QED
        <4>1. Len(queue) \in Nat /\ Len(delivered) < Len(accepted)
          BY <2>1, <3>1, <3>2, LenProperties
        <4> QED
          BY <2>4, <3>3, <4>1 DEF Pops, Queue!Take
    <2>5. CASE Closes
      BY <2>5 DEF Closes, Queue!Close, history
    <2> QED
      BY <2>2, <2>3, <2>4, <2>5, StepKinds
  <1> QED
    BY MutexCorrect, OrderCorrect, <1>1, <1>2, PTL
       DEF Spec, ImplementsClosableQueue, Queue!Spec
-----------------------------------------------------------------------------
(* Wake-ups.                                                               *)

\* The threads counted by NoLostWakeup are finitely many.
LEMMA CountsFinite ==
    /\ IsFiniteSet(Awake) /\ Cardinality(Awake) \in Nat
    /\ IsFiniteSet(Notifying) /\ Cardinality(Notifying) \in Nat
  BY ThreadAssumption, FS_Subset, FS_CardinalityType DEF Awake, Notifying

\* The same one step later: FS_Subset again, with the primed sets.
LEMMA CountsFiniteNext ==
    /\ IsFiniteSet(Awake') /\ Cardinality(Awake') \in Nat
    /\ IsFiniteSet(Notifying') /\ Cardinality(Notifying') \in Nat
  BY ThreadAssumption, FS_Subset, FS_CardinalityType DEF Awake, Notifying

\* No step of put loses a wake-up: it notifies for what it pushes.
LEMMA WakeupPut ==
    ASSUME Inv, NoLostWakeup, NEW t \in Putters, CallPut(t) \/ PutStep(t)
    PROVE  NoLostWakeup'
  <1> USE KindsDisjoint DEF Inv, TypeOK, Goto, Unlock, args, history
  <1>1. CASE CallPut(t) \/ LockPut(t) \/ PutThrows(t) \/ PutAllowed(t)
    <2>1. Awake' = Awake /\ Asleep' = Asleep /\ Notifying' = Notifying
      BY <1>1 DEF CallPut, LockPut, Lock, PutThrows, PutAllowed, Awake, Asleep, Notifying
    <2>2. UNCHANGED <<queue, closed>> /\ \A c \in Closers : pc'[c] = pc[c]
      BY <1>1 DEF CallPut, LockPut, Lock, PutThrows, PutAllowed
    <2> QED
      BY <2>1, <2>2 DEF NoLostWakeup
  <1>2. CASE Push(t)
    <2>1. Awake' = Awake /\ Asleep' = Asleep
      BY <1>2 DEF Push, Awake, Asleep
    <2>2. Notifying' = Notifying \union {t} /\ t \notin Notifying
      BY <1>2 DEF Push, Notifying
    <2>3. Cardinality(Notifying') = Cardinality(Notifying) + 1
      BY <2>2, CountsFinite, FS_AddElement
    <2>4. Len(queue') = Len(queue) + 1 /\ Len(queue) \in Nat
      BY <1>2, AppendProperties, LenProperties DEF Push
    <2>5. ~closed' /\ ~closed
      BY <1>2 DEF Push, PushesOnOpen
    <2> QED
      BY <2>1, <2>3, <2>4, <2>5, CountsFinite DEF NoLostWakeup
  <1>3. CASE NotifyOne(t) /\ Asleep = {}
    <2>1. Asleep' = {}
      BY <1>3 DEF NotifyOne, Asleep
    <2> QED
      BY <2>1 DEF NoLostWakeup
  <1>4. CASE NotifyOne(t) /\ Asleep # {}
    <2>1. PICK g \in Asleep : pc' = [pc EXCEPT ![t] = "idle", ![g] = "get_lock"]
      BY <1>4 DEF NotifyOne
    <2>2. g \in Getters /\ g # t /\ pc[g] = "sleep" /\ pc[t] = "put_notify"
      BY <1>4 DEF NotifyOne, Asleep
    <2>3. Awake' = Awake \union {g} /\ g \notin Awake
      BY <2>1, <2>2 DEF Awake
    <2>4. Notifying' = Notifying \ {t} /\ t \in Notifying
      BY <2>1, <2>2 DEF Notifying
    <2>5. Cardinality(Awake') = Cardinality(Awake) + 1
      BY <2>3, CountsFinite, FS_AddElement
    <2>6. Cardinality(Notifying') = Cardinality(Notifying) - 1
      BY <2>4, CountsFinite, FS_RemoveElement
    <2>7. UNCHANGED <<queue, closed>> /\ \A c \in Closers : pc'[c] = pc[c]
      BY <1>4, <2>1, <2>2 DEF NotifyOne
    <2>8. Len(queue) \in Nat
      BY LenProperties
    <2> QED
      BY <1>4, <2>5, <2>6, <2>7, <2>8, CountsFinite DEF NoLostWakeup
  <1> QED
    BY <1>1, <1>2, <1>3, <1>4 DEF PutStep

\* No step of get loses a wake-up: a getter pops before it leaves.
LEMMA WakeupGet ==
    ASSUME Inv, NoLostWakeup, NEW t \in Getters,
           CallGet(t) \/ SpuriousWakeup(t) \/ GetStep(t)
    PROVE  NoLostWakeup'
  <1> USE KindsDisjoint DEF Inv, TypeOK, Goto, Unlock, args, history
  <1>0. /\ Notifying' = Notifying
        /\ \A c \in Closers : pc'[c] = pc[c]
        /\ closed' = closed
    BY DEF CallGet, SpuriousWakeup, GetStep, LockGet, Lock, Sleep, TestPassed, Pop, Notifying
  <1>1. CASE CallGet(t) \/ SpuriousWakeup(t)
    <2>1. Awake' = Awake \union {t} /\ t \notin Awake /\ Asleep' \subseteq Asleep
      BY <1>1 DEF CallGet, SpuriousWakeup, Awake, Asleep
    <2>2. Cardinality(Awake') = Cardinality(Awake) + 1
      BY <2>1, CountsFinite, FS_AddElement
    <2>3. queue' = queue /\ Len(queue) \in Nat
      BY <1>1, LenProperties DEF CallGet, SpuriousWakeup
    <2> QED
      BY <1>0, <2>1, <2>2, <2>3, CountsFinite DEF NoLostWakeup
  <1>2. CASE LockGet(t) \/ TestPassed(t)
    <2>1. Awake' = Awake /\ Asleep' = Asleep /\ queue' = queue
      BY <1>2 DEF LockGet, Lock, TestPassed, Awake, Asleep
    <2> QED
      BY <1>0, <2>1 DEF NoLostWakeup
  <1>3. CASE Sleep(t)
    <2>1. queue' = <<>> /\ ~closed
      BY <1>3 DEF Sleep, MustSleep
    <2>2. Len(queue') = 0
      BY <2>1
    <2> QED
      BY <1>0, <2>1, <2>2, CountsFiniteNext DEF NoLostWakeup
  <1>4. CASE Pop(t)
    <2>1. Awake' = Awake \ {t} /\ t \in Awake /\ Asleep' = Asleep
      BY <1>4 DEF Pop, Awake, Asleep
    <2>2. Cardinality(Awake') = Cardinality(Awake) - 1
      BY <2>1, CountsFinite, FS_RemoveElement
    <2>3. CASE queue = <<>>
      <3>1. Len(queue') = 0
        BY <1>4, <2>3 DEF Pop
      <3> QED
        BY <1>0, <2>1, <3>1, CountsFiniteNext DEF NoLostWakeup
    <2>4. CASE queue # <<>>
      <3>1. Len(queue') = Len(queue) - 1 /\ Len(queue) \in Nat
        BY <1>4, <2>4, HeadTailProperties, LenProperties DEF Pop
      <3>2. CASE Asleep # {}
        <4>1. Len(queue) <= Cardinality(Awake) + Cardinality(Notifying)
          BY <3>2 DEF NoLostWakeup
        <4>2. Len(queue') <= Cardinality(Awake') + Cardinality(Notifying')
          BY <1>0, <2>2, <3>1, <4>1, CountsFinite
        <4> QED
          BY <1>0, <2>1, <4>2 DEF NoLostWakeup
      <3>3. CASE Asleep = {}
        BY <2>1, <3>3 DEF NoLostWakeup
      <3> QED
        BY <3>2, <3>3
    <2> QED
      BY <2>3, <2>4
  <1> QED
    BY <1>1, <1>2, <1>3, <1>4 DEF GetStep

\* No step of close loses a wake-up: it notifies under the mutex.
LEMMA WakeupClose ==
    ASSUME Inv, NoLostWakeup, NEW t \in Closers, CallClose(t) \/ CloseStep(t)
    PROVE  NoLostWakeup'
  <1> USE KindsDisjoint DEF Inv, TypeOK, Goto, Unlock, args, history
  <1>1. CASE CallClose(t) \/ LockClose(t) \/ SetClosed(t)
    <2>1. Awake' = Awake /\ Asleep' = Asleep /\ Notifying' = Notifying /\ queue' = queue
      BY <1>1 DEF CallClose, LockClose, Lock, SetClosed, Awake, Asleep, Notifying
    <2>2. closed' => closed \/ pc'[t] = "close_notify"
      BY <1>1 DEF CallClose, LockClose, Lock, SetClosed
    <2>3. \A c \in Closers : pc[c] = "close_notify" => pc'[c] = "close_notify"
      BY <1>1 DEF CallClose, LockClose, Lock, SetClosed
    <2> QED
      BY <2>1, <2>2, <2>3 DEF NoLostWakeup
  <1>2. CASE NotifyAll(t)
    <2>1. Asleep' = {}
      BY <1>2 DEF NotifyAll, Asleep
    <2> QED
      BY <2>1 DEF NoLostWakeup
  <1> QED
    BY <1>1, <1>2 DEF CloseStep

\* No wake-up is lost, although put notifies one getter only and any getter
\* may take the item: the invariant is inductive, counting the getters on
\* their way to the queue and the putter about to notify.
THEOREM WakeupCorrect == Spec => []NoLostWakeup
  <1>1. Init => NoLostWakeup
    BY KindsDisjoint DEF Init, NoLostWakeup, Asleep
  <1>2. NoLostWakeup /\ Inv /\ [Next]_vars => NoLostWakeup'
    <2> SUFFICES ASSUME NoLostWakeup, Inv, [Next]_vars PROVE NoLostWakeup'
      OBVIOUS
    <2>1. CASE Next
      BY <2>1, WakeupPut, WakeupGet, WakeupClose DEF Next
    <2>2. CASE UNCHANGED vars
      BY <2>2 DEF vars, NoLostWakeup, Awake, Asleep, Notifying
    <2> QED
      BY <2>1, <2>2
  <1> QED
    BY MutexCorrect, <1>1, <1>2, PTL DEF Spec
=============================================================================
