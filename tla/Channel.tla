------------------------------ MODULE Channel ------------------------------
(***************************************************************************)
(* supg::channel<T> (include/supg/util/channel.h): an unbounded queue      *)
(* guarded by one mutex and one condition variable.  Each operation takes  *)
(* the mutex for its whole body; the model keeps the acquisition, the test *)
(* and the effect of an operation as separate steps, so that a thread that *)
(* forgot the mutex, or a notification sent to nobody, can go wrong.       *)
(*                                                                         *)
(* In the simulator the putters are the downlink threads of the gateways,  *)
(* the getter is the downlink thread of one device, and the closer is the  *)
(* main thread in device::stop.  is_closed only reads: module Device asks  *)
(* it.                                                                     *)
(***************************************************************************)
EXTENDS Naturals, Sequences, FiniteSets

CONSTANTS
    Putters,    \* threads that call put
    Getters,    \* threads that call get
    Closers,    \* threads that call close
    Items,      \* what is put in the channel
    NoThread,   \* the mutex is free
    MaxPuts     \* bound: how many calls of put the model makes

Threads == Putters \union Getters \union Closers

ASSUME ThreadAssumption ==
    /\ IsFiniteSet(Putters) /\ IsFiniteSet(Getters)
    /\ Putters \intersect Getters = {}
    /\ Putters \intersect Closers = {}
    /\ Getters \intersect Closers = {}
    /\ NoThread \notin Threads
    /\ MaxPuts \in Nat

VARIABLES
    queue,      \* _queue
    closed,     \* _closed
    mutex,      \* the thread that holds _mutex, or NoThread
    pc,         \* where each thread is
    willWait,   \* the "wait" argument of the get each getter is in
    putItem,    \* the item of the put each putter is in
    puts,       \* number of calls of put so far (bound)
    accepted,   \* history: every item pushed, in order
    delivered   \* history: every item popped, in order

vars == <<queue, closed, mutex, pc, willWait, putItem, puts, accepted, delivered>>

PutPcs   == {"put_lock", "put_test", "put_push", "put_notify"}
GetPcs   == {"get_lock", "get_test", "get_pop", "sleep"}
ClosePcs == {"close_lock", "close_set", "close_notify"}

\* Where a thread holds the mutex.
Critical == {"put_test", "put_push", "put_notify", "get_test", "get_pop",
             "close_set", "close_notify"}

\* A getter inside get that is not asleep will look at the queue again.
Awake == {g \in Getters : pc[g] \in {"get_lock", "get_test", "get_pop"}}
Asleep == {g \in Getters : pc[g] = "sleep"}

Init ==
    /\ queue = <<>>
    /\ closed = FALSE
    /\ mutex = NoThread
    /\ pc = [t \in Threads |-> "idle"]
    /\ willWait = [g \in Getters |-> TRUE]
    /\ putItem \in [Putters -> Items]
    /\ puts = 0
    /\ accepted = <<>>
    /\ delivered = <<>>

history == <<accepted, delivered>>
args    == <<willWait, putItem, puts>>

Goto(t, label) == pc' = [pc EXCEPT ![t] = label]

\* std::unique_lock's constructor: the caller blocks while another holds it.
Lock(t, from, to) ==
    /\ pc[t] = from
    /\ mutex = NoThread
    /\ mutex' = t
    /\ Goto(t, to)
    /\ UNCHANGED <<queue, closed, args, history>>

Unlock == mutex' = NoThread
-----------------------------------------------------------------------------
\* put(item)

CallPut(t) ==
    /\ pc[t] = "idle"
    /\ puts < MaxPuts
    /\ puts' = puts + 1
    /\ \E item \in Items : putItem' = [putItem EXCEPT ![t] = item]
    /\ Goto(t, "put_lock")
    /\ UNCHANGED <<queue, closed, mutex, willWait, history>>

LockPut(t) == Lock(t, "put_lock", "put_test")

\* The exception leaves put and releases the mutex; the thread that called
\* put does not survive it (gateway::handle_downlink_frame has no handler).
PutThrows(t) ==
    /\ pc[t] = "put_test"
    /\ closed
    /\ Unlock
    /\ Goto(t, "threw")
    /\ UNCHANGED <<queue, closed, args, history>>

\* Mutant: put does not ask whether the channel is closed.
PutAllowedAlways(t) ==
    /\ pc[t] = "put_test"
    /\ Goto(t, "put_push")
    /\ UNCHANGED <<queue, closed, mutex, args, history>>

PutAllowed(t) ==
    /\ pc[t] = "put_test"
    /\ ~closed
    /\ Goto(t, "put_push")
    /\ UNCHANGED <<queue, closed, mutex, args, history>>

\* Mutant: the item is pushed at the front.
PushFront(t) ==
    /\ pc[t] = "put_push"
    /\ queue' = <<putItem[t]>> \o queue
    /\ accepted' = Append(accepted, putItem[t])
    /\ Goto(t, "put_notify")
    /\ UNCHANGED <<closed, mutex, args, delivered>>

Push(t) ==
    /\ pc[t] = "put_push"
    /\ queue' = Append(queue, putItem[t])
    /\ accepted' = Append(accepted, putItem[t])
    /\ Goto(t, "put_notify")
    /\ UNCHANGED <<closed, mutex, args, delivered>>

\* Mutant: put notifies nobody.
NotifyNobody(t) ==
    /\ pc[t] = "put_notify"
    /\ Goto(t, "idle")
    /\ Unlock
    /\ UNCHANGED <<queue, closed, args, history>>

\* notify_one wakes one sleeper, any of them, or nobody if nobody sleeps.
NotifyOne(t) ==
    /\ pc[t] = "put_notify"
    /\ IF Asleep = {}
       THEN Goto(t, "idle")
       ELSE \E g \in Asleep : pc' = [pc EXCEPT ![t] = "idle", ![g] = "get_lock"]
    /\ Unlock
    /\ UNCHANGED <<queue, closed, args, history>>
-----------------------------------------------------------------------------
\* get(item, wait)

CallGet(t) ==
    /\ pc[t] = "idle"
    /\ \E wait \in BOOLEAN : willWait' = [willWait EXCEPT ![t] = wait]
    /\ Goto(t, "get_lock")
    /\ UNCHANGED <<queue, closed, mutex, putItem, puts, history>>

LockGet(t) == Lock(t, "get_lock", "get_test")

MustSleep(t) == willWait[t] /\ ~closed /\ queue = <<>>

\* condition_variable::wait releases the mutex and sleeps in one step.
Sleep(t) ==
    /\ pc[t] = "get_test"
    /\ MustSleep(t)
    /\ Unlock
    /\ Goto(t, "sleep")
    /\ UNCHANGED <<queue, closed, args, history>>

\* Mutant: wait has no predicate, so that a wake-up is taken for an item.
WakeupUntested(t) ==
    /\ pc[t] = "sleep"
    /\ mutex = NoThread
    /\ mutex' = t
    /\ Goto(t, "get_pop")
    /\ UNCHANGED <<queue, closed, args, history>>

\* wait(lock, predicate) tests its predicate again after any wake-up.
SpuriousWakeup(t) ==
    /\ pc[t] = "sleep"
    /\ Goto(t, "get_lock")
    /\ UNCHANGED <<queue, closed, mutex, args, history>>

TestPassed(t) ==
    /\ pc[t] = "get_test"
    /\ ~MustSleep(t)
    /\ Goto(t, "get_pop")
    /\ UNCHANGED <<queue, closed, mutex, args, history>>

\* Returns false on an empty queue, else the front item and true.
Pop(t) ==
    /\ pc[t] = "get_pop"
    /\ IF queue = <<>>
       THEN UNCHANGED <<queue, delivered>>
       ELSE /\ queue' = Tail(queue)
            /\ delivered' = Append(delivered, Head(queue))
    /\ Unlock
    /\ Goto(t, "idle")
    /\ UNCHANGED <<closed, args, accepted>>
-----------------------------------------------------------------------------
\* close()

CallClose(t) ==
    /\ pc[t] = "idle"
    /\ ~closed
    /\ Goto(t, "close_lock")
    /\ UNCHANGED <<queue, closed, mutex, args, history>>

\* Mutant: close does not take the mutex.
LockCloseFree(t) ==
    /\ pc[t] = "close_lock"
    /\ Goto(t, "close_set")
    /\ UNCHANGED <<queue, closed, mutex, args, history>>

LockClose(t) == Lock(t, "close_lock", "close_set")

SetClosed(t) ==
    /\ pc[t] = "close_set"
    /\ closed' = TRUE
    /\ Goto(t, "close_notify")
    /\ UNCHANGED <<queue, mutex, args, history>>

\* Mutant: close notifies nobody.
CloseNotifiesNobody(t) ==
    /\ pc[t] = "close_notify"
    /\ Goto(t, "idle")
    /\ Unlock
    /\ UNCHANGED <<queue, closed, args, history>>

NotifyAll(t) ==
    /\ pc[t] = "close_notify"
    /\ pc' = [u \in Threads |-> IF u = t THEN "idle"
                                ELSE IF u \in Asleep THEN "get_lock"
                                ELSE pc[u]]
    /\ Unlock
    /\ UNCHANGED <<queue, closed, args, history>>
-----------------------------------------------------------------------------
PutStep(t) ==
    LockPut(t) \/ PutThrows(t) \/ PutAllowed(t) \/ Push(t) \/ NotifyOne(t)
GetStep(t) == LockGet(t) \/ Sleep(t) \/ TestPassed(t) \/ Pop(t)
CloseStep(t) == LockClose(t) \/ SetClosed(t) \/ NotifyAll(t)

Next ==
    \/ \E t \in Putters : CallPut(t) \/ PutStep(t)
    \/ \E t \in Getters : CallGet(t) \/ SpuriousWakeup(t) \/ GetStep(t)
    \/ \E t \in Closers : CallClose(t) \/ CloseStep(t)

\* A thread inside an operation keeps running; nobody has to call one.
Fairness ==
    /\ \A t \in Putters : WF_vars(PutStep(t))
    /\ \A t \in Getters : WF_vars(GetStep(t))
    /\ \A t \in Closers : WF_vars(CloseStep(t))

Spec == Init /\ [][Next]_vars
FairSpec == Spec /\ Fairness
-----------------------------------------------------------------------------
\* The type invariant.
TypeOK ==
    /\ queue \in Seq(Items)
    /\ closed \in BOOLEAN
    /\ mutex \in Threads \union {NoThread}
    /\ pc \in [Threads -> {"idle", "threw"} \union PutPcs \union GetPcs \union ClosePcs]
    /\ \A t \in Putters : pc[t] \in {"idle", "threw"} \union PutPcs
    /\ \A t \in Getters : pc[t] \in {"idle"} \union GetPcs
    /\ \A t \in Closers : pc[t] \in {"idle"} \union ClosePcs
    /\ willWait \in [Getters -> BOOLEAN]
    /\ putItem \in [Putters -> Items]
    /\ puts \in Nat
    /\ accepted \in Seq(Items)
    /\ delivered \in Seq(Items)

\* A putter that has passed the test of closed pushes on an open channel,
\* however long it takes to push (channel.h:28-35).
PushesOnOpen == \A t \in Putters : pc[t] = "put_push" => ~closed

\* The mutex is held by exactly the thread that is inside a body.
MutexHeld == \A t \in Threads : pc[t] \in Critical <=> mutex = t

Notifying == {t \in Putters : pc[t] = "put_notify"}

\* No wake-up is lost.  A getter asleep on a closed channel is about to be
\* woken by the closer that still holds the mutex, and a getter asleep while
\* the queue holds items leaves at least as many threads on their way to the
\* queue as it holds items: the ones notify_one woke, or the putter about to
\* notify.  (channel.h: notify_one in put, notify_all in close, and the
\* predicate given to wait.)
NoLostWakeup ==
    Asleep # {} =>
        /\ closed => \E t \in Closers : pc[t] = "close_notify"
        /\ Len(queue) <= Cardinality(Awake) + Cardinality(Notifying)

\* Channel implements ClosableQueue: whatever the threads do, items come out
\* once, in order, and none is accepted after the close.
Queue == INSTANCE ClosableQueue WITH taken <- Len(delivered)
ImplementsClosableQueue == Queue!Spec

\* A getter that waits comes back without an item only from a closed channel,
\* however often it is woken for nothing and whoever takes the items in
\* between (channel.h:37-47).  device::downlink_loop goes round at once when
\* it gets nothing, and trusts that it then finds the channel closed
\* (device.cpp:93-96).
EmptyHandedOnlyIfClosed ==
    [][\A g \in Getters :
          (pc[g] # "idle" /\ pc'[g] = "idle" /\ willWait[g] /\ UNCHANGED delivered)
              => closed]_vars

\* What is queued is what was accepted and not yet delivered, in order.
NothingLostOrReordered == accepted = delivered \o queue

\* device::stop relies on this to end the downlink thread: a getter inside
\* get, asleep or not, comes back once the channel has been closed.
CloseReleasesGetters ==
    \A g \in Getters : (closed /\ pc[g] \in GetPcs) ~> pc[g] = "idle"

\* device::downlink_loop relies on this: an accepted item is handed over as
\* long as a getter is inside get.
ItemReachesGetter ==
    \A g \in Getters : (queue # <<>> /\ pc[g] \in GetPcs) ~> pc[g] = "idle"
=============================================================================
