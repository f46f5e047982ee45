# Verification of SUPG

TLA+ models of SUPG, the Semtech UDP Packet Generator: a C++ program that
simulates LoRaWAN gateways and devices against a network server. TLC checks the
models on small instances, and TLAPS proves the theorems for every instance.
Paths such as `device.cpp:96` name files of the repository (`src/core`,
`include/supg`, `apps`).

## The system

| Component | State | Operations | Talks to |
| --- | --- | --- | --- |
| Channel (`channel.h`) | `_queue`, `_closed`, a mutex, a condition variable | `put`, `get`, `close`, `is_closed` | gateways put, a device gets, main closes |
| Gateway, downlink side (`gateway.cpp:80-151`) | `_stopped`, `_connected`, the pull socket, the map of its devices | threads `keep_alive` and `handle_downlink_frame` | server (UDP), channels |
| Gateway, uplink side (`gateway.cpp:48-78`) | `_push_mutex`, the push socket | `send_uplink_frame`, run by the threads of the devices | server (UDP) |
| Device (`device.cpp`) | `_stopped`, two frame counters, the vector of its gateways, its channel | threads `uplink_loop` and `downlink_loop` | its gateways, its channel |
| Simulator and main (`simulator.cpp:344-391`, `supg.cpp`) | `_stopped`, the two lists, futures of all threads | `init`, `run`, `stop`, signal handler, destructors | everything |
| Configuration (`simulator.cpp:57-342`, `config.h`) | `config` | `init` | creates gateways and devices |
| Frame codec (`payload.cpp`) | none | marshal, unmarshal, integrity codes, encryption | devices |
| Helpers (`helper.cpp`, `rxpk.cpp`) | none | Base64, hexadecimal, JSON text, `timeout_recvfrom` | everything |

How they interact. `main` builds the lists, launches two threads per gateway and
two per device with `std::async`, sleeps, raises every stop flag, closes the
channels, and joins the threads through their futures. A future's `get` rethrows
what its thread threw, and its destructor waits for its thread. SIGINT runs a
handler that leaves `main` by `longjmp` and calls `stop`.

What is hard, and what would make each part correct:

* **Channel.** Sleepers and notifications; the order of items; nothing accepted
  after the close; a close that releases every getter.
* **Gateway.** Two threads with periods of their own that must not make a living
  server look gone; a datagram that arrives while the gateway is being stopped; an
  acknowledgement that arrives after the four seconds one waits for it, in a
  socket shared by all devices of the gateway; two random bytes as a token.
* **Device.** Flags read before a step and used after it; several gateways
  locked in turn in an arbitrary order; a loop that must survive any datagram.
* **Simulator.** Stop cut short by an exception or by a second entry; a gateway
  owned by several devices and a list; threads that outlive the launch failure
  of another; a destructor that waits for a thread nobody told to end.
* **Configuration.** Counts that contradict each other; the topology drawn;
  identities and keys made by counting up in fixed widths.
* **Frame codec and Base64.** Lengths read from the frame itself; an integrity
  code computed over a frame that was taken apart and put together again; text
  that ends early.

`PROJECT.json` lists each of these hazards at its line, with the properties that
answer for it.

## The modules

| Module | Models | Built on |
| --- | --- | --- |
| `ClosableQueue` | what a channel promises: accept, take, close | |
| `Channel` | `channel.h` at the granularity of lock, test, effect, notify | refines `ClosableQueue` |
| `Gateway` | the threads of the gateways, the channels as atomic queues, the pull sockets | |
| `Device` | the threads of the devices, the push mutexes, frame outcomes and counters | `Gateway` |
| `Simulator` | `main`, `run`, `stop`, destruction, SIGINT; the whole next-state relation | `Device` |
| `Shutdown` | the properties of `Simulator` | `Simulator` |
| `Uplink` | the PUSH_DATA / PUSH_ACK exchanges of one gateway | |
| `Setup` | the counts and the topology that `init` makes | |
| `KeepAlive` | the two threads of one gateway again, with time and `_connected` | |
| `Base64` | `base64_encode`, `base64_decode` and a reference definition | |
| `Codec` | marshal and unmarshal of `payload.cpp`, as operators on sequences of bytes | |
| `Session` | one frame from the configuration file to the payload at the other end, both ways | `Base64`, `Codec` |
| `MCChannel`, `MCSimulator`, `MCUplink`, `MCSession` | instances for TLC | |
| `ChannelProofs`, `UplinkProofs`, `SetupProofs`, `KeepAliveProofs` | theorems about the module of that name | that module |
| `CodecProofs` | theorems about the operators of `Codec` and `Base64` | both |
| `SessionProofs` | theorems about `Session` | `Session`, `CodecProofs` |
| `ShutdownProofs` | theorems about the threads and their locks | `Shutdown` |
| `TeardownProofs` | theorems about the stop and the destructors | `ShutdownProofs` |

How state and actions correspond to the code:

* A thread is a program counter per thread (`pullPc`, `kaPc`, `upPc`, `downPc`,
  `mainPc`). `"none"` is a thread not launched (its future is not valid),
  `"ready"` and `"failed"` one that has ended, `"joined"` and `"rethrown"` one
  whose future has been taken.
* `Channel` takes the mutex, tests, acts and notifies in separate steps. Module
  `Gateway` uses the channel with one step per operation, which the refinement
  of `ClosableQueue` and the mutual exclusion theorem justify.
* A downlink frame is a record of what the code tells apart: its type bits,
  whether `phy_payload::unmarshal` returns, the device whose key signed it, and
  the server's counter of it. The integrity code verifies iff the key is the
  device's and the counter fits in the 16 bits that `fhdr::unmarshal` recovers.
* In `Gateway` sleeps and timeouts last any time. `_connected` only chooses
  between two durations, so `Gateway` leaves it out and `KeepAlive` is about it.
* `KeepAlive` has no clock: a sleep is what is left of it (`kaLeft`, `pullLeft`),
  an exchange its age (`flying`), and `Tick` changes them all. A sleep may end up
  to `Lag` ticks late; a tick waits for whoever has something to do. The
  downlink thread is the same as in `Gateway` without what a PULL_RESP does to
  the devices, which takes no time here.
* `Codec` keeps the bytes: a `phy_payload` is a record, `PhyMarshal` and
  `PhyUnmarshal` are the functions, and what throws is a predicate next to each
  (`PhyUnmarshalThrows`, `MacMarshalThrows`). A vector of `data_payload` is the
  concatenation of its elements. A base-64 character is its place in
  `base64_chars`; `Encoding` and `Decoding` are the loops, as functions of how many
  characters have been taken. `AddrLen` is the length of an address; `_class_b` shares the bit
  of `_f_pending` and is left out.
* In `Session` the ciphers are ideal: an integrity code matches when it was
  computed over the same key, direction, address, counter, length and bytes, and
  decryption gives back the payload when it starts from the same key, direction,
  address and counter. `Xor` is the exclusive or of two bytes, bit by bit. `Made` is
  what `init` makes of the settings for the k-th device, `UpSealed` the frame of
  `send_data` once encrypted. The server is external: it reads and writes frames by
  the LoRaWAN layout and knows the devices that the README of SUPG describes
  (consecutive addresses and keys).
* `hop` is the position of an uplink thread in `_gateways`, which may hold a
  gateway twice (`Setup` shows why); the map of a gateway holds a device once.
* `Simulator` destroys the gateway list first (it is declared last), then the
  devices in order; a gateway goes with its last user.
* SIGINT is delivered to the main thread, as Linux prefers for a signal sent to
  the process. Jumping out of the destructor is the exit code `"undefined"`.
* In `Uplink` the test of `_stopped` (`Check`) and the send are two steps, between which
  the flag may rise. Frames are numbered, `mine[u]` is the frame the local `packet` of
  a thread holds, and `buffer` is the receive buffer of the push socket.
* History variables (`accepted`, `delivered`, `txAcked`, `handled`, `lateGets`,
  `latePushes`, `report`) are written only, for the properties.

Definitions marked "Mutant" are faulty versions of the definition below them.
Each property is checked to fail on one of them.

## The runs

Every bound is a constant of the module that uses it. All runs are exhaustive.

| Run | Instance | Shows |
| --- | --- | --- |
| `channel` | 2 putters, 1 getter, 1 closer, 3 puts | `NoLostWakeup`, `NothingLostOrReordered`, `PushesOnOpen`, `EmptyHandedOnlyIfClosed`, `CloseReleasesGetters`, `ItemReachesGetter`, `ImplementsClosableQueue` |
| `stop` | 2 devices, 2 gateways in opposite order, 1 SIGINT, no datagram | `TypeOK`, `OnePushAfterStop`, `NoUseAfterDestroy`, `WaitsHoldingNothing` |
| `downlink` | 1 device, 1 gateway, 2 datagrams that may kill its downlink thread, 2 SIGINTs, any launch fails | `AbandonedOnlyAfter`, `OneGetAfterClose`, `PullFailsOnlyInStop`, `JoinedBeforeReturn`, `TerminatesUnlessAbandoned` |
| `handled` | 1 device, 1 gateway, 2 unconfirmed data frames, counters of 1 and 2 bits | `CounterOfAcceptedFrame`, `AckedFrameIsHandled` |
| `uplink` | 2 devices, 3 frames, 2 tokens, 1 repeated acknowledgement | `AckedWasReceived`, `FalseAckOnlyAfterLate`, `InvalidOnlyAfterLate`, `BacklogPaidByTimeouts` |
| `setup` | counts 0 to 3 or absent, at most 2 devices | `AttachedMatchesRoutes`, `TopologyReady`, `UndefinedOnlyByDefault` |
| `keep_alive` | sleeps of 6 and 6 + 6 ticks, receive 12, pause 4, round trips 6 to 7, lag 1, 1 stray datagram | `TypeOK`, `ConnectedOnceAnswered`, `SilenceNoticed`, `StopsInTime`, `StaysConnected` |
| `session` | 2 devices, addresses of 2 bytes, 37 configuration files, 37 downlink frames, 16 places to harm the text | `TypeOK`, `TextCarriesFrame`, `UplinkIsRead`, `HandledIsAuthentic`, `GenuineIsHandled` |

Runs whose property the code breaks; each is a statement of the README of SUPG
and a finding of `PROJECT.json`:

| Run | Property | What happens |
| --- | --- | --- |
| `graceful_race` | `GracefulStop` | a frame being handed out while the channels close: `put` throws and the exit code is a failure |
| `hang_after_throw` | `NoOrphanLeft` | a thread's exception (here a confirmed frame, whose type a signed `char` hides) cuts `stop` short, and the destructor waits for a device nobody stopped |
| `garbage` | `AckedFrameIsHandled` | the `break` in the catch block leaves the downlink loop |
| `session_keys` | `DocumentedUplinkIsRead` | two session keys with different upper halves: the server verifies the uplink and reads another payload |

More disagreements came up while modelling and have no run of their own:

* A SIGINT during `stop` has the effect of `hang_after_throw` (`AbandonedOnlyAfter`
  says that these two are the only ways to it).
* `init` keeps no record of the gateways it has drawn for a device
  (`simulator.cpp:309-320`): one may be drawn twice, and the device then has fewer
  distinct receivers than the `min_count` of README.md:57. `Setup` draws with
  repetition, and `Device` sends twice through such a gateway.
* `init` compares `max_count` with `min_count` only when the file has
  `max_count` (README.md:58), and draws from an empty range otherwise
  (`UndefinedOnlyByDefault` says that it is the only way to `pc = "undefined"`).
* The upper half of the application session key of every device is read from the
  network session key (`simulator.cpp:260`), as `session_keys` shows.
* The setting README.md:45 calls `first_address` is looked for as `first_addr` and
  must have 16 digits (`simulator.cpp:126`), so that a file written by the README
  starts at address 0.
* The keys of consecutive devices are counted up in their lower halves without a carry
  (`simulator.cpp:262`).
* The server's port and the FPort are narrowed to 16 and 8 bits, the first before
  its test and the second after (`simulator.cpp:78`, `simulator.cpp:301`): 67236 is the
  port 1700, and -1 passes as 65535.

The last four are what the antecedent `Faithful` of `UplinkIsRead` leaves out.
`DocumentedUplinkIsRead` asks for what README.md:98-112 promises
instead: the name, the halves and the carry each break it alone. Its run takes
the halves; the port and the FPort it asks to be in range.

* `fhdr::marshal` narrows the number of frame options to a byte before it tests
  it (`payload.cpp:109`): 256 would pass. Nothing in the program sets options.
* A received frame is marshalled again for its integrity code. Reserved header
  bits, a counter past 16 bits, and (through a signed `char`) a confirmed frame
  do not survive that, and options beside a port of zero make marshal throw
  (`GenuineIsHandled` lists these as the only exceptions; `RemarshalExact` and
  `RemarshalThrows` prove it for the part after the MAC header).
* `operator<` of the identifiers is no ordering (`payload.cpp:35`). Theorem
  `EuiNotMerged` shows why it does not matter: no two different identifiers count
  as equivalent, so that a map keeps both, and the program never searches one.

Why the bounds are enough. Two threads of a kind are what a lost notification, a
lock cycle or a late send needs; a channel has one getter in the program (the
theorems hold for any number). Two datagrams put one frame
behind another in a channel at the close. The first SIGINT meets every line
of `main`, the second calls `exit` and does nothing else. Counters of one and two
bits wrap within the frames sent. Three frames make one exchange leave an
acknowledgement, one read it and one be displaced. The others use `W32 = 1`:
there the uplink counter is not observed, and keeping it constant keeps the
instance finite, so they say nothing of its wrap. `MaxDevices` of `Setup` is below `Limit`, so that a
file asks for too many devices. `W16` and `W32` stand for 2^16 and 2^32. Larger instances
are left to the theorems.

`KeepAlive` is scaled. In the program the sleeps add up to 1 s + 15 s, exactly the
16 s of the receive, so a late sleep and a slower answer have the 50 ms of the
pause between them and a disconnection; here they add up to the receive as well,
and the pause makes the difference: `SteadyNetwork` holds because the longest round
and the variation of the round trip (14 + 1 ticks) are less than a receive and a
pause (16). It is tight: with a pause of 3 it is false, and a connected gateway may
drop out although every PULL_DATA is answered. `SilenceNoticed` asks for an
`Unhurried` network, whose round trip varies by so much less than the short sleep that one
acknowledgement is dealt with before the next arrives (1 + 4 + 1 ticks against 6 here,
the pause of 50 ms against 1 s in the program). Without that its bound does not hold: with
a short sleep of 1 and round trips from 0 to 6, acknowledgements pile up in the socket and
put off the timeout. The round trip is as long as the short sleep, so that an answer may
come before or after `_connected` is tested and two exchanges may be on
their way. `AnswerBound`, `SilenceBound` and `StopBound` are reached or missed by a
tick or two. The history counters stop one past their bounds, so `keep_alive` explores
simulations of any length.

In `Session` every setting has a value below, at and past its width; the keys have
two digits to the base 4, so that the lower half of a key wraps with the second device; downlinks
cover all eight types, every combination of empty and nonempty options, port
and payload, 15 options, reserved bits and a counter that needs 17 bits; the
text is cut or garbled at all three places of a group of four characters, in
the padding, and at 0. Decoding is 3-periodic in bytes, and the frames have lengths
of all residues. A real accumulator has 32 bits and a bounded one 16,
which it never needs at a time.

Symmetry is used only in the run of `Uplink`. Deadlock is checked in the run of
`Channel`. The other modules stop by design (the process exits
with a stuttering `Exited`, `init` ends, an exchange budget is spent); termination
is a property there.

### Fairness

* `Channel`: weak fairness of each thread inside an operation. A thread runnable
  for ever is scheduled, and the holder of the mutex always gets to release it.
  Nobody has to call an operation, and no fairness among waiters is assumed.
* `Simulator`: weak fairness of main's own steps and of each thread, since the
  operating system runs what can run and every sleep and receive has a timeout.
  Weak fairness is enough for the push mutex in the runs used: their fair
  instances have one device per gateway. No fairness for the server, the
  signals or launch failures.
* `LongSpec` does not force the duration to expire: it is for what must happen
  during a long simulation (`AckedFrameIsHandled`). `FairSpec` adds the expiry:
  `sleep_for` returns.

## The proofs

The theorems hold for every value of the constants allowed by the named assumptions:

* `ThreadAssumption` (`Channel`): putters, getters and closers are different threads.
* `TopologyAssumption` (`Gateway`): every device has a nonempty route of existing gateways,
  as `TopologyCorrect` shows of what `init` leaves.
* `FrameAssumption` (`Device`): frames are records of the types above; the counter on
  the air is no wider than the counter of a device.
* `EnvironmentAssumption` (`Simulator`): at most two SIGINTs, since the second ends the process.
* `UplinkAssumption`, `SetupAssumption`, `TimingAssumption`, `CodecAssumption`: there is
  a token, a frame, a count and room for a device; durations are naturals, the short sleep is not zero, the
  pause is no longer than the receive; an address has a length.
* `ValAssumption` (`Base64`): the accumulator has at least the 16 bits it needs at a time.
* `SessionAssumption` (`Session`): files and downlinks are records of the types above, of
  which only the latter's payload asks for a port; the payload of the file is not empty, which
  `init` tests; there are no more devices than halves of a key; a counter on the air
  has 16 bits at most.

`ChannelProofs`:

* `TypeCorrect`: `TypeOK` is inductive, one step per action.
* `MutexCorrect`: the inductive invariant `TypeOK /\ MutexHeld /\ PushesOnOpen`.
  The last conjunct is the reason for the others: a putter past its test is
  inside the mutex, so no closer can set `_closed` (`PushCorrect`).
* `EmptyHandedCorrect`: `TestHolds` adds to this what a getter knows past its test, that there
  is an item or the channel is closed. Nobody else can take the item, as it has the mutex.
* `OrderCorrect`: from `StepKinds` (every step pushes, pops, closes or is not
  observed) and two lemmas on sequences.
* `Refinement`: the same four kinds of step map to `Accept`, `Take`, `Close` and
  stuttering; `taken` is the length of `delivered`. `OrderCorrect` gives that
  there is something to take.
* `WakeupCorrect`: `NoLostWakeup` counts, so its proof uses the cardinality
  facts: a putter that pushes enters `Notifying`, a notified getter moves from
  `Asleep` to `Awake`, and a getter that leaves `Awake` takes an item with it or
  found none.

`ShutdownProofs`:

* `TypeCorrect`: split into gateways, devices and main. It includes that `hop`
  stays in the route, and that the counter arithmetic stays below `W32`.
* `UplinkCorrect`: the invariant of the uplink side has three parts.
  `LaunchedOnce` (main launches the threads of device `d` when its loop is at
  `d`, so it never overwrites one that is inside a gateway), `PushMutex`, and
  `LatePushes` (while a thread is past the check of the flag nobody has sent
  since the flag rose). The mutex alone is not inductive: without
  `LaunchedOnce` main could reset a thread that holds it.
* `OnePushCorrect`, `NoLockCycle`: consequences.
* `OneGetCorrect`: with the strengthening that a device past its check of
  `is_closed` has got nothing since the close.
* `PullFailsCorrect`: with the strengthening that a channel is closed only after
  `simulator::_stopped` was set, and the places of main inside `stop` imply it.

`TeardownProofs`, about the same specification as `ShutdownProofs`:

* `TeardownCorrect`: `TeardownInv` says what the destructor has waited for when it has come
  to the n-th device (`QuietBefore`), and that nobody who could enter a destroyed gateway
  is left (`GoneQuiet`). Both last because no thread is launched any more
  (`NoneStarted`), which is why the lemmas about the threads come first.
* `JoinedCorrect`: `QuietBefore` past the last device. `DestroyCorrect`:
  `NoUseAfterDestroy` also asks that the mutex of a destroyed gateway is free, which
  takes `PushMutex` of `UplinkCorrect`: its holder would be a running thread.
* `StopCorrect`: `AbandonedOnlyAfter` speaks of the destructor alone, so `StopInv` carries
  what `stop` has told so far for every place in it (`Told`), as long as nothing cut it
  short (`Uncut`). It needs `StopPlace` and `Unlaunched` for the ways to the destructor
  that avoid `stop`: only a failure in `init`, before there is a thread.
  `AbandonedCorrect` is `Told` past the last place.
* `CounterCorrect`: by the step that handles a frame, with `W16 <= W32`.

`UplinkProofs`, for any number of devices, frames, tokens and repetitions:

* `ExchangeCorrect`: `OneExchange`, what `_push_mutex` gives: the frame a thread waits for
  is the last one sent, and no other is open. The other proofs rest on it, since
  `send_uplink_frame` compares what it reads with its own packet only.
* `AckedCorrect`: from the types, where every acknowledgement is of a frame received.
* `BacklogCorrect`: `BacklogPaidByTimeouts` is inductive beside `OneExchange` and with the
  finiteness of what is counted (`Backlog`): a verdict moves the open frame to another
  set exactly when its reader takes a datagram or gives up.
* `OnlyLastCorrect`: while nothing timed out and nothing was repeated, everything in the
  socket or on its way belongs to the last exchange. It needs `Backlog` at a new
  send: then nothing is paid for, so nothing is left. `InvalidCorrect` follows, as
  the thread reads an answer to its own frame. So does `FalseAckCorrect`: an
  acknowledgement read before any accident is of the reader's frame, which was then received.

`SetupProofs`, for all counts and all draws:

* `SetupCorrect`: `CountsRead` (past the tests the counts are positive) and `ListsGrow`
  (which list has which length at which place of `init`). `AttachedMatchesRoutes` needs
  them to say which gateways and devices there are; `TopologyCorrect` adds
  that a vector has between the least and the largest count of elements.
* `UndefinedCorrect`: `DefaultAlone` carries what each test has shown of the counts to the
  places behind it (`Tested`): only a default may be below the smallest count.

`KeepAliveProofs`, for all durations:

* `TypeCorrect`: the types need two facts `TypeOK` leaves out, that a thread in
  one of its sleeps has no more left of it than what it was set to.
* `StopCorrect`: `StopInv` says that the ticks since the flag rose plus what is
  left until a thread's loop never exceed its bound. `StopsInTime` alone says
  nothing of a thread that sleeps, so it is not inductive.
* `StaysConnectedCorrect`: a step can disconnect only by a timeout with an empty
  socket. `AnswerInTime` excludes that: a datagram waits, or an answer
  on its way comes before the earliest timeout, or the next PULL_DATA leaves soon enough for its
  answer to. For the moment an answer is used up, `RoundInv` is
  needed: the next PULL_DATA leaves within one round of the last, less
  the age of the answer that is consumed. `SteadyNetwork` turns one into the other.
* `ConnectedCorrect`: `RecoverInv` follows the first answered PULL_DATA after a loss, each
  stage with the time it may have taken: not yet sent, under way, waiting in the socket behind
  others, taken. Then `AnswerInTime` above holds it (`Held`). A further
  invariant, `FewStrays`, bounds what waits ahead of it.
* `SilenceCorrect`: `SilenceInv` adds up the silence so far and what is left until the
  timeout, which needs a bound on the socket. `Room` gives that bound: with one
  acknowledgement beyond the strays the next comes no sooner than the thread takes a
  datagram, with two it takes one now. It rests on `Spacing`: a short sleep lies
  between any two PULL_DATA. It is here that the attempted proof showed the need
  for `Unhurried`, and TLC the counterexample without it.

`CodecProofs`, from `CodecAssumption` and `ValAssumption`, for addresses, frames and texts
of any length and without an invariant (the operators are pure):

* `RemarshalExact`: what `mac_payload::unmarshal` accepts, marshal gives back byte
  by byte; `RemarshalThrows` characterises when marshal throws instead.
* `MarshalRoundTrip`: the other direction; of the counter the lower 16 bits remain.
* `EuiNotMerged`: see above.

* `EncodeIsBase64`: the accumulator of `base64_encode` makes what `Base64Of`
  defines bit by bit. `EncodingSteps` unfolds the loop; three bytes and four
  characters later the accumulator ends in the same bits again (`EncodeThrees`), although
  its upper part has overflowed.
* `DecodeIsPrefix`: of a text that goes on from a prefix of a Base64 with its end or anything
  from `Pad` up, `base64_decode` makes the bytes complete in that prefix;
  `DecodeIsInverse`: of all of it, the bytes encoded.

The first rest on arithmetic of the flag byte (`FlagsSurvive`, `FlagsComplete`) and on
lemmas that say where the parts of a concatenation are (`FiveParts`). The last are
inductions over places. The induction theorem of the library has an operator for a
parameter, so `Induction` is stated for a set of naturals and follows from the
well-foundedness of `<`. Recursive functions are unfolded likewise: one that satisfies
the equation exists up to every length.

`SessionProofs`, from `SessionAssumption` and those above, for every file, payload, downlink,
number of devices, length of an address and width of a key:

* `Inv` says what is on the air at each place of a behaviour, as a function of what
  `init` made of the file (`DeviceInv`, `UpInv`) or of what the server wrote (`DownInv`,
  whose `Carrying` is the text, harmed or not). The properties are about the result
  only, so none of them says enough of the frame before it is read.
* `TypeCorrect`, and `FrameCarried` by `DecodeIsPrefix`.
* `UplinkRead`: the server finds each part of the frame at its place (`UpFrame`), so the result
  depends on the port, the address and the two keys alone (`ServerReadsIs`), and for each of
  them a lemma says which files keep it: `PortFits`, `AddressAgrees` (an address
  that fits is told by its bytes, `SameAddress`), `NetworkKeyAgrees`, `SessionKeyAgrees`.
  They give more than the property: lemma `ReadAlways` shows that the server reads the payload of
  no other file (`ReadExactly`), so `Faithful` leaves out nothing that would work.
* `HandledAuthentic`: the code matches only if it was computed over what the device
  has marshalled again, which by `RemarshalExact` is as long as what it received. A
  text that is harmed gives less (`WholeByLength`), so the frame came whole. Its key
  tells the device, as the lower halves of keys are all different (`KeysDiffer`).
  `CipherTwice` says that a payload comes back with its own key stream and no other.
* `GenuineHandled`: conversely nothing throws (`BodyRead`) and header, counter and code
  come back (`HeaderRead`, `FrameRead`).

The last three need no further invariant: each holds before the step that makes a result, and
at that step follows from `Inv`.

Only model-checked: the liveness properties (`CloseReleasesGetters`,
`ItemReachesGetter`, `TerminatesUnlessAbandoned`, `AckedFrameIsHandled`), since fairness
is out of the prover's reach. Every safety and action property of a passing run is
a theorem.

## Not modelled, and why

* The lengths of datagrams, and so the terminator written past the end of the
  buffer for one of 1024 bytes (`gateway.cpp:106`): its effect is undefined.
* `_stopped` as a data race: each read gets the current value. The loops call into
  the C library between two reads, so the build reads it from memory.
* A SIGINT while main is inside a library call that holds a lock.
* The ciphers themselves (AES, CMAC), which are in a library, and the LoRaWAN 1.1
  branches of `payload.cpp`, `set_downlink_data_mic` and join frames, which nothing
  calls.
* The `rxpk` document (`rxpk.cpp`, `generate_push_data_packet`): JSON text of constant
  fields and random numbers. The server of `Session` gets its `data` member.
* The settings only tested for their sign and copied (frequency, data rate,
  intervals, log level); generation of a configuration file; command-line options
  and logging; reading hexadecimal text, beyond what becomes of a number too large.

## Plan

Done, in this order: `Channel` and its abstract queue, `Gateway`, `Device`,
`Simulator`, `Uplink`, `Setup`, their first two proof modules, then `KeepAlive`, `Base64`,
`Codec`, `Session`, the proofs about `KeepAlive` and `Codec`, and those about `Setup`,
`Uplink`, the teardown, recovery and silence in `KeepAlive`, Base64, and `Session`.

Next, by importance:

1. That the push actions of `Device` at one gateway implement those of `Uplink`, which now
   have the same steps.
2. Stale reads of `_stopped` as a choice, and which properties survive them.
