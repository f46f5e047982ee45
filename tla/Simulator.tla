----------------------------- MODULE Simulator -----------------------------
(***************************************************************************)
(* The life of the program: main (apps/supg.cpp) and simulator::run and    *)
(* stop (src/core/simulator.cpp) on the main thread, around the threads of *)
(* modules Gateway and Device.  Main launches every thread, sleeps for the *)
(* configured duration, raises the stop flags, closes the channels and     *)
(* joins the threads; then the simulator is destroyed.  SIGINT interrupts  *)
(* main wherever it is, and longjmp restarts it at its call of stop.       *)
(*                                                                         *)
(* A future from std::async rethrows its thread's exception in get() and   *)
(* waits for its thread when it is destroyed.                              *)
(***************************************************************************)
EXTENDS Device

CONSTANTS
    MaxSigint,      \* bound: how often the user presses Ctrl-C, 0..2
    LaunchMayFail   \* can init, socket() or the launch of a thread fail?

ASSUME EnvironmentAssumption ==
    /\ MaxSigint \in 0..2
    /\ LaunchMayFail \in BOOLEAN

VARIABLES
    mainPc,       \* where the main thread is
    idx,          \* the gateway or device its loop is at
    caller,       \* who called stop: "run", the "catch" block, or "signal"
    built,        \* has init filled the lists?
    simStopped,   \* simulator::_stopped
    sigint,       \* "none", or the first SIGINT came before ("early") or
                  \*   after ("late") stop raised simulator::_stopped
    exitCode,     \* how the process ends
    gwGone        \* gateways destroyed

mainVars == <<mainPc, idx, caller, built, simStopped, sigint, exitCode, gwGone>>
vars == <<gatewayVars, deviceVars, mainVars>>

Destroying == {"destroy_gw", "destroy_dev"}
StopPcs == {"flag_dev", "flag_gw", "close", "join_up", "join_down", "join_pull", "join_ka"}
MainPcs == {"init", "open", "launch_ka", "launch_pull", "launch_up", "launch_down", "sleep",
            "stop", "return", "exited"} \union StopPcs \union Destroying

\* A thread that still runs: launched and not finished.
Running(threadPc) == threadPc \notin Finished

Init ==
    /\ GatewayInit
    /\ DeviceInit
    /\ mainPc = "init"
    /\ idx = 1
    /\ caller = "run"
    /\ built = FALSE
    /\ simStopped = FALSE
    /\ sigint = "none"
    /\ exitCode = "none"
    /\ gwGone = {}

\* Main goes to a label, its loop counter starting over or moving on.
Goto(label) == mainPc' = label /\ idx' = 1
Continue(label) == mainPc' = label /\ UNCHANGED idx
Loop(label, n, done) ==
    IF idx < n THEN mainPc' = label /\ idx' = idx + 1 ELSE Goto(done)

Exit(code) == Goto("exited") /\ exitCode' = code

\* Mutant: the catch block does not call stop.
ThrowPastStop ==
    IF caller = "run"
    THEN Goto("return") /\ caller' = "catch" /\ UNCHANGED exitCode
    ELSE Exit("abort") /\ UNCHANGED caller

\* An exception reaches main: thrown by run, it is caught and stop is called
\* again; thrown by a stop called outside the try block, it ends the program.
Throw ==
    IF caller = "run"
    THEN Goto("stop") /\ caller' = "catch" /\ UNCHANGED exitCode
    ELSE Exit("abort") /\ UNCHANGED caller

unthreaded == <<gatewayVars, deviceVars>>
-----------------------------------------------------------------------------
\* init and run

\* init fills the lists in one step here: a SIGINT between two devices finds
\* no thread to stop, whatever the lists hold by then.
InitSucceeds ==
    /\ mainPc = "init"
    /\ Goto("open")
    /\ built' = TRUE
    /\ UNCHANGED <<unthreaded, caller, simStopped, sigint, exitCode, gwGone>>

\* A bad configuration throws before the lists are filled.
InitThrows ==
    /\ mainPc = "init"
    /\ LaunchMayFail
    /\ Throw
    /\ UNCHANGED <<unthreaded, built, simStopped, sigint, gwGone>>

\* gateway::run: two sockets, then two threads.
OpenSockets ==
    /\ mainPc = "open"
    /\ Continue("launch_ka")
    /\ UNCHANGED <<unthreaded, caller, built, simStopped, sigint, exitCode, gwGone>>

\* Without a socket the process exits, whatever threads already run.
SocketFails ==
    /\ mainPc = "open"
    /\ LaunchMayFail
    /\ Exit("exit_failure")
    /\ UNCHANGED <<unthreaded, caller, built, simStopped, sigint, gwGone>>

LaunchKeepAlive ==
    /\ mainPc = "launch_ka"
    /\ kaPc' = [kaPc EXCEPT ![idx] = "loop"]
    /\ Continue("launch_pull")
    /\ UNCHANGED <<gwStopped, pullVars, netVars, pushOwner, chanVars, deviceVars>>
    /\ UNCHANGED <<caller, built, simStopped, sigint, exitCode, gwGone>>

LaunchPull ==
    /\ mainPc = "launch_pull"
    /\ pullPc' = [pullPc EXCEPT ![idx] = "check"]
    /\ Loop("open", NGw, "launch_up")
    /\ UNCHANGED <<gwStopped, kaPc, pulled, todo, txAcked, netVars, pushOwner, chanVars, deviceVars>>
    /\ UNCHANGED <<caller, built, simStopped, sigint, exitCode, gwGone>>

\* device::run: two threads.
LaunchUplink ==
    /\ mainPc = "launch_up"
    /\ upPc' = [upPc EXCEPT ![idx] = "sleep"]
    /\ Continue("launch_down")
    /\ UNCHANGED <<gatewayVars, devStopped, hop, fCntUp, latePushes, downVars>>
    /\ UNCHANGED <<caller, built, simStopped, sigint, exitCode, gwGone>>

LaunchDownlink ==
    /\ mainPc = "launch_down"
    /\ downPc' = [downPc EXCEPT ![idx] = "check"]
    /\ Loop("launch_up", NDev, "sleep")
    /\ UNCHANGED <<gatewayVars, devStopped, upVars, fCntDown, handled, lateGets>>
    /\ UNCHANGED <<caller, built, simStopped, sigint, exitCode, gwGone>>

\* std::async throws when no thread can be created.
LaunchThrows ==
    /\ mainPc \in {"launch_ka", "launch_pull", "launch_up", "launch_down"}
    /\ LaunchMayFail
    /\ Throw
    /\ UNCHANGED <<unthreaded, built, simStopped, sigint, gwGone>>

DurationExpires ==
    /\ mainPc = "sleep"
    /\ Goto("stop")
    /\ UNCHANGED <<unthreaded, caller, built, simStopped, sigint, exitCode, gwGone>>
-----------------------------------------------------------------------------
\* stop

IsRunning == built /\ ~simStopped

StopIgnored ==
    /\ mainPc = "stop"
    /\ ~IsRunning
    /\ Goto("return")
    /\ UNCHANGED <<unthreaded, caller, built, simStopped, sigint, exitCode, gwGone>>

StopBegins ==
    /\ mainPc = "stop"
    /\ IsRunning
    /\ simStopped' = TRUE
    /\ Goto("flag_dev")
    /\ UNCHANGED <<unthreaded, caller, built, sigint, exitCode, gwGone>>

FlagDevice ==
    /\ mainPc = "flag_dev"
    /\ devStopped' = [devStopped EXCEPT ![idx] = TRUE]
    /\ Loop("flag_dev", NDev, "flag_gw")
    /\ UNCHANGED <<gatewayVars, upVars, downVars>>
    /\ UNCHANGED <<caller, built, simStopped, sigint, exitCode, gwGone>>

FlagGateway ==
    /\ mainPc = "flag_gw"
    /\ gwStopped' = [gwStopped EXCEPT ![idx] = TRUE]
    /\ Loop("flag_gw", NGw, "close")
    /\ UNCHANGED <<kaPc, pullVars, netVars, pushOwner, chanVars, deviceVars>>
    /\ UNCHANGED <<caller, built, simStopped, sigint, exitCode, gwGone>>

\* Mutant: device::stop joins without closing the channel.
CloseForgotten ==
    /\ mainPc = "close"
    /\ Continue("join_up")
    /\ UNCHANGED <<unthreaded, caller, built, simStopped, sigint, exitCode, gwGone>>

\* device::stop: close the channel, then get() both futures if valid.
CloseChannel ==
    /\ mainPc = "close"
    /\ closed' = [closed EXCEPT ![idx] = TRUE]
    /\ Continue("join_up")
    /\ UNCHANGED <<gwStopped, kaPc, pullVars, netVars, pushOwner, queue, deviceVars>>
    /\ UNCHANGED <<caller, built, simStopped, sigint, exitCode, gwGone>>

Joined(threadPc) == IF threadPc = "none" THEN "none" ELSE "joined"

JoinUplink ==
    /\ mainPc = "join_up"
    /\ upPc[idx] \in {"none", "ready"}
    /\ upPc' = [upPc EXCEPT ![idx] = Joined(@)]
    /\ Continue("join_down")
    /\ UNCHANGED <<gatewayVars, devStopped, hop, fCntUp, latePushes, downVars>>
    /\ UNCHANGED <<caller, built, simStopped, sigint, exitCode, gwGone>>

JoinDownlink ==
    /\ mainPc = "join_down"
    /\ downPc[idx] \in {"none", "ready"}
    /\ downPc' = [downPc EXCEPT ![idx] = Joined(@)]
    /\ Loop("close", NDev, "join_pull")
    /\ UNCHANGED <<gatewayVars, devStopped, upVars, fCntDown, handled, lateGets>>
    /\ UNCHANGED <<caller, built, simStopped, sigint, exitCode, gwGone>>

JoinDownlinkThrows ==
    /\ mainPc = "join_down"
    /\ downPc[idx] = "failed"
    /\ downPc' = [downPc EXCEPT ![idx] = "rethrown"]
    /\ Throw
    /\ UNCHANGED <<gatewayVars, devStopped, upVars, fCntDown, handled, lateGets>>
    /\ UNCHANGED <<built, simStopped, sigint, gwGone>>

\* gateway::stop: get() both futures if valid, then close the sockets.
JoinPull ==
    /\ mainPc = "join_pull"
    /\ pullPc[idx] \in {"none", "ready"}
    /\ pullPc' = [pullPc EXCEPT ![idx] = Joined(@)]
    /\ Continue("join_ka")
    /\ UNCHANGED <<gwStopped, kaPc, pulled, todo, txAcked, netVars, pushOwner, chanVars, deviceVars>>
    /\ UNCHANGED <<caller, built, simStopped, sigint, exitCode, gwGone>>

JoinPullThrows ==
    /\ mainPc = "join_pull"
    /\ pullPc[idx] = "failed"
    /\ pullPc' = [pullPc EXCEPT ![idx] = "rethrown"]
    /\ Throw
    /\ UNCHANGED <<gwStopped, kaPc, pulled, todo, txAcked, netVars, pushOwner, chanVars, deviceVars>>
    /\ UNCHANGED <<built, simStopped, sigint, gwGone>>

JoinKeepAlive ==
    /\ mainPc = "join_ka"
    /\ kaPc[idx] \in {"none", "ready"}
    /\ kaPc' = [kaPc EXCEPT ![idx] = Joined(@)]
    /\ Loop("join_pull", NGw, "return")
    /\ UNCHANGED <<gwStopped, pullVars, netVars, pushOwner, chanVars, deviceVars>>
    /\ UNCHANGED <<caller, built, simStopped, sigint, exitCode, gwGone>>
-----------------------------------------------------------------------------
\* main returns, and the simulator it holds is destroyed

ReturnFromStop ==
    /\ mainPc = "return"
    /\ exitCode' = IF caller = "catch" THEN "failure" ELSE "success"
    /\ Goto("destroy_gw")
    /\ UNCHANGED <<unthreaded, caller, built, simStopped, sigint, gwGone>>

\* ~gateway waits for its two threads.
GatewayQuiet(g) == ~Running(kaPc[g]) /\ ~Running(pullPc[g])

\* _gw_list goes first: it holds the last reference to the gateways that no
\* device uses.
DestroyGatewayList ==
    /\ mainPc = "destroy_gw"
    /\ LET unused == {g \in Gateways : Attached(g) = {}} IN
       /\ \A g \in unused : GatewayQuiet(g)
       /\ gwGone' = gwGone \union unused
    /\ Goto("destroy_dev")
    /\ UNCHANGED <<unthreaded, caller, built, simStopped, sigint, exitCode>>

\* Mutant: the first device that goes takes its gateways with it.
FirstUser(g, d) == d \in Attached(g) /\ \A e \in Attached(g) : e >= d

\* ~device waits for its downlink and its uplink thread, then gives up its
\* gateways; the last user of a gateway destroys it.
LastUser(g, d) == d \in Attached(g) /\ \A e \in Attached(g) : e <= d

\* Mutant: the destructor detaches the threads.
DestroyDeviceDetaching ==
    /\ mainPc = "destroy_dev"
    /\ gwGone' = gwGone \union {g \in Gateways : LastUser(g, idx)}
    /\ Loop("destroy_dev", NDev, "exited")
    /\ UNCHANGED <<unthreaded, caller, built, simStopped, sigint, exitCode>>

DestroyDevice ==
    /\ mainPc = "destroy_dev"
    /\ ~Running(downPc[idx])
    /\ ~Running(upPc[idx])
    /\ LET released == {g \in Gateways : LastUser(g, idx)} IN
       /\ \A g \in released : GatewayQuiet(g)
       /\ gwGone' = gwGone \union released
    /\ Loop("destroy_dev", NDev, "exited")
    /\ UNCHANGED <<unthreaded, caller, built, simStopped, sigint, exitCode>>
-----------------------------------------------------------------------------
\* signal_handler

\* The first SIGINT jumps back to setjmp, where main calls stop; futures
\* that main was waiting for keep their threads.
SigintFirst ==
    /\ MaxSigint > 0
    /\ sigint = "none"
    /\ mainPc \notin Destroying \union {"exited"}
    /\ sigint' = IF simStopped THEN "late" ELSE "early"
    /\ caller' = "signal"
    /\ Goto("stop")
    /\ UNCHANGED <<unthreaded, built, simStopped, exitCode, gwGone>>

\* Jumping back out of the destructor of the simulator is undefined.
SigintInDestructor ==
    /\ MaxSigint > 0
    /\ sigint = "none"
    /\ mainPc \in Destroying
    /\ sigint' = "late"
    /\ Exit("undefined")
    /\ UNCHANGED <<unthreaded, caller, built, simStopped, gwGone>>

\* The second calls exit, which destroys no local of main.
SigintAgain ==
    /\ MaxSigint > 1
    /\ sigint # "none"
    /\ mainPc # "exited"
    /\ Exit("exit_success")
    /\ UNCHANGED <<unthreaded, caller, built, simStopped, sigint, gwGone>>
-----------------------------------------------------------------------------
Launch ==
    \/ InitSucceeds \/ OpenSockets
    \/ LaunchKeepAlive \/ LaunchPull \/ LaunchUplink \/ LaunchDownlink

LaunchFailure == InitThrows \/ SocketFails \/ LaunchThrows

Stop ==
    \/ StopIgnored \/ StopBegins \/ FlagDevice \/ FlagGateway \/ CloseChannel
    \/ JoinUplink \/ JoinDownlink \/ JoinDownlinkThrows
    \/ JoinPull \/ JoinPullThrows \/ JoinKeepAlive

Finish == ReturnFromStop \/ DestroyGatewayList \/ DestroyDevice

MainStep == Launch \/ Stop \/ Finish
Signal == SigintFirst \/ SigintInDestructor \/ SigintAgain

\* Other threads step while the process lives; a socket that is not open
\* receives nothing.
GatewayThread(g) == mainPc # "exited" /\ GatewayStep(g) /\ UNCHANGED <<deviceVars, mainVars>>
UplinkThread(d) == mainPc # "exited" /\ UplinkStep(d) /\ UNCHANGED mainVars
DownlinkThread(d) == mainPc # "exited" /\ DownlinkStep(d) /\ UNCHANGED mainVars
Server(g) ==
    /\ Running(pullPc[g])
    /\ mainPc # "exited"
    /\ ServerSend(g)
    /\ UNCHANGED <<deviceVars, mainVars>>

\* The process is gone.
Exited == mainPc = "exited" /\ UNCHANGED vars

Next ==
    \/ MainStep
    \/ DurationExpires
    \/ LaunchFailure
    \/ Signal
    \/ \E g \in Gateways : GatewayThread(g) \/ Server(g)
    \/ \E d \in Devices : UplinkThread(d) \/ DownlinkThread(d)
    \/ Exited

Spec == Init /\ [][Next]_vars

\* The operating system keeps running every thread that can run, sleeps and
\* receive timeouts end, and init and the launches either succeed or throw.
\* Nobody has to send a datagram or a signal.
ThreadFairness ==
    /\ WF_vars(MainStep)
    /\ \A g \in Gateways :
        WF_vars(mainPc # "exited" /\ KeepAliveEnd(g) /\ UNCHANGED <<deviceVars, mainVars>>)
    /\ \A g \in Gateways :
        WF_vars(mainPc # "exited" /\ PullStep(g) /\ UNCHANGED <<deviceVars, mainVars>>)
    /\ \A d \in Devices : WF_vars(UplinkThread(d)) /\ WF_vars(DownlinkThread(d))

\* A simulation whose duration is longer than anything else it waits for.
LongSpec == Spec /\ ThreadFairness

\* The duration is finite.
FairSpec == LongSpec /\ WF_vars(DurationExpires)
=============================================================================
