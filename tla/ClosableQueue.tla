--------------------------- MODULE ClosableQueue ---------------------------
(***************************************************************************)
(* What supg::channel<T> (include/supg/util/channel.h) promises to the     *)
(* gateways that put downlink frames in it, to the device that gets them   *)
(* and to the simulator that closes it: every item accepted before the     *)
(* close comes out at most once and in the order of acceptance, and        *)
(* nothing is accepted once the channel is closed.  No lock, no condition  *)
(* variable and no blocking: those belong to Channel, which implements     *)
(* this specification.                                                     *)
(***************************************************************************)
EXTENDS Naturals, Sequences

CONSTANT Items    \* what can be put in the channel

VARIABLES
    accepted,     \* every item ever accepted, in order
    taken,        \* how many of them have been handed to a getter
    closed        \* has the channel been closed?

vars == <<accepted, taken, closed>>

Init ==
    /\ accepted = <<>>
    /\ taken = 0
    /\ closed = FALSE

Accept ==
    /\ ~closed
    /\ \E item \in Items : accepted' = Append(accepted, item)
    /\ UNCHANGED <<taken, closed>>

\* A closed channel still hands out what it accepted before the close.
Take ==
    /\ taken < Len(accepted)
    /\ taken' = taken + 1
    /\ UNCHANGED <<accepted, closed>>

Close ==
    /\ closed' = TRUE
    /\ UNCHANGED <<accepted, taken>>

Next == Accept \/ Take \/ Close

Spec == Init /\ [][Next]_vars
=============================================================================
