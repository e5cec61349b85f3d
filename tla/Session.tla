------------------------------ MODULE Session ------------------------------
(***************************************************************************)
(* A handshake between two nodes that both run this program: the roads of  *)
(* handlemessage.rs at the two ends, task_write.rs and task_read.rs in     *)
(* both directions between them (Framing).  The actors between a handler   *)
(* and its socket are left out: Node's SocketOrder shows that they neither *)
(* reorder nor repeat what a handshake sends.                              *)
(***************************************************************************)
EXTENDS Framing

ASSUME SessionDirs == Dirs = {"to_in", "to_out"}

VARIABLE stage      \* how far the handshake of each side has come

sessionVars == << framingVars, stage >>

Sides == {"in", "out"}      \* the node that accepted, the node that connected

SendTo(side)      == IF side = "in" THEN "to_out" ELSE "to_in"
ReceiveFrom(side) == IF side = "in" THEN "to_in" ELSE "to_out"

Sends(k)  == [way |-> "send", cmd |-> k]
Awaits(k) == [way |-> "receive", cmd |-> k]

(* Mutant of RoadOf: the Verack of the other side is awaited before the    *)
(* own one is sent.                                                        *)
RoadThatWaits(side) ==
    IF side = "in"
    THEN << Awaits("version"), Sends("version"), Awaits("verack"), Sends("verack") >>
    ELSE << Sends("version"), Awaits("version"), Awaits("verack"), Sends("verack") >>

RoadOf(side) ==
    IF side = "in"
    THEN << Awaits("version"), Sends("version"), Sends("verack"), Awaits("verack") >>
    ELSE << Sends("version"), Awaits("version"), Sends("verack"), Awaits("verack") >>

SessionInit == FramingInit /\ stage = [side \in Sides |-> 0]

At(side, step) == stage[side] < 4 /\ RoadOf(side)[stage[side] + 1] = step

Advance(side) == stage' = [stage EXCEPT ![side] = @ + 1]

SessionSends(side, k) ==
    /\ At(side, Sends(k))
    /\ Hand(SendTo(side), k)
    /\ Advance(side)

(* The messages of its direction the handler of a side has had so far.     *)
Handled(side) ==
    Cardinality({i \in 1..stage[side] : RoadOf(side)[i].way = "receive"})

(* A message that is not the next one of the road is reported, not handled.*)
SessionReceives(side, k) ==
    /\ At(side, Awaits(k))
    /\ Handled(side) < Len(parsed[ReceiveFrom(side)])
    /\ parsed[ReceiveFrom(side)][Handled(side) + 1] = k
    /\ Advance(side)
    /\ UNCHANGED framingVars

SideWork(side) == \E k \in Kind : SessionSends(side, k) \/ SessionReceives(side, k)

SessionNext ==
    \/ \E side \in Sides : SideWork(side)
    \/ \E d \in Dirs : (Write(d) \/ Read(d)) /\ UNCHANGED stage

(* The actors go on and the network delivers; nothing is asked of the      *)
(* portions in which it does.                                              *)
SessionSpec ==
    /\ SessionInit /\ [][SessionNext]_sessionVars
    /\ \A side \in Sides : WF_sessionVars(SideWork(side))
    /\ \A d \in Dirs : WF_sessionVars(Write(d) /\ UNCHANGED stage)
    /\ \A d \in Dirs : WF_sessionVars(Read(d) /\ UNCHANGED stage)
-----------------------------------------------------------------------------
(* Properties.                                                             *)

Completed(side) == stage[side] = 4

(* A stream was cut within a header, or the byte behind a Verack came      *)
(* alone or before more; or two messages came complete in one read.        *)
BadPortions(d) == reader[d] # "reading" \/ crowded[d] > 0

(* Two nodes of this program complete their handshake on both sides unless *)
(* the portions in which the bytes come are bad in one of the two ways.    *)
HandshakeOverTheWire ==
    <>((\A side \in Sides : Completed(side)) \/ \E d \in Dirs : BadPortions(d))
=============================================================================
