----------------------------- MODULE Handshake -----------------------------
(***************************************************************************)
(* What HandleMessage promises about a handshake, whatever the order of    *)
(* the messages: under each id it is absent or has come a certain way      *)
(* along the one road its direction allows, a stage at a time, and it      *)
(* starts over only by being forgotten.                                    *)
(*                                                                         *)
(*   "in"  : received Version, sent Version,     sent Verack, received Verack *)
(*   "out" : sent Version,     received Version, sent Verack, received Verack *)
(***************************************************************************)
EXTENDS Naturals

CONSTANT Ids

VARIABLE road       \* for each id: Absent, or its direction and how far it got

Absent == [way |-> "none", stage |-> 0]
Started(w) == [way |-> w, stage |-> 0]

HSInit == road = [p \in Ids |-> Absent]

Begin(p) ==
    /\ road[p] = Absent
    /\ \E w \in {"in", "out"} : road' = [road EXCEPT ![p] = Started(w)]

(* The next stage of the road; a handshake may stay at a stage for ever.   *)
Advance(p) ==
    /\ road[p] # Absent /\ road[p].stage < 4
    /\ road' = [road EXCEPT ![p].stage = @ + 1]

Forget(p) == road' = [road EXCEPT ![p] = Absent]

ForgetAll == road' = [p \in Ids |-> Absent]

HSNext ==
    \/ \E p \in Ids : Begin(p) \/ Advance(p) \/ Forget(p)
    \/ ForgetAll

HSSpec == HSInit /\ [][HSNext]_road
=============================================================================
