---------------------------- MODULE ServiceChain ----------------------------
(***************************************************************************)
(* What the data plane promises: a packet of a chain is processed by the   *)
(* functions of the chain, one after the other, and is delivered when the  *)
(* last one is done with it.  Once the rules are installed everywhere,     *)
(* only the network and the functions themselves may lose a packet that    *)
(* enters; before that, the chain may refuse packets or let them out early.*)
(***************************************************************************)
EXTENDS Naturals, Sequences

CONSTANTS Packets, Functions

VARIABLES
    route,       \* per packet, the functions it has to go through; never changes
    served,      \* per packet, the functions it has been through
    state,       \* per packet, where it is
    ready,       \* whether the rules are installed everywhere
    guaranteed   \* per packet, whether it entered when ready was true

vars == <<route, served, state, ready, guaranteed>>

Init ==
    /\ route \in [Packets -> Seq(Functions)]
    /\ served = [p \in Packets |-> <<>>]
    /\ state = [p \in Packets |-> "outside"]
    /\ ready \in BOOLEAN
    /\ guaranteed = [p \in Packets |-> FALSE]

Finish(p, how) ==
    /\ state[p] = "inside"
    /\ state' = [state EXCEPT ![p] = how]
    /\ UNCHANGED <<route, served, ready, guaranteed>>

BecomeReady ==
    /\ ~ready
    /\ ready' = TRUE
    /\ UNCHANGED <<route, served, state, guaranteed>>

Pass(p) ==
    /\ state[p] = "outside"
    /\ route[p] = <<>>
    /\ state' = [state EXCEPT ![p] = "passed"]
    /\ UNCHANGED <<route, served, ready, guaranteed>>

Enter(p) ==
    /\ state[p] = "outside"
    /\ route[p] # <<>>
    /\ state' = [state EXCEPT ![p] = "inside"]
    /\ guaranteed' = [guaranteed EXCEPT ![p] = ready]
    /\ UNCHANGED <<route, served, ready>>

\* The next function of the chain processes the packet.
ServeNext(p) ==
    /\ state[p] = "inside"
    /\ Len(served[p]) < Len(route[p])
    /\ served' = [served EXCEPT ![p] = Append(@, route[p][Len(@) + 1])]
    /\ UNCHANGED <<route, state, ready, guaranteed>>

Deliver(p) == served[p] = route[p] /\ Finish(p, "delivered")

Drop(p) == Finish(p, "dropped")

LetOut(p) == ~guaranteed[p] /\ Finish(p, "bypassed")

Refuse(p) == ~guaranteed[p] /\ Finish(p, "refused")

PacketStep(p) ==
    \/ Pass(p) \/ Enter(p) \/ ServeNext(p) \/ Deliver(p)
    \/ Drop(p) \/ LetOut(p) \/ Refuse(p)

Next == BecomeReady \/ \E p \in Packets : PacketStep(p)

Spec == Init /\ [][Next]_vars
=============================================================================
