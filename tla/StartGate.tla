----------------------------- MODULE StartGate -----------------------------
(***************************************************************************)
(* What the console tools promise about a collective command: it is sent   *)
(* to a console only after every console of the run has been seen ready.   *)
(***************************************************************************)
CONSTANT Ports

VARIABLES ready, commanded

gateVars == <<ready, commanded>>

Init == ready = {} /\ commanded = {}

BecomeReady(p) ==
    /\ ready' = ready \cup {p}
    /\ UNCHANGED commanded

Command(p) ==
    /\ ready = Ports
    /\ commanded' = commanded \cup {p}
    /\ UNCHANGED ready

Next == \E p \in Ports : BecomeReady(p) \/ Command(p)

Spec == Init /\ [][Next]_gateVars
=============================================================================
