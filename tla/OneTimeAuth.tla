---------------------------- MODULE OneTimeAuth ----------------------------
(***************************************************************************)
(* What plugin servers promise of their bootstrap tokens: a server's token *)
(* is spent once, and no request is worked on before it has been spent.    *)
(***************************************************************************)
EXTENDS Naturals

CONSTANTS Servers, Requests

VARIABLES
    grants,   \* Auth calls that each server has accepted
    working   \* requests that have got past its gate and are worked on

Init ==
    /\ grants = [p \in Servers |-> 0]
    /\ working = [p \in Servers |-> {}]

(* The token is accepted, for the first time. *)
Grant(p) ==
    /\ grants[p] = 0
    /\ grants' = [grants EXCEPT ![p] = 1]
    /\ UNCHANGED working

(* A request gets past the gate. *)
Enter(p) ==
    /\ grants[p] = 1 /\ UNCHANGED grants
    /\ \E w \in Requests : working' = [working EXCEPT ![p] = @ \cup {w}]

(* Requests are answered, or die with the process. *)
Leave(p) ==
    /\ UNCHANGED grants
    /\ \E w \in SUBSET working[p] : working' = [working EXCEPT ![p] = w]

Next == \E p \in Servers : Grant(p) \/ Enter(p) \/ Leave(p)

Spec == Init /\ [][Next]_<<grants, working>>

=============================================================================
