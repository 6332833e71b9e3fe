---------------------------- MODULE MCBootstrap ----------------------------
(* An instance of Bootstrap for TLC. *)
EXTENDS Bootstrap

\* Either three starts and a daemon that dies, or two and calls of other
\* clients: a leftover can get in the way of two starts in the first, and a
\* token can be presented more than once in the second.
MCBudgets ==
    {[starts |-> 3, crashes |-> 1, clients |-> 0],
     [starts |-> 2, crashes |-> 1, clients |-> 1]}

=============================================================================
