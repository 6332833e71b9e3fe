------------------------------- MODULE MCHost -------------------------------
(* Host for TLC: the first plugin can be restarted, and every restart of    *)
(* the second one fails.                                                    *)
EXTENDS Host

MCMaxGen == <<2, 1>>

=============================================================================
