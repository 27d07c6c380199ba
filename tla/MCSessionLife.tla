--------------------------- MODULE MCSessionLife ----------------------------
(* Instances of SessionLife for TLC. *)
EXTENDS SessionLife

CONSTANTS plain, willful, leaver, ephemeral, fleeting, clean, hasty, other

\* Which actors meet in one behaviour
SomeCasts ==
    {{willful, other}, {leaver, plain}, {fleeting, clean},
     {ephemeral, clean, plain}, {ephemeral, hasty, Admin}}

\* Those of the liveness properties
FairCasts == {{willful, plain}, {willful, clean}, {ephemeral, plain}}
=============================================================================
