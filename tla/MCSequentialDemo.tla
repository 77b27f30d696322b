--------------------------- MODULE MCSequentialDemo ---------------------------
(***************************************************************************)
(* Two demonstrations of a drop of two units, with two bad credentials.    *)
(***************************************************************************)
EXTENDS SequentialDemo

MCUnits == 2
MCBadCredentials == 2

=============================================================================
