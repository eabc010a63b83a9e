---------------------------- MODULE MCBootConfig ----------------------------
(* BootConfig as it is: its only constant is a bound.                        *)
EXTENDS BootConfig
=============================================================================
