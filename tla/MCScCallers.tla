---------------------------- MODULE MCScCallers ----------------------------
(* An instance of ScCallers for TLC: all its commands, and the read of the *)
(* cells, of which the other reads are prefixes or repetitions.           *)
EXTENDS ScCallers

MCReads == {<<"(cell-mv 0)", "(cell-mv 1)">>}
MCCommands ==
  {"(cell-mv 0)", "(cell-mv 1)", "(set-lite 0)", "(set-lite 1)",
   "(set-lite 2)", "(soc-susp)", "(soc-psus)", "(set-gpio 0 0)",
   "(set-gpio 0 1)", "(0p)"}

\* TLC tells states apart by what some action reads: not by the numbers of
\* transmissions, nor by the locals of a thread outside of a call.
CallersView ==
  <<busy, [t \in busy |-> <<cmd[t], tries[t]>>],
    [i \in DOMAIN inbox |-> inbox[i].cmd], driverVars, propVars, historyVars,
    doing, todo, reg, oops, events, lost>>
=============================================================================
