---------------------------- MODULE MCLpcDriver ----------------------------
(* An instance of LpcDriver for TLC: a battery that charges with -500 mA and *)
(* an empty one that discharges with 700 mA; a V1 and a V3 firmware; damage  *)
(* to the lowest and to the highest bit of any byte; handlers of one command *)
(* for both answers that are decoded, show_firmware, which sends three, and  *)
(* one that ignores errors.                                                  *)
EXTENDS LpcDriver

MCMeasures == {<<232, 28, 12, 254, 80, 0, 0, 86>>,
               <<112, 23, 188, 2, 0, 0, 0, 217>>}
MCFlips == {1, 128}
MCHandlers == {<<"q">>, <<"c">>, <<"n", "n", "f">>, <<"z">>}
MCVersions == {<<50, 48, 50, 53, 48, 53, 50, 53>>,   \* "20250525"
               <<50, 48, 50, 54, 48, 51, 49, 53>>}   \* "20260315"
=============================================================================
