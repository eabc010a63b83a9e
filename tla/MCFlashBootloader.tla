------------------------- MODULE MCFlashBootloader -------------------------
(* An instance of FlashBootloader for TLC: the five kinds of machine config, *)
(* an image of 2 MiB, disks without a table, and with one whose first        *)
(* partition starts at 1, 2.5 or 16 MiB or is not there, and a file system on *)
(* the bare disk, which parted calls a table with a partition at 0.           *)
EXTENDS FlashBootloader

MC(b, o, h, e, s, n, m) ==
  [boot0 |-> b, off |-> o, head |-> h, emmcBoot |-> e, sdBoot |-> s,
   nvmeFirst |-> n, mhdp |-> m]

MCMachines ==
  {MC(TRUE, 33792, 0, "true", TRUE, FALSE, FALSE),       \* i.MX8MQ
   MC(TRUE, 0, 0, "warn", FALSE, FALSE, FALSE),          \* i.MX8MP
   MC(FALSE, 32768, 0, "warn", TRUE, TRUE, FALSE),       \* RK3588
   MC(TRUE, 512, 512, "warn", TRUE, TRUE, FALSE),        \* BPI-CM4
   MC(FALSE, 1048576, 0, "false", TRUE, FALSE, TRUE)}    \* LS1028A

MCLayouts ==
  {[label |-> "unknown", first |-> -1], [label |-> "gpt", first |-> -1],
   [label |-> "gpt", first |-> 2621440], [label |-> "gpt", first |-> 16777216],
   [label |-> "msdos", first |-> 1048576], [label |-> "msdos", first |-> 16777216],
   [label |-> "other", first |-> 0]}

Line(opts, image, args) ==
  [force |-> "force" \in opts, zero |-> "zero" \in opts,
   check |-> "check" \in opts, dryrun |-> "dryrun" \in opts,
   offline |-> "offline" \in opts, machine |-> "machine" \in opts,
   image |-> image, args |-> args]

MCInvocations ==
  LET one == {<<a>> : a \in Args}
  IN  {Line({}, "", args) : args \in one \cup
         {<<>>, <<"sd", "emmc">>, <<"/dev/mmc", "/dev/usb">>}}
      \cup {Line(o, "", <<"/dev/mmc", "sd">>) :
              o \in {{"force"}, {"zero"}, {"check"}, {"dryrun"}, {"offline"},
                     {"check", "force"}, {"force", "zero"}}}
      \cup {Line({}, im, <<"emmc">>) : im \in {"-i", "--image"}}
      \cup {Line({"machine"}, "--image", args) : args \in one}
=============================================================================
