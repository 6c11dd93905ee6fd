---------------------------- MODULE MCCoreStart ----------------------------
(***************************************************************************)
(* MADTs for the runs of CoreStart.                                        *)
(***************************************************************************)
EXTENDS CoreStart

CONSTANTS c0, c1, c2, c3

Lapic(c, f) == [type |-> "LAPIC", ApicID |-> c, Flags |-> f]
IoApic == [type |-> "other", ApicID |-> c0, Flags |-> "off"]

Sound(entries) == [sound |-> TRUE, entries |-> entries]

(* Four cores in several orders, with other devices around them; one core; *)
(* no device; a core that is switched off, also as the first; the boot     *)
(* core as the second or the last one; a core listed twice; a table that   *)
(* fails its checksum.                                                     *)
MCTables ==
  {Sound(<<Lapic(c0, "on"), Lapic(c1, "on"), Lapic(c2, "on"), Lapic(c3, "on")>>),
   Sound(<<IoApic, Lapic(c0, "on"), Lapic(c3, "capable"), IoApic, Lapic(c1, "on"),
           Lapic(c2, "on")>>),
   Sound(<<Lapic(c0, "on"), Lapic(c2, "on")>>),
   Sound(<<Lapic(c0, "on")>>),
   Sound(<<Lapic(c0, "on"), Lapic(c1, "on"), Lapic(c2, "off")>>),
   Sound(<<Lapic(c1, "off"), Lapic(c0, "on"), Lapic(c2, "on")>>),
   Sound(<<Lapic(c1, "on"), Lapic(c0, "on"), Lapic(c2, "on")>>),
   Sound(<<Lapic(c1, "on"), Lapic(c2, "on"), Lapic(c0, "on")>>),
   Sound(<<Lapic(c0, "on"), Lapic(c1, "on"), Lapic(c0, "on")>>),
   Sound(<<Lapic(c0, "on"), Lapic(c1, "on"), Lapic(c2, "on"), Lapic(c1, "on")>>),
   Sound(<<>>),
   [sound |-> FALSE, entries |-> <<Lapic(c0, "on")>>]}
=============================================================================
