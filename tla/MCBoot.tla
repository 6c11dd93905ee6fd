------------------------------- MODULE MCBoot -------------------------------
(***************************************************************************)
(* PCs for the run of Boot: one with an RSDT, one with an XSDT, and those  *)
(* in which one thing is missing, broken or odd.                           *)
(***************************************************************************)
EXTENDS Boot

Usual == 1043968    \* the page of the usual address, 0xfee00000
Other == 1043712    \* of 0xfed00000
Odd == Usual + 1

Whole == <<200, 40, 16>>    \* a sum of 256
Broken == <<200, 41, 16>>

Place(signed, revision, bytes) ==
  [signed |-> signed, revision |-> revision, bytes |-> bytes, rsdt |-> "rsdt", xsdt |-> "xsdt"]

Sdt(sig, bytes, words) ==
  [sig |-> sig, bytes |-> bytes, words |-> words, dual |-> TRUE, lapic |-> Usual, cores |-> 2]

Tables ==
  [t \in {"rsdt", "xsdt", "facp", "madt", "madt2", "zero"} |->
     CASE t = "rsdt"  -> Sdt("RSDT", Whole, <<"facp", "madt", "madt2">>)
       [] t = "xsdt"  -> Sdt("XSDT", Whole, <<"facp", "zero", "madt", "zero">>)
       [] t = "facp"  -> Sdt("FACP", Broken, <<>>)
       [] t = "madt"  -> Sdt("APIC", Whole, <<>>)
       [] t = "madt2" -> Sdt("APIC", Broken, <<>>)
       [] t = "zero"  -> Sdt("", <<>>, <<>>)]

RsdtTables == [Tables EXCEPT !["rsdt"].words = <<"facp", "madt">>]

Plain ==
  [memory |-> TRUE, kept |-> FALSE, fpu |-> TRUE, ds |-> FALSE, x2apic |-> FALSE, dual |-> TRUE,
   base |-> Usual, rom |-> <<Place(FALSE, 0, Broken), Place(TRUE, 0, Whole)>>,
   tables |-> RsdtTables, pci |-> {[bus |-> 0], [bus |-> 2]}, disk |-> TRUE, fs |-> TRUE,
   files |-> {StartUpApp, Path("/aa.jexe", 8)}]

Undual(t) == [n \in DOMAIN t |-> [t[n] EXCEPT !.dual = FALSE]]

One(m) == [m EXCEPT !.tables["madt"].cores = 1]

MCMachines ==
  {Plain,
   [Plain EXCEPT !.kept = TRUE],
   [Plain EXCEPT !.rom = <<Place(TRUE, 2, Whole)>>],
   [Plain EXCEPT !.rom = <<Place(TRUE, 2, Whole)>>, !.kept = TRUE, !.dual = FALSE,
                 !.tables = Undual(RsdtTables)],
   One(Plain),
   [One(Plain) EXCEPT !.kept = TRUE],
   [Plain EXCEPT !.ds = TRUE, !.x2apic = TRUE],
   [One(Plain) EXCEPT !.ds = TRUE, !.x2apic = TRUE],
   [Plain EXCEPT !.tables["madt"].lapic = Other],
   [One(Plain) EXCEPT !.tables["madt"].lapic = Other],
   [One(Plain) EXCEPT !.base = Odd],
   [Plain EXCEPT !.base = Odd, !.tables["madt"].lapic = Odd],
   [Plain EXCEPT !.fpu = FALSE],
   [One(Plain) EXCEPT !.fpu = FALSE, !.kept = TRUE],
   [Plain EXCEPT !.memory = FALSE],
   [Plain EXCEPT !.ds = TRUE],
   [Plain EXCEPT !.rom = <<>>],
   [Plain EXCEPT !.rom = <<Place(TRUE, 0, Broken), Place(TRUE, 0, Whole)>>],
   [Plain EXCEPT !.rom = <<Place(TRUE, 3, Whole)>>],
   [Plain EXCEPT !.tables["rsdt"].bytes = Broken],
   [Plain EXCEPT !.tables["rsdt"].words = <<"facp">>],
   [Plain EXCEPT !.tables["rsdt"].words = <<"facp", "madt2">>],
   [Plain EXCEPT !.tables["rsdt"].words = <<"madt", "madt2">>],
   [Plain EXCEPT !.tables["rsdt"].words = <<"madt2", "madt">>],
   [Plain EXCEPT !.tables["madt"].cores = 0],
   [Plain EXCEPT !.pci = {}],
   [Plain EXCEPT !.disk = FALSE],
   [Plain EXCEPT !.fs = FALSE],
   [Plain EXCEPT !.files = {Path("/tl.jexe", 8)}]}

(* Built-in programs, files, some of a built-in program's length.          *)
MCPaths == Range(OverrideArray) \cup
           {StartUpApp, Path("/aa.jexe", 8), Path("/bb.jexe", 8), Path("/a.jexe", 7)}
=============================================================================
