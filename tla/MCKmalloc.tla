----------------------------- MODULE MCKmalloc -----------------------------
(* Instances of Kmalloc for TLC: the memory maps.                          *)
EXTENDS Kmalloc

Usable(a, n)  == [MemoryAddress |-> a, NumberBytes |-> n, usable |-> TRUE]
Reserved(a, n) == [MemoryAddress |-> a, NumberBytes |-> n, usable |-> FALSE]

(* Plain memory, and a machine with less than the kernel insists on.       *)
MCFlatMaps == {<<Usable(1, 8)>>, <<Usable(1, 2)>>}

(* Reserved areas below the heap, right above it and at its end, before    *)
(* and after the area that says how much memory there is.                  *)
MCReservedMaps ==
  {<<Reserved(1, 1), Reserved(6, 1), Usable(1, 15)>>,
   <<Usable(1, 15), Reserved(5, 1), Reserved(9, 2)>>}

(* All of them: the run of Kmalloc.                                        *)
MCMaps == MCFlatMaps \cup MCReservedMaps
=============================================================================
