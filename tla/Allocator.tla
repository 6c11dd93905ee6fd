----------------------------- MODULE Allocator -----------------------------
(***************************************************************************)
(* What the kernel heap promises its callers, whatever its tables look     *)
(* like: a caller that gets memory gets a range that nobody else has until *)
(* the caller gives it back.                                               *)
(***************************************************************************)
EXTENDS Naturals

CONSTANT Holder     \* who can hold a piece of memory, one piece each

Chunk == [addr : Nat, size : Nat]

(* Address 0 is the null pointer: no memory.                               *)
NoChunk == [addr |-> 0, size |-> 0]

(* Two chunks share no byte.                                               *)
Apart(c, d) == c.addr + c.size <= d.addr \/ d.addr + d.size <= c.addr

VARIABLE held       \* held[h]: the memory h holds

TypeOK == held \in [Holder -> Chunk]

Init == held = [h \in Holder |-> NoChunk]

(* h is handed some chunk, of any address and size.                        *)
Take(h) == /\ held[h] = NoChunk
           /\ held' = [held EXCEPT ![h] = held'[h]]
           /\ held'[h] \in Chunk
           /\ held'[h].addr # 0
           /\ \A g \in Holder : held[g].addr # 0 => Apart(held'[h], held[g])

Give(h) == /\ held[h].addr # 0
           /\ held' = [held EXCEPT ![h] = NoChunk]

Next == \E h \in Holder : Take(h) \/ Give(h)

Spec == Init /\ [][Next]_held
=============================================================================
