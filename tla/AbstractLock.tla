---------------------------- MODULE AbstractLock ----------------------------
(***************************************************************************)
(* What a kernel spin lock promises: at any moment it is free or held by   *)
(* one core, a core takes it only when it is free, and only the holder     *)
(* gives it back.                                                          *)
(***************************************************************************)
CONSTANTS Core,     \* the cores that use the lock
          NoCore    \* the value of holder when the lock is free

VARIABLE holder

TypeOK == holder \in Core \cup {NoCore}

Init == holder = NoCore

Acquire(c) == /\ holder = NoCore
              /\ holder' = c

Release(c) == /\ holder = c
              /\ holder' = NoCore

Next == \E c \in Core : Acquire(c) \/ Release(c)

Spec == Init /\ [][Next]_holder
=============================================================================
