------------------------------ MODULE SpinLock ------------------------------
(***************************************************************************)
(* The kernel's only lock: Spinlock::WaitSet (Kernel/SpinLock.cpp) spins   *)
(* on SpinLockReset (Kernel/SpinLock.asm), an xchg of 1 into the lock      *)
(* word, until the word it gets back is 0.  A lock is given back by the    *)
(* plain store "SpinLock = 0" of the caller.                               *)
(*                                                                         *)
(* The exchange is one atomic step; the loop's test of its result is       *)
(* another, on the core's own Check.                                       *)
(***************************************************************************)
EXTENDS Naturals

CONSTANTS Core,     \* the cores contending for this lock
          NoCore    \* not a core: "nobody"

ASSUME NoCoreAssumption == NoCore \notin Core

VARIABLES SpinLockVar,  \* the lock word
          Check,        \* Check[c]: the local of WaitSet on core c
          pc            \* pc[c]: where core c is

vars == <<SpinLockVar, Check, pc>>

PCs == {"outside", "exchange", "test", "holding"}

TypeOK == /\ SpinLockVar \in {0, 1}
          /\ Check \in [Core -> {0, 1}]
          /\ pc \in [Core -> PCs]

Init == /\ SpinLockVar = 0
        /\ Check = [c \in Core |-> 1]
        /\ pc = [c \in Core |-> "outside"]
-----------------------------------------------------------------------------
(* The call of WaitSet: Check starts at 1 on each turn of the loop. *)
WaitSet(c) == /\ pc[c] = "outside"
              /\ pc' = [pc EXCEPT ![c] = "exchange"]
              /\ Check' = [Check EXCEPT ![c] = 1]
              /\ UNCHANGED SpinLockVar

(* Faulty variant: the word is read but not written, a plain load in place *)
(* of the exchange.                                                        *)
SpinLockReset_LoadOnly(c) ==
  /\ pc[c] = "exchange"
  /\ Check' = [Check EXCEPT ![c] = SpinLockVar]
  /\ pc' = [pc EXCEPT ![c] = "test"]
  /\ UNCHANGED SpinLockVar

(* xchg eax, [esi]: the word and the caller's 1 change places. *)
SpinLockReset(c) == /\ pc[c] = "exchange"
                    /\ Check' = [Check EXCEPT ![c] = SpinLockVar]
                    /\ SpinLockVar' = Check[c]
                    /\ pc' = [pc EXCEPT ![c] = "test"]

(* if(!Check) return: the lock is ours. *)
Enter(c) == /\ pc[c] = "test"
            /\ Check[c] = 0
            /\ pc' = [pc EXCEPT ![c] = "holding"]
            /\ UNCHANGED <<SpinLockVar, Check>>

(* Somebody else holds it: another turn of the loop, with a fresh Check. *)
Retry(c) == /\ pc[c] = "test"
            /\ Check[c] # 0
            /\ pc' = [pc EXCEPT ![c] = "exchange"]
            /\ Check' = [Check EXCEPT ![c] = 1]
            /\ UNCHANGED SpinLockVar

(* Faulty variant: the caller returns without giving the lock back. *)
Unlock_Forgotten(c) == /\ pc[c] = "holding"
                       /\ pc' = [pc EXCEPT ![c] = "outside"]
                       /\ UNCHANGED <<SpinLockVar, Check>>

(* The caller's "SpinLock = 0" at the end of its critical section. *)
Unlock(c) == /\ pc[c] = "holding"
             /\ SpinLockVar' = 0
             /\ pc' = [pc EXCEPT ![c] = "outside"]
             /\ UNCHANGED Check

Step(c) == SpinLockReset(c) \/ Enter(c) \/ Retry(c) \/ Unlock(c)

Next == \E c \in Core : WaitSet(c) \/ Step(c)

(* A core runs the instructions it has started; nothing makes it call.    *)
Fairness == \A c \in Core : WF_vars(Step(c))

Spec == Init /\ [][Next]_vars

FairSpec == Spec /\ Fairness
-----------------------------------------------------------------------------
(* A core owns the lock from the exchange that gave it 0.                  *)
Owns(c) == pc[c] = "holding" \/ (pc[c] = "test" /\ Check[c] = 0)

(* At most one core is between WaitSet's return and its unlock.            *)
MutualExclusion ==
  \A c, d \in Core : pc[c] = "holding" /\ pc[d] = "holding" => c = d

(* The inductive form: ownership starts at the exchange, is exclusive, and *)
(* the word is 1 exactly while some core owns it; a core about to exchange *)
(* brings a 1.                                                             *)
LockInv == /\ \A c, d \in Core : Owns(c) /\ Owns(d) => c = d
           /\ SpinLockVar = 1 <=> \E c \in Core : Owns(c)
           /\ \A c \in Core : pc[c] = "exchange" => Check[c] = 1

(* The lock implements AbstractLock: the holder is the core that owns it. *)
holder == IF \E c \in Core : Owns(c)
            THEN CHOOSE c \in Core : Owns(c)
            ELSE NoCore

Abstract == INSTANCE AbstractLock
              WITH Core <- Core, NoCore <- NoCore, holder <- holder

Refinement == Abstract!Spec

(* While cores wait, the lock keeps changing hands: some core gets in.     *)
(* (That every waiting core does needs more than the code promises: a     *)
(* plain exchange loop has no queue.)                                      *)
SomeoneGetsIn == (\E c \in Core : pc[c] = "exchange")
                   ~> (\E c \in Core : pc[c] = "holding")
=============================================================================
