--------------------------- MODULE SpinLock_proofs ---------------------------
(***************************************************************************)
(* Proofs about SpinLock, for any set of cores.                            *)
(***************************************************************************)
EXTENDS SpinLock, TLAPS

(* The lock word stays 0 or 1, whatever the cores do.                      *)
THEOREM TypeCorrect == Spec => []TypeOK
<1>1. Init => TypeOK
  BY DEF Init, TypeOK, PCs
<1>2. TypeOK /\ [Next]_vars => TypeOK'
  BY DEF TypeOK, PCs, Next, Step, WaitSet, SpinLockReset, Enter, Retry,
         Unlock, vars
<1> QED
  BY <1>1, <1>2, PTL DEF Spec

(* One step keeps ownership exclusive and the word truthful.               *)
LEMMA LockInvStep == TypeOK /\ LockInv /\ [Next]_vars => LockInv'
<1> SUFFICES ASSUME TypeOK, LockInv, [Next]_vars
             PROVE  LockInv'
  OBVIOUS
<1> USE DEF TypeOK, PCs, LockInv, Owns
<1>1. ASSUME NEW c \in Core, WaitSet(c)
      PROVE  LockInv'
  BY <1>1 DEF WaitSet
<1>2. ASSUME NEW c \in Core, SpinLockReset(c)
      PROVE  LockInv'
  <2>1. CASE SpinLockVar = 0
    BY <1>2, <2>1 DEF SpinLockReset
  <2>2. CASE SpinLockVar = 1
    BY <1>2, <2>2 DEF SpinLockReset
  <2> QED
    BY <2>1, <2>2
<1>3. ASSUME NEW c \in Core, Enter(c)
      PROVE  LockInv'
  BY <1>3 DEF Enter
<1>4. ASSUME NEW c \in Core, Retry(c)
      PROVE  LockInv'
  BY <1>4 DEF Retry
<1>5. ASSUME NEW c \in Core, Unlock(c)
      PROVE  LockInv'
  BY <1>5 DEF Unlock
<1>6. CASE UNCHANGED vars
  BY <1>6 DEF vars
<1> QED
  BY <1>1, <1>2, <1>3, <1>4, <1>5, <1>6 DEF Next, Step

(* Ownership is exclusive from the exchange on, and the word is 1 exactly  *)
(* while some core owns the lock.                                          *)
THEOREM LockInvariant == Spec => []LockInv
<1>1. Init => LockInv
  BY DEF Init, LockInv, Owns
<1> QED
  BY <1>1, LockInvStep, TypeCorrect, PTL DEF Spec

(* No two cores are in the critical section of one lock.                   *)
THEOREM Mutex == Spec => []MutualExclusion
<1>1. LockInv => MutualExclusion
  BY DEF LockInv, Owns, MutualExclusion
<1> QED
  BY <1>1, LockInvariant, PTL

-----------------------------------------------------------------------------
(* Whenever a core owns the lock it is the abstract holder.                *)
HolderOwns ==
  /\ \A c \in Core : Owns(c) <=> holder = c
  /\ (\A c \in Core : ~Owns(c)) <=> holder = NoCore

LEMMA HolderIsOwner == LockInv => HolderOwns
<1> SUFFICES ASSUME LockInv
             PROVE  HolderOwns
  OBVIOUS
<1> USE DEF HolderOwns
<1>1. CASE \E d \in Core : Owns(d)
  <2>1. holder = CHOOSE d \in Core : Owns(d)
    BY <1>1 DEF holder
  <2>2. PICK d \in Core : Owns(d)
    BY <1>1
  <2>3. holder \in Core /\ Owns(holder)
    BY <2>1, <2>2
  <2>4. \A a, b \in Core : Owns(a) /\ Owns(b) => a = b
    BY DEF LockInv
  <2> QED
    BY <1>1, <2>3, <2>4, NoCoreAssumption
<1>2. CASE ~\E d \in Core : Owns(d)
  BY <1>2, NoCoreAssumption DEF holder
<1> QED
  BY <1>1, <1>2

(* Every step of the lock is a step of the abstract lock or none: taking   *)
(* it is the exchange that returns 0, giving it back is the store of 0.    *)
LEMMA StepRefines ==
  TypeOK /\ LockInv /\ LockInv' /\ [Next]_vars
     => [Abstract!Next]_holder
<1>k. LockInv' => HolderOwns'
  BY HolderIsOwner, PTL
<1> SUFFICES ASSUME TypeOK, LockInv, LockInv', [Next]_vars
             PROVE  [Abstract!Next]_holder
  OBVIOUS
<1>h. HolderOwns /\ HolderOwns'
  BY HolderIsOwner, <1>k
<1>s. ASSUME \A d \in Core : Owns(d)' <=> Owns(d)
      PROVE  UNCHANGED holder
  BY <1>s DEF holder
<1>1. ASSUME NEW c \in Core, WaitSet(c)
      PROVE  UNCHANGED holder
  BY <1>1, <1>s DEF WaitSet, Owns, TypeOK
<1>2. ASSUME NEW c \in Core, SpinLockReset(c)
      PROVE  [Abstract!Next]_holder
  <2>1. CASE SpinLockVar = 0
    <3>1. \A d \in Core : ~Owns(d)
      BY <2>1 DEF LockInv
    <3>2. Owns(c)'
      BY <1>2, <2>1 DEF SpinLockReset, Owns, TypeOK
    <3>3. holder = NoCore /\ holder' = c
      BY <3>1, <3>2, <1>h DEF HolderOwns
    <3> QED
      BY <3>3 DEF Abstract!Next, Abstract!Acquire
  <2>2. CASE SpinLockVar = 1
    BY <1>2, <2>2, <1>s DEF SpinLockReset, Owns, TypeOK
  <2> QED
    BY <2>1, <2>2 DEF TypeOK
<1>3. ASSUME NEW c \in Core, Enter(c)
      PROVE  UNCHANGED holder
  BY <1>3, <1>s DEF Enter, Owns, TypeOK
<1>4. ASSUME NEW c \in Core, Retry(c)
      PROVE  UNCHANGED holder
  BY <1>4, <1>s DEF Retry, Owns, TypeOK
<1>5. ASSUME NEW c \in Core, Unlock(c)
      PROVE  [Abstract!Next]_holder
  <2>1. holder = c
    BY <1>5, <1>h DEF Unlock, Owns, HolderOwns
  <2>2. SpinLockVar' = 0
    BY <1>5 DEF Unlock
  <2>3. \A d \in Core : ~Owns(d)'
    BY <2>2 DEF LockInv
  <2>4. holder' = NoCore
    BY <2>3, <1>h DEF HolderOwns
  <2> QED
    BY <2>1, <2>4 DEF Abstract!Next, Abstract!Release
<1>6. CASE UNCHANGED vars
  BY <1>6, <1>s DEF vars, Owns
<1> QED
  BY <1>1, <1>2, <1>3, <1>4, <1>5, <1>6 DEF Next, Step

(* The exchange loop and the plain store implement a mutual-exclusion lock.*)
THEOREM Implements == Spec => Refinement
<1>1. Init => Abstract!Init
  BY DEF Init, Abstract!Init, holder, Owns
<1> QED
  BY <1>1, StepRefines, TypeCorrect, LockInvariant, PTL
     DEF Spec, Refinement, Abstract!Spec
=============================================================================
