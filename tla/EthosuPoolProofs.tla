-------------------------- MODULE EthosuPoolProofs --------------------------
(***************************************************************************)
(* No driver is ever in the hands of two threads, whatever they call and   *)
(* whenever: for every number of threads and drivers, drivers deinitialised*)
(* while in use or registered with a stale flag included.  Nothing is      *)
(* assumed but PoolAssumption.                                             *)
(***************************************************************************)
EXTENDS EthosuPool, SequenceTheorems, TLAPS

\* The places between a lock of the mutex and its unlock.
Critical == {"reg_link", "reg_unlock", "der_find", "der_take", "der_unlock",
             "res_test", "res_mark", "res_unlock", "res_none",
             "rel_test", "rel_give", "rel_unlock"}

\* A driver that a call of t is about to hand to t or to take from t.
InTransit(t, d) == pc[t] \in {"res_unlock", "rel_lock", "rel_test"} /\ drv[t] = d

Has(t, d) == d \in owns[t] \/ InTransit(t, d)

MutexHeld == \A t \in Threads : pc[t] \in Critical => mutex = t

MarkedIsFree == \A t \in Threads : pc[t] = "res_mark" => ~reserved[drv[t]]

HadIsReserved == \A t \in Threads, d \in Drivers : Has(t, d) => reserved[d]

HadOnce ==
    /\ \A t \in Threads, d \in Drivers : ~(d \in owns[t] /\ InTransit(t, d))
    /\ \A t, u \in Threads, d \in Drivers : Has(t, d) /\ Has(u, d) => t = u

HandsInv == MutexHeld /\ MarkedIsFree /\ HadIsReserved /\ HadOnce

\* The inductive invariant.
PoolInv == TypeOK /\ HandsInv

-----------------------------------------------------------------------------
\* The pool before any driver is registered satisfies the invariant.
LEMMA InitPool == Init => PoolInv
<1> SUFFICES ASSUME Init PROVE PoolInv
  OBVIOUS
<1> USE PoolAssumption DEF Init
<1>1. TypeOK
  BY DEF TypeOK, PCs, ReservePCs, ReleasePCs, InitPCs, DeinitPCs
<1>2. MutexHeld /\ MarkedIsFree
  BY DEF MutexHeld, MarkedIsFree, Critical
<1>3. HadIsReserved /\ HadOnce
  BY DEF HadIsReserved, HadOnce, Has, InTransit
<1> QED BY <1>1, <1>2, <1>3 DEF PoolInv, HandsInv

\* The list of a walk stays a list of drivers when its element n is cut out.
LEMMA CutType ==
    ASSUME NEW s \in Seq(Drivers), NEW n \in Nat \ {0}, n <= Len(s)
    PROVE  SubSeq(s, 1, n - 1) \o SubSeq(s, n + 1, Len(s)) \in Seq(Drivers)
<1>1. SubSeq(s, 1, n - 1) \in Seq(Drivers) /\ SubSeq(s, n + 1, Len(s)) \in Seq(Drivers)
  <2>1. \A i \in 1 .. n - 1 : s[i] \in Drivers
    BY LenProperties, ElementOfSeq
  <2>2. \A i \in n + 1 .. Len(s) : s[i] \in Drivers
    BY LenProperties, ElementOfSeq
  <2> QED BY <2>1, <2>2, SubSeqProperties, LenProperties
<1> QED BY <1>1, ConcatProperties

\* Every locked section of the pool functions keeps the types.
LEMMA TypeStep == PoolInv /\ [Next]_vars => TypeOK'
<1> SUFFICES ASSUME PoolInv, [Next]_vars PROVE TypeOK'
  OBVIOUS
<1> USE PoolAssumption DEF PoolInv, TypeOK, PCs, ReservePCs, ReleasePCs,
                           InitPCs, DeinitPCs, Goto, Enter, Lock, Unlock, Take, Give
<1>1. CASE UNCHANGED vars
  BY <1>1 DEF vars
<1>2. ASSUME NEW t \in Threads, ApiCall(t) PROVE TypeOK'
  <2>1. ASSUME NEW d \in Drivers, InitCall(t, d) PROVE TypeOK'
    BY <2>1 DEF InitCall
  <2>2. ASSUME NEW d \in Drivers, DeinitCall(t, d) PROVE TypeOK'
    BY <2>2 DEF DeinitCall
  <2>3. ASSUME NEW d \in Drivers, ReleaseCall(t, d) PROVE TypeOK'
    BY <2>3 DEF ReleaseCall
  <2>4. CASE ReserveCall(t)
    BY <2>4 DEF ReserveCall
  <2> QED BY <1>2, <2>1, <2>2, <2>3, <2>4 DEF ApiCall
<1>3. ASSUME NEW t \in Threads, ThreadStep(t) PROVE TypeOK'
  <2>1. CASE RegisterLock(t)
    BY <2>1 DEF RegisterLock
  <2>2. CASE RegisterLink(t)
    <3>1. <<drv[t]>> \o list \in Seq(Drivers)
      BY ConcatProperties
    <3> QED BY <2>2, <3>1 DEF RegisterLink
  <2>3. CASE RegisterUnlock(t)
    BY <2>3 DEF RegisterUnlock
  <2>4. CASE RegisterGive(t)
    BY <2>4 DEF RegisterGive
  <2>5. CASE DeregisterLock(t)
    BY <2>5 DEF DeregisterLock
  <2>6. CASE DeregisterNext(t)
    BY <2>6 DEF DeregisterNext
  <2>7. CASE DeregisterNone(t)
    BY <2>7 DEF DeregisterNone
  <2>8. CASE DeregisterUnlink(t)
    <3>1. list' \in Seq(Drivers)
      BY <2>8, CutType DEF DeregisterUnlink
    <3> QED BY <2>8, <3>1 DEF DeregisterUnlink
  <2>9. CASE DeregisterTake(t)
    BY <2>9 DEF DeregisterTake
  <2>10. CASE DeregisterUnlock(t)
    BY <2>10 DEF DeregisterUnlock
  <2>11. CASE ReserveTake(t)
    BY <2>11 DEF ReserveTake
  <2>12. CASE ReserveLock(t)
    BY <2>12 DEF ReserveLock
  <2>13. CASE ReserveNext(t)
    BY <2>13 DEF ReserveNext
  <2>14. CASE ReserveFound(t)
    <3>1. list[at[t]] \in Drivers
      BY <2>14, LenProperties, ElementOfSeq DEF ReserveFound
    <3> QED BY <2>14, <3>1 DEF ReserveFound
  <2>15. CASE ReserveNone(t)
    BY <2>15 DEF ReserveNone
  <2>16. CASE ReserveMark(t)
    BY <2>16 DEF ReserveMark
  <2>17. CASE ReserveUnlock(t)
    BY <2>17 DEF ReserveUnlock
  <2>18. CASE ReleaseLock(t)
    BY <2>18 DEF ReleaseLock
  <2>19. CASE ReleaseTest(t)
    BY <2>19 DEF ReleaseTest
  <2>20. CASE ReleaseGive(t)
    BY <2>20 DEF ReleaseGive
  <2>21. CASE ReleaseUnlock(t)
    BY <2>21 DEF ReleaseUnlock
  <2>22. CASE InitFails(t)
    <3>1. jsem' \in [Drivers -> {"null", "semaphore", "dangling"}]
      BY <2>22 DEF InitFails
    <3> QED BY <2>22, <3>1 DEF InitFails
  <2>23. CASE InitSetsUp(t)
    BY <2>23 DEF InitSetsUp
  <2>24. CASE DestroySemaphore(t)
    BY <2>24 DEF DestroySemaphore
  <2> QED
    BY <1>3, <2>1, <2>2, <2>3, <2>4, <2>5, <2>6, <2>7, <2>8, <2>9, <2>10, <2>11,
       <2>12, <2>13, <2>14, <2>15, <2>16, <2>17, <2>18, <2>19, <2>20, <2>21,
       <2>22, <2>23, <2>24
       DEF ThreadStep
<1> QED BY <1>1, <1>2, <1>3 DEF Next

\* Every step keeps each reserved driver in the hands of one thread.
LEMMA HandsStep == PoolInv /\ [Next]_vars => HandsInv'
<1> SUFFICES ASSUME PoolInv, [Next]_vars PROVE HandsInv'
  OBVIOUS
<1> USE PoolAssumption DEF PoolInv, TypeOK, Critical, Has, InTransit, HandsInv, MutexHeld,
        MarkedIsFree, HadIsReserved, HadOnce, Goto, Enter, Lock, Unlock, Take, Give
<1>1. CASE UNCHANGED vars
  BY <1>1 DEF vars
<1>2. ASSUME NEW t \in Threads, ApiCall(t) PROVE HandsInv'
  <2>1. ASSUME NEW d \in Drivers, InitCall(t, d) PROVE HandsInv'
    BY <2>1 DEF InitCall
  <2>2. ASSUME NEW d \in Drivers, DeinitCall(t, d) PROVE HandsInv'
    BY <2>2 DEF DeinitCall
  <2>3. ASSUME NEW d \in Drivers, ReleaseCall(t, d) PROVE HandsInv'
    BY <2>3 DEF ReleaseCall
  <2>4. CASE ReserveCall(t)
    BY <2>4 DEF ReserveCall
  <2> QED BY <1>2, <2>1, <2>2, <2>3, <2>4 DEF ApiCall
<1>3. ASSUME NEW t \in Threads, ThreadStep(t) PROVE HandsInv'
  <2>1. CASE RegisterLock(t)
    BY <2>1 DEF RegisterLock
  <2>2. CASE RegisterLink(t)
    BY <2>2 DEF RegisterLink
  <2>3. CASE RegisterUnlock(t)
    BY <2>3 DEF RegisterUnlock
  <2>4. CASE RegisterGive(t)
    BY <2>4 DEF RegisterGive
  <2>5. CASE DeregisterLock(t)
    BY <2>5 DEF DeregisterLock
  <2>6. CASE DeregisterNext(t)
    BY <2>6 DEF DeregisterNext
  <2>7. CASE DeregisterNone(t)
    BY <2>7 DEF DeregisterNone
  <2>8. CASE DeregisterUnlink(t)
    BY <2>8 DEF DeregisterUnlink
  <2>9. CASE DeregisterTake(t)
    BY <2>9 DEF DeregisterTake
  <2>10. CASE DeregisterUnlock(t)
    BY <2>10 DEF DeregisterUnlock
  <2>11. CASE ReserveTake(t)
    BY <2>11 DEF ReserveTake
  <2>12. CASE ReserveLock(t)
    BY <2>12 DEF ReserveLock
  <2>13. CASE ReserveNext(t)
    BY <2>13 DEF ReserveNext
  <2>14. CASE ReserveFound(t)
    BY <2>14 DEF ReserveFound
  <2>15. CASE ReserveNone(t)
    BY <2>15 DEF ReserveNone
  <2>16. CASE ReserveMark(t)
    BY <2>16 DEF ReserveMark
  <2>17. CASE ReserveUnlock(t)
    BY <2>17 DEF ReserveUnlock
  <2>18. CASE ReleaseLock(t)
    BY <2>18 DEF ReleaseLock
  <2>19. CASE ReleaseTest(t)
    BY <2>19 DEF ReleaseTest
  <2>20. CASE ReleaseGive(t)
    BY <2>20 DEF ReleaseGive
  <2>21. CASE ReleaseUnlock(t)
    BY <2>21 DEF ReleaseUnlock
  <2>22. CASE InitFails(t)
    BY <2>22 DEF InitFails
  <2>23. CASE InitSetsUp(t)
    BY <2>23 DEF InitSetsUp
  <2>24. CASE DestroySemaphore(t)
    BY <2>24 DEF DestroySemaphore
  <2> QED
    BY <1>3, <2>1, <2>2, <2>3, <2>4, <2>5, <2>6, <2>7, <2>8, <2>9,
       <2>10, <2>11, <2>12, <2>13, <2>14, <2>15, <2>16, <2>17, <2>18, <2>19, <2>20, <2>21,
       <2>22, <2>23, <2>24
       DEF ThreadStep
<1> QED BY <1>1, <1>2, <1>3 DEF Next

\* Types and hands hold for any number of threads and drivers.
THEOREM PoolInvariant == Spec => []PoolInv
<1>1. PoolInv /\ [Next]_vars => PoolInv'
  BY TypeStep, HandsStep DEF PoolInv
<1> QED BY <1>1, InitPool, PTL DEF Spec

-----------------------------------------------------------------------------
\* Type correctness: in particular the cursors of the walks and the cutting of
\* the list by ethosu_deregister_driver stay within the list.
THEOREM PoolTypeCorrect == Spec => []TypeOK
<1>1. PoolInv => TypeOK
  BY DEF PoolInv
<1> QED BY <1>1, PoolInvariant, PTL

\* No two threads own the same driver, whatever they call: what
\* ethosu_reserve_driver hands out is nobody else's.
THEOREM DriverHasOneOwner == Spec => []OwnershipExclusive
<1>1. PoolInv => OwnershipExclusive
  <2> SUFFICES ASSUME PoolInv, NEW t \in Threads, NEW u \in Threads, t # u
               PROVE  owns[t] \cap owns[u] = {}
    BY DEF OwnershipExclusive
  <2>1. owns[t] \subseteq Drivers
    BY DEF PoolInv, TypeOK
  <2>2. \A d \in Drivers : ~(d \in owns[t] /\ d \in owns[u])
    BY DEF PoolInv, HandsInv, HadOnce, Has
  <2> QED BY <2>1, <2>2
<1> QED BY <1>1, PoolInvariant, PTL
=============================================================================
