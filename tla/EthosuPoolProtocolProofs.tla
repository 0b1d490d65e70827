---------------------- MODULE EthosuPoolProtocolProofs ----------------------
(***************************************************************************)
(* For applications that deinitialise a driver only while nobody uses or   *)
(* reserves one: tokens match free drivers, a reserve finds a driver and   *)
(* blocks only if there is none, drivers in reach have their semaphores,   *)
(* and the pool implements DriverPool, for every number of threads and     *)
(* drivers.                                                                *)
(***************************************************************************)
EXTENDS EthosuPoolProofs, FiniteSetTheorems

\* Applications that deinitialise only drivers nobody uses, while nobody
\* reserves; handles come zeroed, and the global semaphore can count them.
KeepsPoolProtocol ==
    /\ "deinit_any_time" \notin Calls /\ "deinit_any" \notin Calls
    /\ ReservedBefore \subseteq {FALSE}
    /\ Cardinality(Drivers) <= SemMax

-----------------------------------------------------------------------------
\* A driver is in the list once, set up, and with its semaphore.
ListOnce == \A i, j \in 1..Len(list) : list[i] = list[j] => i = j

ListInv ==
    /\ Listed \subseteq live
    /\ \A d \in live : jsem[d] = "semaphore"

\* One thread at a time sets a driver up or takes it down, and knows of it
\* whether it is set up and in the list.
SettledInv ==
    /\ \A t, u \in Threads :
        /\ pc[t] \in InitPCs \cup DeinitPCs /\ pc[u] \in InitPCs \cup DeinitPCs
        /\ drv[t] = drv[u]
        => t = u
    /\ \A t \in Threads :
        /\ pc[t] = "init_dev" => drv[t] \notin live
        /\ pc[t] \in {"reg_lock", "reg_link"} \cup DeinitPCs => drv[t] \in live
        /\ pc[t] \in {"reg_lock", "reg_link", "der_take", "der_unlock", "der_free"} =>
            drv[t] \notin Listed

\* Nobody reserves a driver while one is taken down, and that one is unused.
QuietInv ==
    \A t, u \in Threads : pc[u] \in DeinitPCs =>
        /\ pc[t] \notin ReservePCs
        /\ \A d \in Drivers : d = drv[u] => ~Has(t, d)

\* Reserved drivers are those that threads have, and in the list.
HadInv ==
    /\ \A d \in Drivers : reserved[d] => \E t \in Threads : Has(t, d)
    /\ \A t \in Threads, d \in Drivers : Has(t, d) => d \in Listed

\* What a walk along the list has passed.
WalkInv ==
    \A t \in Threads :
        /\ pc[t] = "res_test" => \A i \in 1..Len(list) : i < at[t] => reserved[list[i]]
        /\ pc[t] = "der_find" => \A i \in 1..Len(list) : i < at[t] => list[i] # drv[t]
        /\ pc[t] = "res_mark" => drv[t] \in Listed

PlaceInv == ListOnce /\ ListInv /\ SettledInv /\ QuietInv /\ HadInv /\ WalkInv

\* The tokens that threads hold, those still to be given, and the drivers off
\* the list before their token is taken.
Taken == {"res_lock", "res_test", "res_mark"}
Owed  == {"reg_unlock", "reg_give", "rel_give"}
Due   == {"der_take"}

TakenCount == Cardinality(At(Taken))
OwedCount  == Cardinality(At(Owed))
DueCount   == Cardinality(At(Due))
FreeCount  == Cardinality(FreeDrivers)

\* TokensMatchDrivers in these terms.
Balanced == gsem + TakenCount + OwedCount = FreeCount + DueCount

\* The inductive invariant.
TokenInv == PoolInv /\ PlaceInv /\ Balanced

-----------------------------------------------------------------------------
(* The list.                                                               *)

\* A step that leaves the list alone.
LEMMA ListedSame == UNCHANGED list => UNCHANGED Listed /\ (ListOnce => ListOnce')
BY DEF Listed, ListOnce

\* What the list holds are drivers.
LEMMA ListedDrivers == TypeOK => Listed \subseteq Drivers
BY LenProperties, ElementOfSeq DEF Listed, TypeOK

\* ethosu_register_driver puts one driver in front.
LEMMA LinkAdds ==
    ASSUME TypeOK, NEW t \in Threads, RegisterLink(t)
    PROVE  /\ Listed' = Listed \cup {drv[t]}
           /\ ListOnce /\ drv[t] \notin Listed => ListOnce'
<1> DEFINE one == <<drv[t]>>
<1>1. list' = one \o list /\ one \in Seq(Drivers) /\ list \in Seq(Drivers)
      /\ Len(one) = 1 /\ one[1] = drv[t] /\ Len(list) \in Nat
  BY LenProperties DEF RegisterLink, TypeOK
<1> HIDE DEF one
<1>2. Len(list') = Len(list) + 1 /\ list'[1] = drv[t]
      /\ \A i \in 1..Len(list) : list'[i + 1] = list[i]
  <2>1. Len(list') = Len(one) + Len(list)
        /\ \A i \in 1 .. Len(one) + Len(list) :
             list'[i] = IF i <= Len(one) THEN one[i] ELSE list[i - Len(one)]
    BY <1>1, ConcatProperties
  <2> QED BY <1>1, <2>1
<1>3. \A i \in 1..Len(list') : i = 1 \/ (i - 1 \in 1..Len(list) /\ list'[i] = list[i - 1])
  BY <1>1, <1>2
<1>4. Listed' = Listed \cup {drv[t]}
  <2>1. Listed' \subseteq Listed \cup {drv[t]}
    BY <1>2, <1>3 DEF Listed
  <2>2. drv[t] \in Listed'
    BY <1>1, <1>2 DEF Listed
  <2>3. Listed \subseteq Listed'
    <3> SUFFICES ASSUME NEW i \in 1..Len(list) PROVE list[i] \in Listed'
      BY DEF Listed
    <3>1. i + 1 \in 1..Len(list') /\ list'[i + 1] = list[i]
      BY <1>1, <1>2
    <3> QED BY <3>1 DEF Listed
  <2> QED BY <2>1, <2>2, <2>3
<1>5. ASSUME ListOnce, drv[t] \notin Listed PROVE ListOnce'
  BY <1>1, <1>2, <1>3, <1>5 DEF ListOnce, Listed
<1> QED BY <1>4, <1>5

\* ethosu_deregister_driver cuts one driver out.
LEMMA UnlinkRemoves ==
    ASSUME TypeOK, ListOnce, NEW t \in Threads, DeregisterUnlink(t)
    PROVE  Listed' = Listed \ {drv[t]} /\ ListOnce' /\ drv[t] \in Listed
<1> DEFINE n == at[t]
           front == SubSeq(list, 1, n - 1)
           back == SubSeq(list, n + 1, Len(list))
<1>1. n \in Nat \ {0} /\ n <= Len(list) /\ list[n] = drv[t] /\ list' = front \o back
      /\ list \in Seq(Drivers) /\ Len(list) \in Nat
  BY LenProperties DEF DeregisterUnlink, TypeOK
<1>2. front \in Seq(Drivers) /\ Len(front) = n - 1
      /\ \A i \in 1 .. n - 1 : front[i] = list[i]
  <2>1. \A i \in 1 .. n - 1 : list[i] \in Drivers
    BY <1>1, ElementOfSeq
  <2> QED BY <1>1, <2>1, SubSeqProperties
<1>3. back \in Seq(Drivers) /\ Len(back) = Len(list) - n
      /\ \A i \in 1 .. Len(list) - n : back[i] = list[n + i]
  <2>1. \A i \in n + 1 .. Len(list) : list[i] \in Drivers
    BY <1>1, ElementOfSeq
  <2> QED BY <1>1, <2>1, SubSeqProperties
<1> HIDE DEF front, back, n
<1>4. Len(list') = Len(list) - 1
      /\ \A i \in 1 .. Len(list) - 1 : list'[i] = IF i < n THEN list[i] ELSE list[i + 1]
  <2>1. Len(list') = Len(front) + Len(back)
        /\ \A i \in 1 .. Len(front) + Len(back) :
             list'[i] = IF i <= Len(front) THEN front[i] ELSE back[i - Len(front)]
    BY <1>1, <1>2, <1>3, ConcatProperties
  <2>2. ASSUME NEW i \in 1 .. Len(list) - 1, i < n PROVE list'[i] = list[i]
    BY <1>1, <1>2, <1>3, <2>1, <2>2
  <2>3. ASSUME NEW i \in 1 .. Len(list) - 1, ~(i < n) PROVE list'[i] = list[i + 1]
    <3>1. list'[i] = back[i - (n - 1)]
      BY <1>1, <1>2, <1>3, <2>1, <2>3
    <3>2. i - (n - 1) \in 1 .. Len(list) - n /\ n + (i - (n - 1)) = i + 1
      BY <1>1, <2>3
    <3> QED BY <1>3, <3>1, <3>2
  <2> QED BY <1>1, <1>2, <1>3, <2>1, <2>2, <2>3
<1>5. \A i \in 1..Len(list') : \E j \in 1..Len(list) : j # n /\ list'[i] = list[j]
                                                     /\ j = IF i < n THEN i ELSE i + 1
  BY <1>1, <1>4
<1>6. Listed' \subseteq Listed \ {drv[t]}
  <2> SUFFICES ASSUME NEW i \in 1..Len(list') PROVE list'[i] \in Listed \ {drv[t]}
    BY DEF Listed
  <2>1. PICK j \in 1..Len(list) : j # n /\ list'[i] = list[j]
    BY <1>5
  <2>2. list[j] # list[n]
    BY <1>1, <2>1 DEF ListOnce
  <2> QED BY <1>1, <2>1, <2>2 DEF Listed
<1>7. Listed \ {drv[t]} \subseteq Listed'
  <2> SUFFICES ASSUME NEW j \in 1..Len(list), list[j] # drv[t] PROVE list[j] \in Listed'
    BY DEF Listed
  <2>1. j < n \/ j > n
    BY <1>1
  <2>2. CASE j < n
    <3>1. j \in 1..Len(list') /\ list'[j] = list[j]
      BY <1>1, <1>4, <2>2
    <3> QED BY <3>1 DEF Listed
  <2>3. CASE j > n
    <3>1. j - 1 \in 1..Len(list') /\ list'[j - 1] = list[j]
      BY <1>1, <1>4, <2>3
    <3> QED BY <3>1 DEF Listed
  <2> QED BY <2>1, <2>2, <2>3
<1>8. ListOnce'
  BY <1>1, <1>4, <1>5 DEF ListOnce
<1>9. drv[t] \in Listed
  BY <1>1 DEF Listed
<1> QED BY <1>6, <1>7, <1>8, <1>9

-----------------------------------------------------------------------------
(* Hands.                                                                  *)

HandsKept == \A u \in Threads, e \in Drivers : Has(u, e)' <=> Has(u, e)

\* What a step does to the list, the flags, and who has what.
HandsChange ==
    \/ UNCHANGED <<list, reserved>> /\ HandsKept
    \/ \E t \in Threads :
        \/ (RegisterLink(t) \/ DeregisterUnlink(t)) /\ HandsKept
        \/ ReserveMark(t) /\ \A u \in Threads, e \in Drivers :
                                Has(u, e)' <=> Has(u, e) \/ (u = t /\ e = drv[t])
        \/ ReleaseTest(t) /\ Has(t, drv[t])
           /\ \A u \in Threads, e \in Drivers :
                Has(u, e)' <=> Has(u, e) /\ ~(u = t /\ e = drv[t])

\* Each step is one of these.
LEMMA HandsChangeStep == PoolInv /\ [Next]_vars => HandsChange
<1> SUFFICES ASSUME PoolInv, [Next]_vars PROVE HandsChange
  OBVIOUS
<1> USE PoolAssumption
        DEF PoolInv, TypeOK, HandsChange, Goto, Enter
<1>1. CASE UNCHANGED vars
  BY <1>1 DEF vars, HandsKept, Has, InTransit
<1>2. ASSUME NEW t \in Threads, ApiCall(t) PROVE HandsChange
  <2>1. ASSUME NEW d \in Drivers, InitCall(t, d) PROVE HandsChange
    BY <2>1 DEF InitCall, HandsKept, Has, InTransit
  <2>2. ASSUME NEW d \in Drivers, DeinitCall(t, d) PROVE HandsChange
    BY <2>2 DEF DeinitCall, HandsKept, Has, InTransit
  <2>3. ASSUME NEW d \in Drivers, ReleaseCall(t, d) PROVE HandsChange
    BY <2>3 DEF ReleaseCall, HandsKept, Has, InTransit
  <2>4. CASE ReserveCall(t)
    BY <2>4 DEF ReserveCall, HandsKept, Has, InTransit
  <2> QED BY <1>2, <2>1, <2>2, <2>3, <2>4 DEF ApiCall
<1>3. ASSUME NEW t \in Threads, ThreadStep(t) PROVE HandsChange
  <2>1. CASE InitFails(t)
    BY <2>1 DEF InitFails, HandsKept, Has, InTransit
  <2>2. CASE InitSetsUp(t)
    BY <2>2 DEF InitSetsUp, HandsKept, Has, InTransit
  <2>3. CASE RegisterLock(t)
    BY <2>3 DEF RegisterLock, HandsKept, Has, InTransit
  <2>4. CASE RegisterLink(t)
    <3>1. \A u \in Threads, e \in Drivers : Has(u, e)' <=> Has(u, e)
      BY <2>4 DEF RegisterLink, Has, InTransit
    <3> QED BY <2>4, <3>1 DEF HandsKept
  <2>5. CASE RegisterUnlock(t)
    BY <2>5 DEF RegisterUnlock, HandsKept, Has, InTransit
  <2>6. CASE RegisterGive(t)
    BY <2>6 DEF RegisterGive, HandsKept, Has, InTransit
  <2>7. CASE DeregisterLock(t)
    BY <2>7 DEF DeregisterLock, HandsKept, Has, InTransit
  <2>8. CASE DeregisterNext(t)
    BY <2>8 DEF DeregisterNext, HandsKept, Has, InTransit
  <2>9. CASE DeregisterNone(t)
    BY <2>9 DEF DeregisterNone, HandsKept, Has, InTransit
  <2>10. CASE DeregisterUnlink(t)
    <3>1. \A u \in Threads, e \in Drivers : Has(u, e)' <=> Has(u, e)
      BY <2>10 DEF DeregisterUnlink, Has, InTransit
    <3> QED BY <2>10, <3>1 DEF HandsKept
  <2>11. CASE DeregisterTake(t)
    BY <2>11 DEF DeregisterTake, HandsKept, Has, InTransit
  <2>12. CASE DeregisterUnlock(t)
    BY <2>12 DEF DeregisterUnlock, HandsKept, Has, InTransit
  <2>13. CASE DestroySemaphore(t)
    BY <2>13 DEF DestroySemaphore, HandsKept, Has, InTransit
  <2>14. CASE ReserveTake(t)
    BY <2>14 DEF ReserveTake, HandsKept, Has, InTransit
  <2>15. CASE ReserveLock(t)
    BY <2>15 DEF ReserveLock, HandsKept, Has, InTransit
  <2>16. CASE ReserveNext(t)
    BY <2>16 DEF ReserveNext, HandsKept, Has, InTransit
  <2>17. CASE ReserveFound(t)
    BY <2>17 DEF ReserveFound, HandsKept, Has, InTransit
  <2>18. CASE ReserveNone(t)
    BY <2>18 DEF ReserveNone, HandsKept, Has, InTransit
  <2>19. CASE ReserveMark(t)
    <3>1. \A u \in Threads, e \in Drivers : Has(u, e)' <=> Has(u, e) \/ (u = t
          /\ e = drv[t])
      BY <2>19 DEF ReserveMark, Has, InTransit
    <3> QED BY <2>19, <3>1 DEF HandsKept
  <2>20. CASE ReserveUnlock(t)
    BY <2>20 DEF ReserveUnlock, HandsKept, Has, InTransit
  <2>21. CASE ReleaseLock(t)
    BY <2>21 DEF ReleaseLock, HandsKept, Has, InTransit
  <2>22. CASE ReleaseTest(t)
    <3>1. Has(t, drv[t]) /\ ~(drv[t] \in owns[t])
          /\ \A u \in Threads : Has(u, drv[t]) => u = t
      BY <2>22 DEF ReleaseTest, HandsInv, HadOnce, Has, InTransit
    <3>2. \A u \in Threads, e \in Drivers : Has(u, e)' <=> Has(u, e) /\ ~(u = t
          /\ e = drv[t])
      BY <2>22, <3>1 DEF ReleaseTest, Has, InTransit
    <3> QED BY <2>22, <3>1, <3>2
  <2>23. CASE ReleaseGive(t)
    BY <2>23 DEF ReleaseGive, HandsKept, Has, InTransit
  <2>24. CASE ReleaseUnlock(t)
    BY <2>24 DEF ReleaseUnlock, HandsKept, Has, InTransit
  <2> QED
    BY <1>3, <2>1, <2>2, <2>3, <2>4, <2>5, <2>6, <2>7, <2>8, <2>9, <2>10, <2>11, <2>12,
       <2>13, <2>14, <2>15, <2>16, <2>17, <2>18, <2>19, <2>20, <2>21, <2>22, <2>23, <2>24
       DEF ThreadStep
<1> QED BY <1>1, <1>2, <1>3 DEF Next

\* No driver comes into the list twice.
LEMMA OnceStep == TokenInv /\ [Next]_vars => ListOnce'
<1> SUFFICES ASSUME TokenInv, [Next]_vars PROVE ListOnce'
  OBVIOUS
<1>0. TypeOK /\ PoolInv /\ ListOnce /\ SettledInv /\ HandsChange
  BY HandsChangeStep DEF TokenInv, PlaceInv, PoolInv
<1>1. CASE UNCHANGED <<list, reserved>>
  BY <1>0, <1>1, ListedSame
<1>2. ASSUME NEW t \in Threads, RegisterLink(t) PROVE ListOnce'
  <2>1. drv[t] \notin Listed
    BY <1>0, <1>2 DEF RegisterLink, SettledInv
  <2> QED BY <1>0, <1>2, <2>1, LinkAdds
<1>3. ASSUME NEW t \in Threads, DeregisterUnlink(t) PROVE ListOnce'
  BY <1>0, <1>3, UnlinkRemoves
<1>4. ASSUME NEW t \in Threads, ReserveMark(t) \/ ReleaseTest(t) PROVE ListOnce'
  BY <1>0, <1>4, ListedSame DEF ReserveMark, ReleaseTest
<1> QED BY <1>0, <1>1, <1>2, <1>3, <1>4 DEF HandsChange

\* What the list holds stays set up.
LEMMA ListStep == KeepsPoolProtocol /\ TokenInv /\ [Next]_vars => ListInv'
<1> SUFFICES ASSUME KeepsPoolProtocol, TokenInv, [Next]_vars PROVE ListInv'
  OBVIOUS
<1> USE ListedSame
        DEF TokenInv, PlaceInv, PoolInv, TypeOK, ListInv, SettledInv, KeepsPoolProtocol,
           Goto, Enter,
            InitPCs, DeinitPCs
<1>1. CASE UNCHANGED vars
  BY <1>1 DEF vars
<1>2. ASSUME NEW t \in Threads, ApiCall(t) PROVE ListInv'
  <2>1. ASSUME NEW d \in Drivers, InitCall(t, d) PROVE ListInv'
    BY <2>1 DEF InitCall
  <2>2. ASSUME NEW d \in Drivers, DeinitCall(t, d) PROVE ListInv'
    BY <2>2 DEF DeinitCall
  <2>3. ASSUME NEW d \in Drivers, ReleaseCall(t, d) PROVE ListInv'
    BY <2>3 DEF ReleaseCall
  <2>4. CASE ReserveCall(t)
    BY <2>4 DEF ReserveCall
  <2> QED BY <1>2, <2>1, <2>2, <2>3, <2>4 DEF ApiCall
<1>3. ASSUME NEW t \in Threads, ThreadStep(t) PROVE ListInv'
  <2>1. CASE InitFails(t)
    BY <2>1 DEF InitFails
  <2>2. CASE InitSetsUp(t)
    BY <2>2 DEF InitSetsUp
  <2>3. CASE RegisterLock(t)
    BY <2>3 DEF RegisterLock
  <2>4. CASE RegisterLink(t)
    <3>1. Listed' = Listed \cup {drv[t]}
      BY <2>4, LinkAdds
    <3> QED BY <2>4, <3>1 DEF RegisterLink
  <2>5. CASE RegisterUnlock(t)
    BY <2>5 DEF RegisterUnlock
  <2>6. CASE RegisterGive(t)
    BY <2>6 DEF RegisterGive
  <2>7. CASE DeregisterLock(t)
    BY <2>7 DEF DeregisterLock
  <2>8. CASE DeregisterNext(t)
    BY <2>8 DEF DeregisterNext
  <2>9. CASE DeregisterNone(t)
    BY <2>9 DEF DeregisterNone
  <2>10. CASE DeregisterUnlink(t)
    <3>1. Listed' = Listed \ {drv[t]}
      BY <2>10, UnlinkRemoves
    <3>2. pc[t] = "der_find" /\ pc' = [pc EXCEPT ![t] = "der_take"]
          /\ UNCHANGED <<drv, at, live, reserved, jsem>>
      BY <2>10 DEF DeregisterUnlink
    <3> QED BY <3>1, <3>2
  <2>11. CASE DeregisterTake(t)
    BY <2>11 DEF DeregisterTake
  <2>12. CASE DeregisterUnlock(t)
    BY <2>12 DEF DeregisterUnlock
  <2>13. CASE DestroySemaphore(t)
    BY <2>13 DEF DestroySemaphore
  <2>14. CASE ReserveTake(t)
    BY <2>14 DEF ReserveTake
  <2>15. CASE ReserveLock(t)
    BY <2>15 DEF ReserveLock
  <2>16. CASE ReserveNext(t)
    BY <2>16 DEF ReserveNext
  <2>17. CASE ReserveFound(t)
    BY <2>17 DEF ReserveFound
  <2>18. CASE ReserveNone(t)
    BY <2>18 DEF ReserveNone
  <2>19. CASE ReserveMark(t)
    BY <2>19 DEF ReserveMark
  <2>20. CASE ReserveUnlock(t)
    BY <2>20 DEF ReserveUnlock
  <2>21. CASE ReleaseLock(t)
    BY <2>21 DEF ReleaseLock
  <2>22. CASE ReleaseTest(t)
    BY <2>22 DEF ReleaseTest
  <2>23. CASE ReleaseGive(t)
    BY <2>23 DEF ReleaseGive
  <2>24. CASE ReleaseUnlock(t)
    BY <2>24 DEF ReleaseUnlock
  <2> QED
    BY <1>3, <2>1, <2>2, <2>3, <2>4, <2>5, <2>6, <2>7, <2>8, <2>9, <2>10, <2>11, <2>12,
       <2>13, <2>14, <2>15, <2>16, <2>17, <2>18, <2>19, <2>20, <2>21, <2>22, <2>23, <2>24
       DEF ThreadStep
<1> QED BY <1>1, <1>2, <1>3 DEF Next

\* Each driver is set up or taken down by one thread.
LEMMA SettledStep == KeepsPoolProtocol /\ TokenInv /\ [Next]_vars => SettledInv'
<1> SUFFICES ASSUME KeepsPoolProtocol, TokenInv, [Next]_vars PROVE SettledInv'
  OBVIOUS
<1> USE ListedSame
        DEF TokenInv, PlaceInv, PoolInv, TypeOK, ListInv, SettledInv, WalkInv,
           KeepsPoolProtocol,
            Goto, Enter, Settled, Unused, InitPCs, DeinitPCs
<1>1. CASE UNCHANGED vars
  BY <1>1 DEF vars
<1>2. ASSUME NEW t \in Threads, ApiCall(t) PROVE SettledInv'
  <2>1. ASSUME NEW d \in Drivers, InitCall(t, d) PROVE SettledInv'
    BY <2>1 DEF InitCall
  <2>2. ASSUME NEW d \in Drivers, DeinitCall(t, d) PROVE SettledInv'
    BY <2>2 DEF DeinitCall
  <2>3. ASSUME NEW d \in Drivers, ReleaseCall(t, d) PROVE SettledInv'
    BY <2>3 DEF ReleaseCall
  <2>4. CASE ReserveCall(t)
    BY <2>4 DEF ReserveCall
  <2> QED BY <1>2, <2>1, <2>2, <2>3, <2>4 DEF ApiCall
<1>3. ASSUME NEW t \in Threads, ThreadStep(t) PROVE SettledInv'
  <2>1. CASE InitFails(t)
    BY <2>1 DEF InitFails
  <2>2. CASE InitSetsUp(t)
    BY <2>2 DEF InitSetsUp
  <2>3. CASE RegisterLock(t)
    BY <2>3 DEF RegisterLock
  <2>4. CASE RegisterLink(t)
    <3>1. Listed' = Listed \cup {drv[t]}
      BY <2>4, LinkAdds
    <3> QED BY <2>4, <3>1 DEF RegisterLink
  <2>5. CASE RegisterUnlock(t)
    BY <2>5 DEF RegisterUnlock
  <2>6. CASE RegisterGive(t)
    BY <2>6 DEF RegisterGive
  <2>7. CASE DeregisterLock(t)
    BY <2>7 DEF DeregisterLock
  <2>8. CASE DeregisterNext(t)
    BY <2>8 DEF DeregisterNext
  <2>9. CASE DeregisterNone(t)
    <3>1. drv[t] \notin Listed
      BY <2>9, LenProperties DEF DeregisterNone, Listed
    <3> QED BY <2>9, <3>1 DEF DeregisterNone
  <2>10. CASE DeregisterUnlink(t)
    <3>1. Listed' = Listed \ {drv[t]}
      BY <2>10, UnlinkRemoves
    <3>2. pc[t] = "der_find" /\ pc' = [pc EXCEPT ![t] = "der_take"]
          /\ UNCHANGED <<drv, at, live, reserved, jsem>>
      BY <2>10 DEF DeregisterUnlink
    <3> QED BY <3>1, <3>2
  <2>11. CASE DeregisterTake(t)
    BY <2>11 DEF DeregisterTake
  <2>12. CASE DeregisterUnlock(t)
    BY <2>12 DEF DeregisterUnlock
  <2>13. CASE DestroySemaphore(t)
    BY <2>13 DEF DestroySemaphore
  <2>14. CASE ReserveTake(t)
    BY <2>14 DEF ReserveTake
  <2>15. CASE ReserveLock(t)
    BY <2>15 DEF ReserveLock
  <2>16. CASE ReserveNext(t)
    BY <2>16 DEF ReserveNext
  <2>17. CASE ReserveFound(t)
    BY <2>17 DEF ReserveFound
  <2>18. CASE ReserveNone(t)
    BY <2>18 DEF ReserveNone
  <2>19. CASE ReserveMark(t)
    BY <2>19 DEF ReserveMark
  <2>20. CASE ReserveUnlock(t)
    BY <2>20 DEF ReserveUnlock
  <2>21. CASE ReleaseLock(t)
    BY <2>21 DEF ReleaseLock
  <2>22. CASE ReleaseTest(t)
    BY <2>22 DEF ReleaseTest
  <2>23. CASE ReleaseGive(t)
    BY <2>23 DEF ReleaseGive
  <2>24. CASE ReleaseUnlock(t)
    BY <2>24 DEF ReleaseUnlock
  <2> QED
    BY <1>3, <2>1, <2>2, <2>3, <2>4, <2>5, <2>6, <2>7, <2>8, <2>9, <2>10, <2>11, <2>12,
       <2>13, <2>14, <2>15, <2>16, <2>17, <2>18, <2>19, <2>20, <2>21, <2>22, <2>23, <2>24
       DEF ThreadStep
<1> QED BY <1>1, <1>2, <1>3 DEF Next

\* Nothing is reserved while a driver is taken down.
LEMMA QuietStep == KeepsPoolProtocol /\ TokenInv /\ [Next]_vars => QuietInv'
<1> SUFFICES ASSUME KeepsPoolProtocol, TokenInv, [Next]_vars PROVE QuietInv'
  OBVIOUS
<1> USE PoolAssumption
        DEF TokenInv, PlaceInv, PoolInv, TypeOK, QuietInv, KeepsPoolProtocol, Has,
           InTransit,
            Goto, Enter, Unused, InitPCs, DeinitPCs, ReservePCs, ReleasePCs
<1>1. CASE UNCHANGED vars
  BY <1>1 DEF vars
<1>2. ASSUME NEW t \in Threads, ApiCall(t) PROVE QuietInv'
  <2>1. ASSUME NEW d \in Drivers, InitCall(t, d) PROVE QuietInv'
    BY <2>1 DEF InitCall
  <2>2. ASSUME NEW d \in Drivers, DeinitCall(t, d) PROVE QuietInv'
    BY <2>2 DEF DeinitCall
  <2>3. ASSUME NEW d \in Drivers, ReleaseCall(t, d) PROVE QuietInv'
    BY <2>3 DEF ReleaseCall
  <2>4. CASE ReserveCall(t)
    BY <2>4 DEF ReserveCall
  <2> QED BY <1>2, <2>1, <2>2, <2>3, <2>4 DEF ApiCall
<1>3. ASSUME NEW t \in Threads, ThreadStep(t) PROVE QuietInv'
  <2>1. CASE InitFails(t)
    BY <2>1 DEF InitFails
  <2>2. CASE InitSetsUp(t)
    BY <2>2 DEF InitSetsUp
  <2>3. CASE RegisterLock(t)
    BY <2>3 DEF RegisterLock
  <2>4. CASE RegisterLink(t)
    BY <2>4 DEF RegisterLink
  <2>5. CASE RegisterUnlock(t)
    BY <2>5 DEF RegisterUnlock
  <2>6. CASE RegisterGive(t)
    BY <2>6 DEF RegisterGive
  <2>7. CASE DeregisterLock(t)
    BY <2>7 DEF DeregisterLock
  <2>8. CASE DeregisterNext(t)
    BY <2>8 DEF DeregisterNext
  <2>9. CASE DeregisterNone(t)
    BY <2>9 DEF DeregisterNone
  <2>10. CASE DeregisterUnlink(t)
    BY <2>10 DEF DeregisterUnlink
  <2>11. CASE DeregisterTake(t)
    BY <2>11 DEF DeregisterTake
  <2>12. CASE DeregisterUnlock(t)
    BY <2>12 DEF DeregisterUnlock
  <2>13. CASE DestroySemaphore(t)
    BY <2>13 DEF DestroySemaphore
  <2>14. CASE ReserveTake(t)
    BY <2>14 DEF ReserveTake
  <2>15. CASE ReserveLock(t)
    BY <2>15 DEF ReserveLock
  <2>16. CASE ReserveNext(t)
    BY <2>16 DEF ReserveNext
  <2>17. CASE ReserveFound(t)
    BY <2>17 DEF ReserveFound
  <2>18. CASE ReserveNone(t)
    BY <2>18 DEF ReserveNone
  <2>19. CASE ReserveMark(t)
    BY <2>19 DEF ReserveMark
  <2>20. CASE ReserveUnlock(t)
    BY <2>20 DEF ReserveUnlock
  <2>21. CASE ReleaseLock(t)
    BY <2>21 DEF ReleaseLock
  <2>22. CASE ReleaseTest(t)
    BY <2>22 DEF ReleaseTest
  <2>23. CASE ReleaseGive(t)
    BY <2>23 DEF ReleaseGive
  <2>24. CASE ReleaseUnlock(t)
    BY <2>24 DEF ReleaseUnlock
  <2> QED
    BY <1>3, <2>1, <2>2, <2>3, <2>4, <2>5, <2>6, <2>7, <2>8, <2>9, <2>10, <2>11, <2>12,
       <2>13, <2>14, <2>15, <2>16, <2>17, <2>18, <2>19, <2>20, <2>21, <2>22, <2>23, <2>24
       DEF ThreadStep
<1> QED BY <1>1, <1>2, <1>3 DEF Next

\* Reserved drivers are had, and had ones are listed.
LEMMA HadStep == TokenInv /\ [Next]_vars => HadInv'
<1> SUFFICES ASSUME TokenInv, [Next]_vars PROVE HadInv'
  OBVIOUS
<1>0. TypeOK /\ PoolInv /\ ListOnce /\ HadInv /\ QuietInv /\ WalkInv /\ HandsChange
      /\ \A t \in Threads : drv[t] \in Drivers
  BY HandsChangeStep DEF TokenInv, PlaceInv, PoolInv, TypeOK
<1>1. CASE UNCHANGED <<list, reserved>> /\ HandsKept
  BY <1>0, <1>1, ListedSame DEF HandsKept, HadInv
<1>2. ASSUME NEW t \in Threads, RegisterLink(t), HandsKept PROVE HadInv'
  <2>1. Listed' = Listed \cup {drv[t]} /\ UNCHANGED reserved
    BY <1>0, <1>2, LinkAdds DEF RegisterLink
  <2> QED BY <1>0, <1>2, <2>1 DEF HandsKept, HadInv
<1>3. ASSUME NEW t \in Threads, DeregisterUnlink(t), HandsKept PROVE HadInv'
  <2>1. Listed' = Listed \ {drv[t]} /\ UNCHANGED reserved
    BY <1>0, <1>3, UnlinkRemoves DEF DeregisterUnlink
  <2>2. \A u \in Threads : ~Has(u, drv[t])
    BY <1>0, <1>3 DEF DeregisterUnlink, QuietInv, DeinitPCs
  <2> QED BY <1>0, <1>3, <2>1, <2>2 DEF HandsKept, HadInv
<1>4. ASSUME NEW t \in Threads, ReserveMark(t),
             \A u \in Threads, e \in Drivers :
                Has(u, e)' <=> Has(u, e) \/ (u = t /\ e = drv[t])
      PROVE  HadInv'
  <2>1. drv[t] \in Listed /\ Listed' = Listed
        /\ reserved' = [reserved EXCEPT ![drv[t]] = TRUE]
    BY <1>0, <1>4, ListedSame DEF ReserveMark, WalkInv
  <2> QED BY <1>0, <1>4, <2>1 DEF HadInv, TypeOK
<1>5. ASSUME NEW t \in Threads, ReleaseTest(t),
             \A u \in Threads, e \in Drivers :
                Has(u, e)' <=> Has(u, e) /\ ~(u = t /\ e = drv[t])
      PROVE  HadInv'
  <2>1. Listed' = Listed /\ reserved' = [reserved EXCEPT ![drv[t]] = FALSE]
    BY <1>0, <1>5, ListedSame DEF ReleaseTest
  <2> QED BY <1>0, <1>5, <2>1 DEF HadInv, TypeOK
<1> QED BY <1>0, <1>1, <1>2, <1>3, <1>4, <1>5 DEF HandsChange

\* The walks miss nothing: the mutex keeps list and flags still.
LEMMA WalkStep == KeepsPoolProtocol /\ TokenInv /\ [Next]_vars => WalkInv'
<1> SUFFICES ASSUME KeepsPoolProtocol, TokenInv, [Next]_vars PROVE WalkInv'
  OBVIOUS
<1> USE ListedSame
        DEF TokenInv, PlaceInv, PoolInv, TypeOK, HandsInv, MutexHeld, Critical, QuietInv,
           WalkInv, KeepsPoolProtocol,
            Goto, Enter, Lock, InitPCs, DeinitPCs, ReservePCs
<1>1. CASE UNCHANGED vars
  BY <1>1 DEF vars
<1>2. ASSUME NEW t \in Threads, ApiCall(t) PROVE WalkInv'
  <2>1. ASSUME NEW d \in Drivers, InitCall(t, d) PROVE WalkInv'
    BY <2>1 DEF InitCall
  <2>2. ASSUME NEW d \in Drivers, DeinitCall(t, d) PROVE WalkInv'
    BY <2>2 DEF DeinitCall
  <2>3. ASSUME NEW d \in Drivers, ReleaseCall(t, d) PROVE WalkInv'
    BY <2>3 DEF ReleaseCall
  <2>4. CASE ReserveCall(t)
    BY <2>4 DEF ReserveCall
  <2> QED BY <1>2, <2>1, <2>2, <2>3, <2>4 DEF ApiCall
<1>3. ASSUME NEW t \in Threads, ThreadStep(t) PROVE WalkInv'
  <2>1. CASE InitFails(t)
    BY <2>1 DEF InitFails
  <2>2. CASE InitSetsUp(t)
    BY <2>2 DEF InitSetsUp
  <2>3. CASE RegisterLock(t)
    BY <2>3 DEF RegisterLock
  <2>4. CASE RegisterLink(t)
    <3>1. Listed' = Listed \cup {drv[t]}
      BY <2>4, LinkAdds
    <3> QED BY <2>4, <3>1 DEF RegisterLink
  <2>5. CASE RegisterUnlock(t)
    BY <2>5 DEF RegisterUnlock
  <2>6. CASE RegisterGive(t)
    BY <2>6 DEF RegisterGive
  <2>7. CASE DeregisterLock(t)
    BY <2>7 DEF DeregisterLock
  <2>8. CASE DeregisterNext(t)
    BY <2>8 DEF DeregisterNext
  <2>9. CASE DeregisterNone(t)
    <3>1. drv[t] \notin Listed
      BY <2>9, LenProperties DEF DeregisterNone, Listed
    <3> QED BY <2>9, <3>1 DEF DeregisterNone
  <2>10. CASE DeregisterUnlink(t)
    <3>1. Listed' = Listed \ {drv[t]}
      BY <2>10, UnlinkRemoves
    <3>2. pc[t] = "der_find" /\ pc' = [pc EXCEPT ![t] = "der_take"]
          /\ UNCHANGED <<drv, at, live, reserved, jsem>>
      BY <2>10 DEF DeregisterUnlink
    <3> QED BY <3>1, <3>2
  <2>11. CASE DeregisterTake(t)
    BY <2>11 DEF DeregisterTake
  <2>12. CASE DeregisterUnlock(t)
    BY <2>12 DEF DeregisterUnlock
  <2>13. CASE DestroySemaphore(t)
    BY <2>13 DEF DestroySemaphore
  <2>14. CASE ReserveTake(t)
    BY <2>14 DEF ReserveTake
  <2>15. CASE ReserveLock(t)
    BY <2>15 DEF ReserveLock
  <2>16. CASE ReserveNext(t)
    BY <2>16 DEF ReserveNext
  <2>17. CASE ReserveFound(t)
    <3>1. list[at[t]] \in Listed /\ list[at[t]] \in Drivers
      BY <2>17, LenProperties, ElementOfSeq DEF ReserveFound, Listed
    <3> QED BY <2>17, <3>1 DEF ReserveFound
  <2>18. CASE ReserveNone(t)
    BY <2>18 DEF ReserveNone
  <2>19. CASE ReserveMark(t)
    BY <2>19 DEF ReserveMark
  <2>20. CASE ReserveUnlock(t)
    BY <2>20 DEF ReserveUnlock
  <2>21. CASE ReleaseLock(t)
    BY <2>21 DEF ReleaseLock
  <2>22. CASE ReleaseTest(t)
    BY <2>22 DEF ReleaseTest
  <2>23. CASE ReleaseGive(t)
    BY <2>23 DEF ReleaseGive
  <2>24. CASE ReleaseUnlock(t)
    BY <2>24 DEF ReleaseUnlock
  <2> QED
    BY <1>3, <2>1, <2>2, <2>3, <2>4, <2>5, <2>6, <2>7, <2>8, <2>9, <2>10, <2>11, <2>12,
       <2>13, <2>14, <2>15, <2>16, <2>17, <2>18, <2>19, <2>20, <2>21, <2>22, <2>23, <2>24
       DEF ThreadStep
<1> QED BY <1>1, <1>2, <1>3 DEF Next

-----------------------------------------------------------------------------
(* Counting.                                                               *)

\* When a thread moves, only the count of the places it leaves and enters change.
LEMMA CountMove ==
    ASSUME NEW f \in [Threads -> PCs], NEW t \in Threads, NEW l \in PCs, NEW P
    PROVE  LET before == {u \in Threads : f[u] \in P}
               after  == {u \in Threads : [f EXCEPT ![t] = l][u] \in P}
           IN  /\ Cardinality(before) \in Nat /\ Cardinality(after) \in Nat
               /\ (l \in P <=> f[t] \in P) => Cardinality(after) = Cardinality(before)
               /\ l \in P /\ f[t] \notin P => Cardinality(after) = Cardinality(before) + 1
               /\ l \notin P /\ f[t] \in P => Cardinality(after) = Cardinality(before) - 1
<1> DEFINE before == {u \in Threads : f[u] \in P}
           after  == {u \in Threads : [f EXCEPT ![t] = l][u] \in P}
<1>1. IsFiniteSet(before) /\ IsFiniteSet(after)
  BY FS_Subset, PoolAssumption
<1>2. Cardinality(before) \in Nat /\ Cardinality(after) \in Nat
  BY <1>1, FS_CardinalityType
<1>3. (l \in P <=> f[t] \in P) => after = before
  OBVIOUS
<1>4. l \in P /\ f[t] \notin P => after = before \cup {t} /\ t \notin before
  OBVIOUS
<1>5. l \notin P /\ f[t] \in P => after = before \ {t} /\ t \in before
  OBVIOUS
<1>6. l \in P /\ f[t] \notin P => Cardinality(after) = Cardinality(before) + 1
  BY <1>1, <1>4, FS_AddElement
<1>7. l \notin P /\ f[t] \in P => Cardinality(after) = Cardinality(before) - 1
  BY <1>1, <1>5, FS_RemoveElement
<1> QED BY <1>2, <1>3, <1>6, <1>7

\* The counts are numbers, and a thread at one of the places is counted.
LEMMA Counts ==
    ASSUME TypeOK
    PROVE  /\ TakenCount \in Nat /\ OwedCount \in Nat /\ DueCount \in Nat
           /\ FreeCount \in Nat /\ IsFiniteSet(FreeDrivers) /\ FreeDrivers \subseteq Drivers
           /\ \A t \in Threads : /\ pc[t] \in Taken => TakenCount >= 1
                                 /\ pc[t] \in Owed => OwedCount >= 1
<1>1. ASSUME NEW P
      PROVE  /\ Cardinality(At(P)) \in Nat
             /\ \A t \in Threads : pc[t] \in P => Cardinality(At(P)) >= 1
  <2>1. IsFiniteSet(At(P)) /\ Cardinality(At(P)) \in Nat
    BY FS_Subset, FS_CardinalityType, PoolAssumption DEF At
  <2>2. ASSUME NEW t \in Threads, pc[t] \in P PROVE At(P) # {}
    BY <2>2 DEF At
  <2> QED BY <2>1, <2>2, FS_EmptySet
<1>2. FreeDrivers \subseteq Drivers
  BY ListedDrivers DEF FreeDrivers
<1>3. IsFiniteSet(FreeDrivers) /\ Cardinality(FreeDrivers) \in Nat
  BY <1>2, FS_Subset, FS_CardinalityType, PoolAssumption
<1> QED BY <1>1, <1>2, <1>3 DEF TakenCount, OwedCount, DueCount, FreeCount

\* CountMove for a step of the pool.
LEMMA Tally ==
    ASSUME TypeOK, NEW t \in Threads, NEW l \in PCs, pc' = [pc EXCEPT ![t] = l]
    PROVE  /\ (l \in Taken <=> pc[t] \in Taken) => TakenCount' = TakenCount
           /\ l \in Taken /\ pc[t] \notin Taken => TakenCount' = TakenCount + 1
           /\ l \notin Taken /\ pc[t] \in Taken => TakenCount' = TakenCount - 1
           /\ (l \in Owed <=> pc[t] \in Owed) => OwedCount' = OwedCount
           /\ l \in Owed /\ pc[t] \notin Owed => OwedCount' = OwedCount + 1
           /\ l \notin Owed /\ pc[t] \in Owed => OwedCount' = OwedCount - 1
           /\ (l \in Due <=> pc[t] \in Due) => DueCount' = DueCount
           /\ l \in Due /\ pc[t] \notin Due => DueCount' = DueCount + 1
           /\ l \notin Due /\ pc[t] \in Due => DueCount' = DueCount - 1
<1>1. pc \in [Threads -> PCs]
  BY DEF TypeOK
<1>2. ASSUME NEW P
      PROVE  /\ At(P) = {u \in Threads : pc[u] \in P}
             /\ At(P)' = {u \in Threads : [pc EXCEPT ![t] = l][u] \in P}
  BY DEF At
<1>3. ASSUME NEW P
      PROVE  /\ Cardinality(At(P)) \in Nat
             /\ (l \in P <=> pc[t] \in P) => Cardinality(At(P)') = Cardinality(At(P))
             /\ l \in P /\ pc[t] \notin P => Cardinality(At(P)') = Cardinality(At(P)) + 1
             /\ l \notin P /\ pc[t] \in P => Cardinality(At(P)') = Cardinality(At(P)) - 1
  BY <1>1, <1>2, CountMove
<1>4. TakenCount' = Cardinality(At(Taken)') /\ OwedCount' = Cardinality(At(Owed)')
      /\ DueCount' = Cardinality(At(Due)')
  BY DEF TakenCount, OwedCount, DueCount
<1> QED BY <1>3, <1>4 DEF TakenCount, OwedCount, DueCount

\* The semaphore never has to count more than the drivers there are.
LEMMA Capacity ==
    ASSUME PoolInv, SettledInv
    PROVE  FreeCount + DueCount <= Cardinality(Drivers)
<1>1. FreeDrivers \subseteq Drivers /\ IsFiniteSet(FreeDrivers) /\ FreeCount \in Nat
  BY Counts DEF PoolInv
<1>2. IsFiniteSet(Drivers) /\ Cardinality(Drivers) \in Nat
  BY FS_CardinalityType, PoolAssumption
<1>3. CASE At(Due) = {}
  BY <1>1, <1>2, <1>3, FS_Subset, FS_EmptySet DEF FreeCount, DueCount
<1>4. ASSUME NEW t \in At(Due)
      PROVE  FreeCount + DueCount <= Cardinality(Drivers)
  <2>1. t \in Threads /\ pc[t] = "der_take"
    BY <1>4 DEF At, Due
  <2>2. \A u \in At(Due) : u = t
    BY <2>1 DEF At, Due, PoolInv, HandsInv, MutexHeld, Critical
  <2>3. At(Due) = {t} /\ DueCount = 1
    BY <2>2, FS_Singleton DEF DueCount
  <2>4. drv[t] \in Drivers /\ drv[t] \notin FreeDrivers
    BY <2>1 DEF SettledInv, PoolInv, TypeOK, FreeDrivers
  <2>5. Cardinality(FreeDrivers \cup {drv[t]}) = FreeCount + 1
    BY <1>1, <2>4, FS_AddElement DEF FreeCount
  <2>6. Cardinality(FreeDrivers \cup {drv[t]}) <= Cardinality(Drivers)
    BY <1>1, <1>2, <2>4, FS_Subset
  <2> QED BY <1>1, <1>2, <2>3, <2>5, <2>6
<1> QED BY <1>3, <1>4

\* One free driver more ...
LEMMA FreeMore ==
    ASSUME TypeOK, NEW d, d \notin FreeDrivers, FreeDrivers' = FreeDrivers \cup {d}
    PROVE  FreeCount' = FreeCount + 1
BY Counts, FS_AddElement DEF FreeCount

\* ... and one less.
LEMMA FreeLess ==
    ASSUME TypeOK, NEW d, d \in FreeDrivers, FreeDrivers' = FreeDrivers \ {d}
    PROVE  FreeCount' = FreeCount - 1
BY Counts, FS_RemoveElement DEF FreeCount

\* The driver whose call has come this far is free, or is not.
LEMMA FreeOrNot ==
    ASSUME PoolInv, PlaceInv, NEW t \in Threads
    PROVE  /\ pc[t] = "reg_link" => ~reserved[drv[t]] /\ drv[t] \notin Listed
           /\ pc[t] = "der_find" => ~reserved[drv[t]]
           /\ pc[t] = "res_mark" => ~reserved[drv[t]] /\ drv[t] \in Listed
           /\ pc[t] = "rel_test" => reserved[drv[t]] /\ drv[t] \in Listed
<1> USE DEF PoolInv, PlaceInv, TypeOK, HandsInv
<1>1. pc[t] = "reg_link" => ~reserved[drv[t]] /\ drv[t] \notin Listed
  BY DEF SettledInv, HadInv
<1>2. pc[t] = "der_find" => ~reserved[drv[t]]
  BY DEF QuietInv, HadInv, DeinitPCs
<1>3. pc[t] = "res_mark" => ~reserved[drv[t]] /\ drv[t] \in Listed
  BY DEF MarkedIsFree, WalkInv
<1>4. pc[t] = "rel_test" => reserved[drv[t]] /\ drv[t] \in Listed
  BY DEF HadIsReserved, HadInv, Has, InTransit
<1> QED BY <1>1, <1>2, <1>3, <1>4

\* A walk that ends without a driver would have had none to find, but the token
\* of the caller stands for one.
LEMMA WalkFinds ==
    ASSUME TokenInv, NEW t \in Threads
    PROVE  ~ReserveNone(t)
<1> SUFFICES ASSUME ReserveNone(t) PROVE FALSE
  OBVIOUS
<1>1. pc[t] = "res_test" /\ at[t] > Len(list)
  BY DEF ReserveNone
<1>2. FreeDrivers = {}
  BY <1>1, LenProperties DEF TokenInv, PoolInv, TypeOK, PlaceInv, WalkInv, FreeDrivers,
     Listed
<1>3. At(Due) = {}
  BY <1>1 DEF At, Due, TokenInv, PlaceInv, QuietInv, ReservePCs, DeinitPCs
<1>4. FreeCount = 0 /\ DueCount = 0
  BY <1>2, <1>3, FS_EmptySet DEF FreeCount, DueCount
<1>5. TakenCount \in Nat /\ OwedCount \in Nat /\ TakenCount >= 1
  BY <1>1, Counts DEF Taken, TokenInv, PoolInv
<1>6. gsem \in Nat
  BY PoolAssumption DEF TokenInv, PoolInv, TypeOK
<1> QED BY <1>4, <1>5, <1>6 DEF TokenInv, Balanced

\* A token that is given is counted: the semaphore is not at its limit.
LEMMA GiveCounts ==
    ASSUME KeepsPoolProtocol, TokenInv, NEW t \in Threads, pc[t] \in Owed
    PROVE  gsem < SemMax
<1>1. TakenCount \in Nat /\ OwedCount \in Nat /\ OwedCount >= 1 /\ FreeCount \in Nat
      /\ DueCount \in Nat
  BY Counts DEF TokenInv, PoolInv
<1>2. FreeCount + DueCount <= Cardinality(Drivers)
  BY Capacity DEF TokenInv, PlaceInv
<1>3. Cardinality(Drivers) \in Nat /\ Cardinality(Drivers) <= SemMax
  BY FS_CardinalityType, PoolAssumption DEF KeepsPoolProtocol
<1>4. gsem \in Nat /\ SemMax \in Nat
  BY PoolAssumption DEF TokenInv, PoolInv, TypeOK
<1> QED BY <1>1, <1>2, <1>3, <1>4 DEF TokenInv, Balanced

-----------------------------------------------------------------------------
(* Tokens.                                                                 *)

\* A call that passes between places that count the same.
LEMMA QuietMove ==
    ASSUME TypeOK, Balanced, UNCHANGED <<gsem, list, reserved>>,
           NEW t \in Threads, NEW l \in PCs, pc' = [pc EXCEPT ![t] = l],
           l \in Taken <=> pc[t] \in Taken, l \in Owed <=> pc[t] \in Owed,
           l \in Due <=> pc[t] \in Due
    PROVE  Balanced'
<1>1. TakenCount' = TakenCount /\ OwedCount' = OwedCount /\ DueCount' = DueCount
  BY Tally
<1>2. FreeCount' = FreeCount
  BY ListedSame DEF FreeDrivers, FreeCount
<1> QED BY <1>1, <1>2 DEF Balanced

\* Every step moves a token and a driver together.
LEMMA TokenStep == KeepsPoolProtocol /\ TokenInv /\ [Next]_vars => Balanced'
<1> SUFFICES ASSUME KeepsPoolProtocol, TokenInv, [Next]_vars PROVE Balanced'
  OBVIOUS
<1>0. TokenInv /\ PoolInv /\ PlaceInv /\ ListOnce /\ TypeOK /\ Balanced
  BY DEF TokenInv, PoolInv, PlaceInv
<1>n. gsem \in Nat /\ TakenCount \in Nat /\ OwedCount \in Nat /\ DueCount \in Nat
      /\ FreeCount \in Nat
  BY <1>0, Counts, PoolAssumption DEF TypeOK
<1> USE PoolAssumption
        DEF Goto, Enter, Take, Give
<1>1. CASE UNCHANGED vars
  BY <1>0, <1>1 DEF vars, Balanced, FreeCount, TakenCount, OwedCount, DueCount,
     FreeDrivers, Listed, At
<1>2. ASSUME NEW t \in Threads, ApiCall(t) PROVE Balanced'
  <2>1. ASSUME NEW d \in Drivers, InitCall(t, d) PROVE Balanced'
    <3>1. pc' = [pc EXCEPT ![t] = "init_dev"] /\ "init_dev" \in PCs
          /\ UNCHANGED <<gsem, list, reserved>>
      BY <2>1 DEF InitCall, PCs, ReservePCs, ReleasePCs, InitPCs, DeinitPCs
    <3>2. ("init_dev" \in Taken <=> pc[t] \in Taken)
          /\ ("init_dev" \in Owed <=> pc[t] \in Owed)
          /\ ("init_dev" \in Due <=> pc[t] \in Due)
      BY <2>1 DEF InitCall, Taken, Owed, Due
    <3> QED BY <1>0, <3>1, <3>2, QuietMove
  <2>2. ASSUME NEW d \in Drivers, DeinitCall(t, d) PROVE Balanced'
    <3>1. pc' = [pc EXCEPT ![t] = "der_lock"] /\ "der_lock" \in PCs
          /\ UNCHANGED <<gsem, list, reserved>>
      BY <2>2 DEF DeinitCall, PCs, ReservePCs, ReleasePCs, InitPCs, DeinitPCs
    <3>2. ("der_lock" \in Taken <=> pc[t] \in Taken)
          /\ ("der_lock" \in Owed <=> pc[t] \in Owed)
          /\ ("der_lock" \in Due <=> pc[t] \in Due)
      BY <2>2 DEF DeinitCall, Taken, Owed, Due
    <3> QED BY <1>0, <3>1, <3>2, QuietMove
  <2>3. ASSUME NEW d \in Drivers, ReleaseCall(t, d) PROVE Balanced'
    <3>1. pc' = [pc EXCEPT ![t] = "rel_lock"] /\ "rel_lock" \in PCs
          /\ UNCHANGED <<gsem, list, reserved>>
      BY <2>3 DEF ReleaseCall, PCs, ReservePCs, ReleasePCs, InitPCs, DeinitPCs
    <3>2. ("rel_lock" \in Taken <=> pc[t] \in Taken)
          /\ ("rel_lock" \in Owed <=> pc[t] \in Owed)
          /\ ("rel_lock" \in Due <=> pc[t] \in Due)
      BY <2>3 DEF ReleaseCall, Taken, Owed, Due
    <3> QED BY <1>0, <3>1, <3>2, QuietMove
  <2>4. CASE ReserveCall(t)
    <3>1. pc' = [pc EXCEPT ![t] = "res_take"] /\ "res_take" \in PCs
          /\ UNCHANGED <<gsem, list, reserved>>
      BY <2>4 DEF ReserveCall, PCs, ReservePCs, ReleasePCs, InitPCs, DeinitPCs
    <3>2. ("res_take" \in Taken <=> pc[t] \in Taken)
          /\ ("res_take" \in Owed <=> pc[t] \in Owed)
          /\ ("res_take" \in Due <=> pc[t] \in Due)
      BY <2>4 DEF ReserveCall, Taken, Owed, Due
    <3> QED BY <1>0, <3>1, <3>2, QuietMove
  <2> QED BY <1>2, <2>1, <2>2, <2>3, <2>4 DEF ApiCall
<1>3. ASSUME NEW t \in Threads, ThreadStep(t) PROVE Balanced'
  <2>1. CASE InitFails(t)
    <3>1. pc' = [pc EXCEPT ![t] = "idle"] /\ "idle" \in PCs
          /\ UNCHANGED <<gsem, list, reserved>>
      BY <2>1 DEF InitFails, PCs, ReservePCs, ReleasePCs, InitPCs, DeinitPCs
    <3>2. ("idle" \in Taken <=> pc[t] \in Taken) /\ ("idle" \in Owed <=> pc[t] \in Owed)
          /\ ("idle" \in Due <=> pc[t] \in Due)
      BY <2>1 DEF InitFails, Taken, Owed, Due
    <3> QED BY <1>0, <3>1, <3>2, QuietMove
  <2>2. CASE InitSetsUp(t)
    <3>1. pc' = [pc EXCEPT ![t] = "reg_lock"] /\ "reg_lock" \in PCs
          /\ UNCHANGED <<gsem, list, reserved>>
      BY <2>2 DEF InitSetsUp, PCs, ReservePCs, ReleasePCs, InitPCs, DeinitPCs
    <3>2. ("reg_lock" \in Taken <=> pc[t] \in Taken)
          /\ ("reg_lock" \in Owed <=> pc[t] \in Owed)
          /\ ("reg_lock" \in Due <=> pc[t] \in Due)
      BY <2>2 DEF InitSetsUp, Taken, Owed, Due
    <3> QED BY <1>0, <3>1, <3>2, QuietMove
  <2>3. CASE RegisterLock(t)
    <3>1. pc' = [pc EXCEPT ![t] = "reg_link"] /\ "reg_link" \in PCs
          /\ UNCHANGED <<gsem, list, reserved>>
      BY <2>3 DEF RegisterLock, PCs, ReservePCs, ReleasePCs, InitPCs, DeinitPCs
    <3>2. ("reg_link" \in Taken <=> pc[t] \in Taken)
          /\ ("reg_link" \in Owed <=> pc[t] \in Owed)
          /\ ("reg_link" \in Due <=> pc[t] \in Due)
      BY <2>3 DEF RegisterLock, Taken, Owed, Due
    <3> QED BY <1>0, <3>1, <3>2, QuietMove
  <2>4. CASE RegisterLink(t)
    <3>1. pc[t] = "reg_link" /\ pc' = [pc EXCEPT ![t] = "reg_unlock"]
          /\ "reg_unlock" \in PCs
      BY <1>0, <2>4 DEF RegisterLink, PCs, ReservePCs, ReleasePCs, InitPCs, DeinitPCs
    <3>2. TakenCount' = TakenCount /\ OwedCount' = OwedCount + 1 /\ DueCount' = DueCount
      BY <1>0, <3>1, Tally DEF Taken, Owed, Due
    <3>3. FreeCount' = FreeCount + 1
      <4>1. Listed' = Listed \cup {drv[t]} /\ UNCHANGED reserved
        BY <1>0, <2>4, LinkAdds DEF RegisterLink
      <4>2. drv[t] \notin FreeDrivers /\ FreeDrivers' = FreeDrivers \cup {drv[t]}
        BY <1>0, <3>1, <4>1, ListedDrivers, FreeOrNot DEF FreeDrivers, TypeOK
      <4> QED BY <1>0, <4>2, FreeMore
    <3>4. gsem' = gsem
      BY <1>0, <3>1, <2>4 DEF RegisterLink
    <3> QED BY <1>0, <1>n, <3>2, <3>3, <3>4 DEF Balanced
  <2>5. CASE RegisterUnlock(t)
    <3>1. pc' = [pc EXCEPT ![t] = "reg_give"] /\ "reg_give" \in PCs
          /\ UNCHANGED <<gsem, list, reserved>>
      BY <2>5 DEF RegisterUnlock, PCs, ReservePCs, ReleasePCs, InitPCs, DeinitPCs
    <3>2. ("reg_give" \in Taken <=> pc[t] \in Taken)
          /\ ("reg_give" \in Owed <=> pc[t] \in Owed)
          /\ ("reg_give" \in Due <=> pc[t] \in Due)
      BY <2>5 DEF RegisterUnlock, Taken, Owed, Due
    <3> QED BY <1>0, <3>1, <3>2, QuietMove
  <2>6. CASE RegisterGive(t)
    <3>1. pc[t] = "reg_give" /\ pc' = [pc EXCEPT ![t] = "idle"] /\ "idle" \in PCs
      BY <1>0, <2>6 DEF RegisterGive, PCs, ReservePCs, ReleasePCs, InitPCs, DeinitPCs
    <3>2. TakenCount' = TakenCount /\ OwedCount' = OwedCount - 1 /\ DueCount' = DueCount
      BY <1>0, <3>1, Tally DEF Taken, Owed, Due
    <3>3. FreeCount' = FreeCount
      BY <2>6, ListedSame DEF RegisterGive, FreeDrivers, FreeCount
    <3>4. gsem' = gsem + 1
      BY <1>0, <3>1, <2>6, GiveCounts DEF RegisterGive, Owed
    <3> QED BY <1>0, <1>n, <3>2, <3>3, <3>4 DEF Balanced
  <2>7. CASE DeregisterLock(t)
    <3>1. pc' = [pc EXCEPT ![t] = "der_find"] /\ "der_find" \in PCs
          /\ UNCHANGED <<gsem, list, reserved>>
      BY <2>7 DEF DeregisterLock, PCs, ReservePCs, ReleasePCs, InitPCs, DeinitPCs
    <3>2. ("der_find" \in Taken <=> pc[t] \in Taken)
          /\ ("der_find" \in Owed <=> pc[t] \in Owed)
          /\ ("der_find" \in Due <=> pc[t] \in Due)
      BY <2>7 DEF DeregisterLock, Taken, Owed, Due
    <3> QED BY <1>0, <3>1, <3>2, QuietMove
  <2>8. CASE DeregisterNext(t)
    <3>1. UNCHANGED <<pc, gsem, list, reserved>>
      BY <2>8 DEF DeregisterNext
    <3> QED BY <1>0, <3>1 DEF Balanced, FreeCount, TakenCount, OwedCount, DueCount,
       FreeDrivers, Listed, At
  <2>9. CASE DeregisterNone(t)
    <3>1. pc' = [pc EXCEPT ![t] = "der_unlock"] /\ "der_unlock" \in PCs
          /\ UNCHANGED <<gsem, list, reserved>>
      BY <2>9 DEF DeregisterNone, PCs, ReservePCs, ReleasePCs, InitPCs, DeinitPCs
    <3>2. ("der_unlock" \in Taken <=> pc[t] \in Taken)
          /\ ("der_unlock" \in Owed <=> pc[t] \in Owed)
          /\ ("der_unlock" \in Due <=> pc[t] \in Due)
      BY <2>9 DEF DeregisterNone, Taken, Owed, Due
    <3> QED BY <1>0, <3>1, <3>2, QuietMove
  <2>10. CASE DeregisterUnlink(t)
    <3>1. pc[t] = "der_find" /\ pc' = [pc EXCEPT ![t] = "der_take"] /\ "der_take" \in PCs
      BY <1>0, <2>10 DEF DeregisterUnlink, PCs, ReservePCs, ReleasePCs, InitPCs, DeinitPCs
    <3>2. TakenCount' = TakenCount /\ OwedCount' = OwedCount /\ DueCount' = DueCount + 1
      BY <1>0, <3>1, Tally DEF Taken, Owed, Due
    <3>3. FreeCount' = FreeCount - 1
      <4>1. drv[t] \in Listed /\ Listed' = Listed \ {drv[t]} /\ UNCHANGED reserved
        BY <1>0, <2>10, UnlinkRemoves DEF DeregisterUnlink
      <4>2. drv[t] \in FreeDrivers /\ FreeDrivers' = FreeDrivers \ {drv[t]}
        BY <1>0, <3>1, <4>1, ListedDrivers, FreeOrNot DEF FreeDrivers, TypeOK
      <4> QED BY <1>0, <4>2, FreeLess
    <3>4. gsem' = gsem
      BY <1>0, <3>1, <2>10 DEF DeregisterUnlink
    <3> QED BY <1>0, <1>n, <3>2, <3>3, <3>4 DEF Balanced
  <2>11. CASE DeregisterTake(t)
    <3>1. pc[t] = "der_take" /\ pc' = [pc EXCEPT ![t] = "der_unlock"]
          /\ "der_unlock" \in PCs
      BY <1>0, <2>11 DEF DeregisterTake, PCs, ReservePCs, ReleasePCs, InitPCs, DeinitPCs
    <3>2. TakenCount' = TakenCount /\ OwedCount' = OwedCount /\ DueCount' = DueCount - 1
      BY <1>0, <3>1, Tally DEF Taken, Owed, Due
    <3>3. FreeCount' = FreeCount
      BY <2>11, ListedSame DEF DeregisterTake, FreeDrivers, FreeCount
    <3>4. gsem' = gsem - 1
      BY <1>0, <3>1, <2>11 DEF DeregisterTake
    <3> QED BY <1>0, <1>n, <3>2, <3>3, <3>4 DEF Balanced
  <2>12. CASE DeregisterUnlock(t)
    <3>1. pc' = [pc EXCEPT ![t] = "der_free"] /\ "der_free" \in PCs
          /\ UNCHANGED <<gsem, list, reserved>>
      BY <2>12 DEF DeregisterUnlock, PCs, ReservePCs, ReleasePCs, InitPCs, DeinitPCs
    <3>2. ("der_free" \in Taken <=> pc[t] \in Taken)
          /\ ("der_free" \in Owed <=> pc[t] \in Owed)
          /\ ("der_free" \in Due <=> pc[t] \in Due)
      BY <2>12 DEF DeregisterUnlock, Taken, Owed, Due
    <3> QED BY <1>0, <3>1, <3>2, QuietMove
  <2>13. CASE DestroySemaphore(t)
    <3>1. pc' = [pc EXCEPT ![t] = "idle"] /\ "idle" \in PCs
          /\ UNCHANGED <<gsem, list, reserved>>
      BY <2>13 DEF DestroySemaphore, PCs, ReservePCs, ReleasePCs, InitPCs, DeinitPCs
    <3>2. ("idle" \in Taken <=> pc[t] \in Taken) /\ ("idle" \in Owed <=> pc[t] \in Owed)
          /\ ("idle" \in Due <=> pc[t] \in Due)
      BY <2>13 DEF DestroySemaphore, Taken, Owed, Due
    <3> QED BY <1>0, <3>1, <3>2, QuietMove
  <2>14. CASE ReserveTake(t)
    <3>1. pc[t] = "res_take" /\ pc' = [pc EXCEPT ![t] = "res_lock"] /\ "res_lock" \in PCs
      BY <1>0, <2>14 DEF ReserveTake, PCs, ReservePCs, ReleasePCs, InitPCs, DeinitPCs
    <3>2. TakenCount' = TakenCount + 1 /\ OwedCount' = OwedCount /\ DueCount' = DueCount
      BY <1>0, <3>1, Tally DEF Taken, Owed, Due
    <3>3. FreeCount' = FreeCount
      BY <2>14, ListedSame DEF ReserveTake, FreeDrivers, FreeCount
    <3>4. gsem' = gsem - 1
      BY <1>0, <3>1, <2>14 DEF ReserveTake
    <3> QED BY <1>0, <1>n, <3>2, <3>3, <3>4 DEF Balanced
  <2>15. CASE ReserveLock(t)
    <3>1. pc' = [pc EXCEPT ![t] = "res_test"] /\ "res_test" \in PCs
          /\ UNCHANGED <<gsem, list, reserved>>
      BY <2>15 DEF ReserveLock, PCs, ReservePCs, ReleasePCs, InitPCs, DeinitPCs
    <3>2. ("res_test" \in Taken <=> pc[t] \in Taken)
          /\ ("res_test" \in Owed <=> pc[t] \in Owed)
          /\ ("res_test" \in Due <=> pc[t] \in Due)
      BY <2>15 DEF ReserveLock, Taken, Owed, Due
    <3> QED BY <1>0, <3>1, <3>2, QuietMove
  <2>16. CASE ReserveNext(t)
    <3>1. UNCHANGED <<pc, gsem, list, reserved>>
      BY <2>16 DEF ReserveNext
    <3> QED BY <1>0, <3>1 DEF Balanced, FreeCount, TakenCount, OwedCount, DueCount,
       FreeDrivers, Listed, At
  <2>17. CASE ReserveFound(t)
    <3>1. pc' = [pc EXCEPT ![t] = "res_mark"] /\ "res_mark" \in PCs
          /\ UNCHANGED <<gsem, list, reserved>>
      BY <2>17 DEF ReserveFound, PCs, ReservePCs, ReleasePCs, InitPCs, DeinitPCs
    <3>2. ("res_mark" \in Taken <=> pc[t] \in Taken)
          /\ ("res_mark" \in Owed <=> pc[t] \in Owed)
          /\ ("res_mark" \in Due <=> pc[t] \in Due)
      BY <2>17 DEF ReserveFound, Taken, Owed, Due
    <3> QED BY <1>0, <3>1, <3>2, QuietMove
  <2>18. CASE ReserveNone(t)
    BY <1>0, <2>18, WalkFinds
  <2>19. CASE ReserveMark(t)
    <3>1. pc[t] = "res_mark" /\ pc' = [pc EXCEPT ![t] = "res_unlock"]
          /\ "res_unlock" \in PCs
      BY <1>0, <2>19 DEF ReserveMark, PCs, ReservePCs, ReleasePCs, InitPCs, DeinitPCs
    <3>2. TakenCount' = TakenCount - 1 /\ OwedCount' = OwedCount /\ DueCount' = DueCount
      BY <1>0, <3>1, Tally DEF Taken, Owed, Due
    <3>3. FreeCount' = FreeCount - 1
      <4>1. Listed' = Listed /\ reserved' = [reserved EXCEPT ![drv[t]] = TRUE]
        BY <1>0, <2>19, ListedSame DEF ReserveMark
      <4>2. drv[t] \in FreeDrivers /\ FreeDrivers' = FreeDrivers \ {drv[t]}
        BY <1>0, <3>1, <4>1, ListedDrivers, FreeOrNot DEF FreeDrivers, TypeOK
      <4> QED BY <1>0, <4>2, FreeLess
    <3>4. gsem' = gsem
      BY <1>0, <3>1, <2>19 DEF ReserveMark
    <3> QED BY <1>0, <1>n, <3>2, <3>3, <3>4 DEF Balanced
  <2>20. CASE ReserveUnlock(t)
    <3>1. pc' = [pc EXCEPT ![t] = "idle"] /\ "idle" \in PCs
          /\ UNCHANGED <<gsem, list, reserved>>
      BY <2>20 DEF ReserveUnlock, PCs, ReservePCs, ReleasePCs, InitPCs, DeinitPCs
    <3>2. ("idle" \in Taken <=> pc[t] \in Taken) /\ ("idle" \in Owed <=> pc[t] \in Owed)
          /\ ("idle" \in Due <=> pc[t] \in Due)
      BY <2>20 DEF ReserveUnlock, Taken, Owed, Due
    <3> QED BY <1>0, <3>1, <3>2, QuietMove
  <2>21. CASE ReleaseLock(t)
    <3>1. pc' = [pc EXCEPT ![t] = "rel_test"] /\ "rel_test" \in PCs
          /\ UNCHANGED <<gsem, list, reserved>>
      BY <2>21 DEF ReleaseLock, PCs, ReservePCs, ReleasePCs, InitPCs, DeinitPCs
    <3>2. ("rel_test" \in Taken <=> pc[t] \in Taken)
          /\ ("rel_test" \in Owed <=> pc[t] \in Owed)
          /\ ("rel_test" \in Due <=> pc[t] \in Due)
      BY <2>21 DEF ReleaseLock, Taken, Owed, Due
    <3> QED BY <1>0, <3>1, <3>2, QuietMove
  <2>22. CASE ReleaseTest(t)
    <3>1. pc[t] = "rel_test" /\ pc' = [pc EXCEPT ![t] = "rel_give"] /\ "rel_give" \in PCs
      BY <1>0, <2>22, FreeOrNot DEF ReleaseTest, PCs, ReservePCs, ReleasePCs, InitPCs,
         DeinitPCs
    <3>2. TakenCount' = TakenCount /\ OwedCount' = OwedCount + 1 /\ DueCount' = DueCount
      BY <1>0, <3>1, Tally DEF Taken, Owed, Due
    <3>3. FreeCount' = FreeCount + 1
      <4>1. Listed' = Listed /\ reserved' = [reserved EXCEPT ![drv[t]] = FALSE]
        BY <1>0, <2>22, ListedSame DEF ReleaseTest
      <4>2. drv[t] \notin FreeDrivers /\ FreeDrivers' = FreeDrivers \cup {drv[t]}
        BY <1>0, <3>1, <4>1, ListedDrivers, FreeOrNot DEF FreeDrivers, TypeOK
      <4> QED BY <1>0, <4>2, FreeMore
    <3>4. gsem' = gsem
      BY <1>0, <3>1, <2>22 DEF ReleaseTest
    <3> QED BY <1>0, <1>n, <3>2, <3>3, <3>4 DEF Balanced
  <2>23. CASE ReleaseGive(t)
    <3>1. pc[t] = "rel_give" /\ pc' = [pc EXCEPT ![t] = "rel_unlock"]
          /\ "rel_unlock" \in PCs
      BY <1>0, <2>23 DEF ReleaseGive, PCs, ReservePCs, ReleasePCs, InitPCs, DeinitPCs
    <3>2. TakenCount' = TakenCount /\ OwedCount' = OwedCount - 1 /\ DueCount' = DueCount
      BY <1>0, <3>1, Tally DEF Taken, Owed, Due
    <3>3. FreeCount' = FreeCount
      BY <2>23, ListedSame DEF ReleaseGive, FreeDrivers, FreeCount
    <3>4. gsem' = gsem + 1
      BY <1>0, <3>1, <2>23, GiveCounts DEF ReleaseGive, Owed
    <3> QED BY <1>0, <1>n, <3>2, <3>3, <3>4 DEF Balanced
  <2>24. CASE ReleaseUnlock(t)
    <3>1. pc' = [pc EXCEPT ![t] = "idle"] /\ "idle" \in PCs
          /\ UNCHANGED <<gsem, list, reserved>>
      BY <2>24 DEF ReleaseUnlock, PCs, ReservePCs, ReleasePCs, InitPCs, DeinitPCs
    <3>2. ("idle" \in Taken <=> pc[t] \in Taken) /\ ("idle" \in Owed <=> pc[t] \in Owed)
          /\ ("idle" \in Due <=> pc[t] \in Due)
      BY <2>24 DEF ReleaseUnlock, Taken, Owed, Due
    <3> QED BY <1>0, <3>1, <3>2, QuietMove
  <2> QED
    BY <1>3, <2>1, <2>2, <2>3, <2>4, <2>5, <2>6, <2>7, <2>8, <2>9, <2>10, <2>11, <2>12,
       <2>13, <2>14, <2>15, <2>16, <2>17, <2>18, <2>19, <2>20, <2>21, <2>22, <2>23, <2>24
       DEF ThreadStep
<1> QED BY <1>1, <1>2, <1>3 DEF Next

-----------------------------------------------------------------------------
\* Nothing is registered or reserved before the first call.
LEMMA InitToken == KeepsPoolProtocol /\ Init => TokenInv
<1> SUFFICES ASSUME KeepsPoolProtocol, Init PROVE TokenInv
  OBVIOUS
<1>1. PoolInv
  BY InitPool
<1>2. \A t \in Threads : pc[t] = "idle" /\ owns[t] = {}
  BY DEF Init
<1>3. Len(list) = 0 /\ Listed = {} /\ live = {} /\ gsem = 0
  BY DEF Init, Listed
<1>4. \A d \in Drivers : ~reserved[d]
  BY DEF Init, KeepsPoolProtocol
<1>5. ListOnce /\ ListInv
  BY <1>3 DEF ListOnce, ListInv
<1>6. SettledInv /\ QuietInv /\ WalkInv
  BY <1>2 DEF SettledInv, QuietInv, WalkInv, InitPCs, DeinitPCs
<1>7. HadInv
  BY <1>2, <1>4 DEF HadInv, Has, InTransit
<1>8. Balanced
  <2>1. At(Taken) = {} /\ At(Owed) = {} /\ At(Due) = {} /\ FreeDrivers = {}
    BY <1>2, <1>3 DEF At, Taken, Owed, Due, FreeDrivers
  <2>2. TakenCount = 0 /\ OwedCount = 0 /\ DueCount = 0 /\ FreeCount = 0
    BY <2>1, FS_EmptySet DEF TakenCount, OwedCount, DueCount, FreeCount
  <2> QED BY <1>3, <2>2 DEF Balanced
<1> QED BY <1>1, <1>5, <1>6, <1>7, <1>8 DEF TokenInv, PlaceInv

\* The walks, the flags and the tokens stay in step for any number of threads.
THEOREM TokenInvariant ==
    ASSUME KeepsPoolProtocol
    PROVE  Spec => []TokenInv
<1>1. Init => TokenInv
  BY InitToken
<1>2. TokenInv /\ [Next]_vars => TokenInv'
  <2> SUFFICES ASSUME TokenInv, [Next]_vars PROVE TokenInv'
    OBVIOUS
  <2>1. PoolInv'
    BY TypeStep, HandsStep DEF TokenInv, PoolInv
  <2>2. ListOnce' /\ ListInv' /\ SettledInv'
    BY OnceStep, ListStep, SettledStep
  <2>3. QuietInv' /\ HadInv' /\ WalkInv'
    BY QuietStep, HadStep, WalkStep
  <2>4. Balanced'
    BY TokenStep
  <2> QED BY <2>1, <2>2, <2>3, <2>4 DEF TokenInv, PlaceInv
<1> QED BY <1>1, <1>2, PTL DEF Spec

-----------------------------------------------------------------------------
\* TokensMatchDrivers: no token is lost, made up or given twice by register,
\* deregister, reserve and release, however they interleave.
THEOREM TokensMatch ==
    ASSUME KeepsPoolProtocol
    PROVE  Spec => []TokensMatchDrivers
<1>1. TokenInv => TokensMatchDrivers
  BY DEF TokenInv, Balanced, TokensMatchDrivers, TakenCount, OwedCount, DueCount,
         FreeCount, Taken, Owed, Due
<1> QED BY <1>1, TokenInvariant, PTL

\* ReserveFindsDriver: a call of ethosu_reserve_driver that got a token finds a
\* driver in the list and never returns NULL.
THEOREM ReserveFinds ==
    ASSUME KeepsPoolProtocol
    PROVE  Spec => []ReserveFindsDriver
<1>1. Init => ReserveFindsDriver
  BY DEF Init, ReserveFindsDriver, At
<1>2. TokenInv /\ ReserveFindsDriver /\ [Next]_vars => ReserveFindsDriver'
  <2> SUFFICES ASSUME TokenInv, ReserveFindsDriver, [Next]_vars, NEW u \in Threads
               PROVE  pc'[u] # "res_none"
    BY DEF ReserveFindsDriver, At
  <2>1. pc[u] # "res_none" /\ ~ReserveNone(u) /\ pc \in [Threads -> PCs]
    BY WalkFinds DEF ReserveFindsDriver, At, TokenInv, PoolInv, TypeOK
  <2>2. CASE UNCHANGED vars
    BY <2>1, <2>2 DEF vars
  <2>3. ASSUME NEW t \in Threads, ApiCall(t) PROVE pc'[u] # "res_none"
    BY <2>1, <2>3 DEF ApiCall, InitCall, DeinitCall, ReleaseCall, ReserveCall, Enter, Goto
  <2>4. ASSUME NEW t \in Threads, ThreadStep(t) PROVE pc'[u] # "res_none"
    <3>1. ~ReserveNone(t)
      BY WalkFinds
    <3>2. CASE UNCHANGED pc
      BY <2>1, <3>2
    <3>3. ASSUME NEW l \in PCs \ {"res_none"}, pc' = [pc EXCEPT ![t] = l]
          PROVE  pc'[u] # "res_none"
      BY <2>1, <3>3
    <3>4. UNCHANGED pc \/ \E l \in PCs \ {"res_none"} : pc' = [pc EXCEPT ![t] = l]
      BY <2>4, <3>1 DEF ThreadStep, InitFails, InitSetsUp, RegisterLock, RegisterLink,
         RegisterUnlock, RegisterGive, DeregisterLock, DeregisterNext, DeregisterNone,
         DeregisterUnlink, DeregisterTake, DeregisterUnlock, DestroySemaphore, ReserveTake,
         ReserveLock, ReserveNext, ReserveFound, ReserveMark, ReserveUnlock, ReleaseLock,
         ReleaseTest, ReleaseGive, ReleaseUnlock, Goto, PCs, ReservePCs, ReleasePCs,
         InitPCs, DeinitPCs
    <3> QED BY <3>2, <3>3, <3>4
  <2> QED BY <2>2, <2>3, <2>4 DEF Next
<1> QED BY <1>1, <1>2, TokenInvariant, PTL DEF Spec

\* BlocksOnlyIfNone: callers wait in ethosu_reserve_driver only for drivers that
\* others have.
THEOREM BlocksOnlyIfNoneFree ==
    ASSUME KeepsPoolProtocol
    PROVE  Spec => []BlocksOnlyIfNone
<1>1. TokenInv => BlocksOnlyIfNone
  <2> SUFFICES ASSUME TokenInv, gsem = 0, At(PCs \ {"idle", "res_take"}) = {}
               PROVE  FreeDrivers = {}
    BY DEF BlocksOnlyIfNone
  <2>1. \A t \in Threads : pc[t] \in {"idle", "res_take"}
    BY DEF At, TokenInv, PoolInv, TypeOK
  <2>2. At(Taken) = {} /\ At(Owed) = {}
    BY <2>1 DEF At, Taken, Owed
  <2>3. TakenCount = 0 /\ OwedCount = 0
    BY <2>2, FS_EmptySet DEF TakenCount, OwedCount
  <2>4. FreeCount \in Nat /\ DueCount \in Nat /\ IsFiniteSet(FreeDrivers)
    BY Counts DEF TokenInv, PoolInv
  <2>5. FreeCount = 0
    BY <2>3, <2>4 DEF TokenInv, Balanced
  <2> QED BY <2>4, <2>5, FS_EmptySet DEF FreeCount
<1> QED BY <1>1, TokenInvariant, PTL

\* JobSemaphores: what can be found in the list or was handed out has its job
\* semaphore, and ethosu_deinit destroys each semaphore once.
THEOREM JobSemaphoresExist ==
    ASSUME KeepsPoolProtocol
    PROVE  Spec => []JobSemaphores
<1>1. TokenInv => JobSemaphores
  <2> SUFFICES ASSUME TokenInv PROVE JobSemaphores
    OBVIOUS
  <2>1. \A d \in Listed : jsem[d] = "semaphore"
    BY DEF TokenInv, PlaceInv, ListInv
  <2>2. \A t \in Threads : owns[t] \subseteq Listed
    BY DEF TokenInv, PlaceInv, PoolInv, TypeOK, HadInv, Has
  <2>3. \A t \in At({"der_free"}) : jsem[drv[t]] = "semaphore"
    BY DEF At, TokenInv, PlaceInv, ListInv, SettledInv, DeinitPCs
  <2> QED BY <2>1, <2>2, <2>3 DEF JobSemaphores
<1> QED BY <1>1, TokenInvariant, PTL

-----------------------------------------------------------------------------
(* The pool implements DriverPool.                                         *)

Holder == [d \in Drivers |-> HolderOf(d)]

\* A reserved driver is held by the one thread that has it.
HolderHas ==
    \A d \in Drivers : reserved[d] =>
        HolderOf(d) \in Threads /\ \A t \in Threads : Has(t, d) <=> HolderOf(d) = t

\* HadOnce makes the choice of HolderOf unique.
LEMMA ReservedIsHeld == TokenInv => HolderHas
<1> SUFFICES ASSUME TokenInv, NEW d \in Drivers, reserved[d]
             PROVE  HolderOf(d) \in Threads
             /\ \A t \in Threads : Has(t, d) <=> HolderOf(d) = t
  BY DEF HolderHas
<1>1. PICK u \in Threads : Has(u, d)
  BY DEF TokenInv, PlaceInv, HadInv
<1>2. d \in Listed
  BY <1>1 DEF TokenInv, PlaceInv, HadInv
<1>3. HolderOf(d) = CHOOSE t \in Threads : Has(t, d)
  BY <1>2 DEF HolderOf, Has, InTransit
<1>4. \A t \in Threads : Has(t, d) => t = u
  BY <1>1 DEF TokenInv, PoolInv, HandsInv, HadOnce
<1>5. HolderOf(d) = u
  BY <1>1, <1>3, <1>4
<1> QED BY <1>1, <1>4, <1>5

\* At first every driver is absent.
LEMMA HolderInit == Init => Pool!Init
<1> SUFFICES ASSUME Init PROVE Pool!Init
  OBVIOUS
<1>1. Listed = {}
  BY DEF Init, Listed
<1> QED BY <1>1 DEF Pool!Init, HolderOf

\* A driver whose state the step leaves alone keeps its holder.
LEMMA HolderKept ==
    ASSUME HolderHas, HolderHas', NEW d \in Drivers,
           d \in Listed <=> d \in Listed', reserved'[d] = reserved[d],
           \A t \in Threads : Has(t, d)' <=> Has(t, d)
    PROVE  HolderOf(d)' = HolderOf(d)
<1>1. CASE ~reserved[d]
  BY <1>1 DEF HolderOf
<1>2. CASE reserved[d]
  BY <1>2 DEF HolderHas
<1> QED BY <1>1, <1>2

\* Marking a driver hands it out, clearing the mark takes it back, and linking
\* and unlinking put it in and out of the pool; no other step shows.
LEMMA HolderStep == TokenInv /\ HolderHas /\ HolderHas' /\ [Next]_vars
    => Pool!Next \/ UNCHANGED Holder
<1> SUFFICES ASSUME TokenInv, HolderHas, HolderHas', [Next]_vars
             PROVE  Pool!Next \/ UNCHANGED Holder
  OBVIOUS
<1>0. TypeOK /\ PoolInv /\ PlaceInv /\ ListOnce /\ HandsChange
      /\ \A t \in Threads : drv[t] \in Drivers
  BY HandsChangeStep DEF TokenInv, PlaceInv, PoolInv, TypeOK
<1>1. CASE UNCHANGED <<list, reserved>> /\ HandsKept
  <2>1. \A d \in Drivers : HolderOf(d)' = HolderOf(d)
    BY <1>1, HolderKept, ListedSame DEF HandsKept
  <2> QED BY <2>1 DEF Holder
<1>2. ASSUME NEW t \in Threads, RegisterLink(t), HandsKept PROVE Pool!Next
  <2>0. PICK d \in Drivers : d = drv[t]
    BY <1>0
  <2>1. /\ d \notin Listed /\ ~reserved[d]
        /\ Listed' = Listed \cup {d} /\ UNCHANGED reserved
    BY <1>0, <2>0, <1>2, LinkAdds, FreeOrNot DEF RegisterLink
  <2>2. HolderOf(d) = "absent" /\ HolderOf(d)' = "free"
    BY <1>0, <2>0, <1>0, <2>1 DEF HolderOf
  <2>3. \A e \in Drivers \ {d} : HolderOf(e)' = HolderOf(e)
    BY <1>0, <2>0, <1>2, <2>1, HolderKept DEF HandsKept
  <2>4. Pool!Add(d)
    BY <1>0, <2>0, <1>0, <2>2, <2>3 DEF Pool!Add
  <2> QED BY <2>0, <1>0, <2>4 DEF Pool!Next
<1>3. ASSUME NEW t \in Threads, DeregisterUnlink(t), HandsKept PROVE Pool!Next
  <2>0. PICK d \in Drivers : d = drv[t]
    BY <1>0
  <2>1. /\ d \in Listed /\ ~reserved[d]
        /\ Listed' = Listed \ {d} /\ UNCHANGED reserved
    BY <1>0, <2>0, <1>3, UnlinkRemoves, FreeOrNot DEF DeregisterUnlink
  <2>2. HolderOf(d) = "free" /\ HolderOf(d)' = "absent"
    BY <1>0, <2>0, <1>0, <2>1 DEF HolderOf
  <2>3. \A e \in Drivers \ {d} : HolderOf(e)' = HolderOf(e)
    BY <1>0, <2>0, <1>3, <2>1, HolderKept DEF HandsKept
  <2>4. Pool!Remove(d)
    BY <1>0, <2>0, <1>0, <2>2, <2>3 DEF Pool!Remove
  <2> QED BY <2>0, <1>0, <2>4 DEF Pool!Next
<1>4. ASSUME NEW t \in Threads, ReserveMark(t),
             \A u \in Threads, e \in Drivers :
                Has(u, e)' <=> Has(u, e) \/ (u = t /\ e = drv[t])
      PROVE  Pool!Next
  <2>0. PICK d \in Drivers : d = drv[t]
    BY <1>0
  <2>1. /\ d \in Listed /\ ~reserved[d] /\ Listed' = Listed
        /\ reserved' = [reserved EXCEPT ![d] = TRUE] /\ reserved'[d]
    BY <1>0, <2>0, <1>4, ListedSame, FreeOrNot DEF ReserveMark, TypeOK
  <2>2. HolderOf(d) = "free"
    BY <2>1 DEF HolderOf
  <2>3. HolderOf(d)' = t
    <3>1. Has(t, d)' <=> HolderOf(d)' = t
      BY <1>0, <2>0, <1>0, <2>1 DEF HolderHas
    <3> QED BY <2>0, <1>4, <3>1
  <2>4. \A e \in Drivers \ {d} : HolderOf(e)' = HolderOf(e)
    BY <1>0, <2>0, <1>4, <2>1, HolderKept DEF TypeOK
  <2>5. Pool!Reserve(t, d)
    BY <1>0, <2>0, <1>0, <2>2, <2>3, <2>4 DEF Pool!Reserve
  <2> QED BY <2>0, <1>0, <2>5 DEF Pool!Next
<1>5. ASSUME NEW t \in Threads, ReleaseTest(t), Has(t, drv[t]),
             \A u \in Threads, e \in Drivers :
                Has(u, e)' <=> Has(u, e) /\ ~(u = t /\ e = drv[t])
      PROVE  Pool!Next
  <2>0. PICK d \in Drivers : d = drv[t]
    BY <1>0
  <2>1. /\ d \in Listed /\ reserved[d] /\ Listed' = Listed
        /\ reserved' = [reserved EXCEPT ![d] = FALSE] /\ ~reserved'[d]
    BY <1>0, <2>0, <1>5, ListedSame, FreeOrNot DEF ReleaseTest, TypeOK
  <2>2. HolderOf(d)' = "free"
    BY <2>1 DEF HolderOf
  <2>3. HolderOf(d) = t
    BY <1>0, <2>0, <1>5, <2>1 DEF HolderHas
  <2>4. \A e \in Drivers \ {d} : HolderOf(e)' = HolderOf(e)
    BY <1>0, <2>0, <1>5, <2>1, HolderKept DEF TypeOK
  <2>5. Pool!Release(t, d)
    BY <1>0, <2>0, <1>0, <2>2, <2>3, <2>4 DEF Pool!Release
  <2> QED BY <2>0, <1>0, <2>5 DEF Pool!Next
<1> QED BY <1>0, <1>1, <1>2, <1>3, <1>4, <1>5 DEF HandsChange

\* ImplementsPool: a driver is handed to one thread at a time, is free in
\* between, and is taken out of the pool only while it is free.
THEOREM PoolImplements ==
    ASSUME KeepsPoolProtocol
    PROVE  Spec => ImplementsPool
<1>1. TokenInv /\ HolderHas /\ HolderHas' /\ [Next]_vars => [Pool!Next]_Holder
  BY HolderStep
<1> QED BY HolderInit, TokenInvariant, ReservedIsHeld, <1>1, PTL DEF Spec, ImplementsPool,
   Pool!Spec, Holder

=============================================================================
