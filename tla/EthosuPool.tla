----------------------------- MODULE EthosuPool -----------------------------
(***************************************************************************)
(* The pool of registered drivers: the list registered_drivers and the     *)
(* reserved flags, the global mutex that protects them, and the global     *)
(* semaphore that counts the drivers a caller may have.  Any number of     *)
(* threads register, deregister, reserve and release drivers.              *)
(*                                                                         *)
(* pc[t] names the next piece of the call thread t is in; mutex and        *)
(* semaphore block as the RTOS functions that override the weak ones do.   *)
(* What ethosu_release_driver does to a job left in the driver is the      *)
(* business of EthosuJob; it never blocks (EthosuJobProofs), so it is not  *)
(* a step here.  The mutex and the semaphore exist: the first ethosu_init, *)
(* which creates them, has run alone.                                      *)
(*                                                                         *)
(* A definition headed "Slip" is the operation after it with one plausible *)
(* mistake; no specification uses it.                                      *)
(***************************************************************************)
EXTENDS Integers, Sequences, FiniteSets

CONSTANTS
    Threads,
    Drivers,
    NoOne,          \* the mutex is free
    Calls,          \* calls the application makes
    ReservedBefore, \* values of drv->reserved a handle may come with
    SemMax          \* count at which the global semaphore saturates

PoolCalls == {"init", "deinit", "reserve", "release", "deinit_any_time", "deinit_any", "hold_many"}

ASSUME PoolAssumption ==
    /\ IsFiniteSet(Threads) /\ Threads # {}
    /\ IsFiniteSet(Drivers) /\ Drivers # {}
    /\ NoOne \notin Threads
    /\ Calls \subseteq PoolCalls
    /\ ReservedBefore \subseteq BOOLEAN
    /\ SemMax \in Nat

VARIABLES
    pc,        \* pc[t]: where thread t is
    drv,       \* drv[t]: the handle the call of t is about
    at,        \* at[t]: position in the list of the walk of t
    owns,      \* owns[t]: handles t was given and has not released
    live,      \* handles ethosu_init has set up and ethosu_deinit not yet taken down
    mutex,     \* who holds ethosu_mutex
    gsem,      \* count of ethosu_semaphore
    list,      \* registered_drivers, from the head
    reserved,  \* reserved[d]: d->reserved
    jsem       \* jsem[d]: what d->semaphore points to

vars == <<pc, drv, at, owns, live, mutex, gsem, list, reserved, jsem>>

ReservePCs == {"res_take", "res_lock", "res_test", "res_mark", "res_unlock", "res_none"}
ReleasePCs == {"rel_lock", "rel_test", "rel_give", "rel_unlock"}
InitPCs    == {"init_dev", "reg_lock", "reg_link", "reg_unlock", "reg_give"}
DeinitPCs  == {"der_lock", "der_find", "der_take", "der_unlock", "der_free"}
PCs        == {"idle"} \cup ReservePCs \cup ReleasePCs \cup InitPCs \cup DeinitPCs

TypeOK ==
    /\ pc \in [Threads -> PCs]
    /\ drv \in [Threads -> Drivers]
    /\ at \in [Threads -> Nat \ {0}]
    /\ owns \in [Threads -> SUBSET Drivers]
    /\ live \in SUBSET Drivers
    /\ mutex \in Threads \cup {NoOne}
    /\ gsem \in 0..SemMax
    /\ list \in Seq(Drivers)
    /\ reserved \in [Drivers -> BOOLEAN]
    /\ jsem \in [Drivers -> {"null", "semaphore", "dangling"}]

Init ==
    /\ pc = [t \in Threads |-> "idle"]
    /\ drv \in [Threads -> Drivers]
    /\ at = [t \in Threads |-> 1]
    /\ owns = [t \in Threads |-> {}]
    /\ live = {}
    /\ mutex = NoOne
    /\ gsem = 0
    /\ list = << >>
    /\ reserved \in [Drivers -> ReservedBefore]
    /\ jsem = [d \in Drivers |-> "dangling"]

-----------------------------------------------------------------------------
Goto(t, l) == pc' = [pc EXCEPT ![t] = l]

Lock(t) == mutex = NoOne /\ mutex' = t
Unlock(t) == mutex' = NoOne

Take == gsem > 0 /\ gsem' = gsem - 1

\* Slip: the semaphore is binary, as README.md has it.
GiveBinary == gsem' = 1

\* A semaphore saturates at SemMax.
Give == gsem' = IF gsem < SemMax THEN gsem + 1 ELSE gsem

\* The start of a call of thread t about handle d.
Enter(t, d, l) == pc[t] = "idle" /\ Goto(t, l) /\ drv' = [drv EXCEPT ![t] = d]

\* No thread is initialising or deinitialising the handle.
Settled(d) == \A u \in Threads : pc[u] \in InitPCs \cup DeinitPCs => drv[u] # d

-----------------------------------------------------------------------------
(* ethosu_init; it leaves reserved alone.                                  *)

InitCall(t, d) ==
    /\ "init" \in Calls /\ d \notin live /\ Settled(d)
    /\ Enter(t, d, "init_dev")
    /\ UNCHANGED <<at, owns, live, mutex, gsem, list, reserved, jsem>>

\* ethosu_dev_init fails, or the creation of the job semaphore.
InitFails(t) ==
    /\ pc[t] = "init_dev"
    /\ jsem' \in {jsem, [jsem EXCEPT ![drv[t]] = "null"]}
    /\ Goto(t, "idle")
    /\ UNCHANGED <<drv, at, owns, live, mutex, gsem, list, reserved>>

\* Slip: the error of the creation is ignored.
InitUnchecked(t) ==
    /\ pc[t] = "init_dev"
    /\ \E made \in {"null", "semaphore"} : jsem' = [jsem EXCEPT ![drv[t]] = made]
    /\ live' = live \cup {drv[t]}
    /\ Goto(t, "reg_lock")
    /\ UNCHANGED <<drv, at, owns, mutex, gsem, list, reserved>>

InitSetsUp(t) ==
    /\ pc[t] = "init_dev"
    /\ jsem' = [jsem EXCEPT ![drv[t]] = "semaphore"]
    /\ live' = live \cup {drv[t]}
    /\ Goto(t, "reg_lock")
    /\ UNCHANGED <<drv, at, owns, mutex, gsem, list, reserved>>

RegisterLock(t) ==
    /\ pc[t] = "reg_lock" /\ Lock(t)
    /\ Goto(t, "reg_link")
    /\ UNCHANGED <<drv, at, owns, live, gsem, list, reserved, jsem>>

RegisterLink(t) ==
    /\ pc[t] = "reg_link"
    /\ list' = <<drv[t]>> \o list
    /\ Goto(t, "reg_unlock")
    /\ UNCHANGED <<drv, at, owns, live, mutex, gsem, reserved, jsem>>

RegisterUnlock(t) ==
    /\ pc[t] = "reg_unlock" /\ Unlock(t)
    /\ Goto(t, "reg_give")
    /\ UNCHANGED <<drv, at, owns, live, gsem, list, reserved, jsem>>

RegisterGive(t) ==
    /\ pc[t] = "reg_give" /\ Give
    /\ Goto(t, "idle")
    /\ UNCHANGED <<drv, at, owns, live, mutex, list, reserved, jsem>>

-----------------------------------------------------------------------------
(* ethosu_deinit: ethosu_deregister_driver, which takes the driver's token  *)
(* with the mutex held, and the end of the handle.                          *)

\* A registered driver that nobody has or is giving back.
Unused(d) ==
    /\ d \in live
    /\ \A u \in Threads : d \notin owns[u] /\ (pc[u] \in ReleasePCs => drv[u] # d)

\* Slip: ethosu_deinit destroys the semaphore before it deregisters.
DeinitDestroysFirst(t, d) ==
    /\ Settled(d)
    /\ \/ "deinit" \in Calls /\ Unused(d) /\ \A u \in Threads : pc[u] \notin ReservePCs
       \/ "deinit_any_time" \in Calls /\ Unused(d)
       \/ "deinit_any" \in Calls
    /\ Enter(t, d, "der_lock")
    /\ jsem' = [jsem EXCEPT ![d] = "dangling"]
    /\ UNCHANGED <<at, owns, live, mutex, gsem, list, reserved>>

\* An application deinitialises an unused driver, at a moment when no thread
\* is reserving one; or at any time; or any handle at all.
DeinitCall(t, d) ==
    /\ Settled(d)
    /\ \/ "deinit" \in Calls /\ Unused(d) /\ \A u \in Threads : pc[u] \notin ReservePCs
       \/ "deinit_any_time" \in Calls /\ Unused(d)
       \/ "deinit_any" \in Calls
    /\ Enter(t, d, "der_lock")
    /\ UNCHANGED <<at, owns, live, mutex, gsem, list, reserved, jsem>>

DeregisterLock(t) ==
    /\ pc[t] = "der_lock" /\ Lock(t)
    /\ at' = [at EXCEPT ![t] = 1]
    /\ Goto(t, "der_find")
    /\ UNCHANGED <<drv, owns, live, gsem, list, reserved, jsem>>

DeregisterNext(t) ==
    /\ pc[t] = "der_find" /\ at[t] <= Len(list) /\ list[at[t]] # drv[t]
    /\ at' = [at EXCEPT ![t] = @ + 1]
    /\ UNCHANGED <<pc, drv, owns, live, mutex, gsem, list, reserved, jsem>>

\* A handle that is not in the list: ethosu_deinit goes on all the same.
DeregisterNone(t) ==
    /\ pc[t] = "der_find" /\ at[t] > Len(list)
    /\ Goto(t, "der_unlock")
    /\ UNCHANGED <<drv, at, owns, live, mutex, gsem, list, reserved, jsem>>

\* Slip: the token of the driver is left in the semaphore.
DeregisterUnlinkOnly(t) ==
    /\ pc[t] = "der_find" /\ at[t] <= Len(list) /\ list[at[t]] = drv[t]
    /\ list' = SubSeq(list, 1, at[t] - 1) \o SubSeq(list, at[t] + 1, Len(list))
    /\ Goto(t, "der_unlock")
    /\ UNCHANGED <<drv, at, owns, live, mutex, gsem, reserved, jsem>>

DeregisterUnlink(t) ==
    /\ pc[t] = "der_find" /\ at[t] <= Len(list) /\ list[at[t]] = drv[t]
    /\ list' = SubSeq(list, 1, at[t] - 1) \o SubSeq(list, at[t] + 1, Len(list))
    /\ Goto(t, "der_take")
    /\ UNCHANGED <<drv, at, owns, live, mutex, gsem, reserved, jsem>>

DeregisterTake(t) ==
    /\ pc[t] = "der_take" /\ Take
    /\ Goto(t, "der_unlock")
    /\ UNCHANGED <<drv, at, owns, live, mutex, list, reserved, jsem>>

DeregisterUnlock(t) ==
    /\ pc[t] = "der_unlock" /\ Unlock(t)
    /\ Goto(t, "der_free")
    /\ UNCHANGED <<drv, at, owns, live, gsem, list, reserved, jsem>>

\* The pointer stays behind.
DestroySemaphore(t) ==
    /\ pc[t] = "der_free"
    /\ jsem' = [jsem EXCEPT ![drv[t]] = "dangling"]
    /\ live' = live \ {drv[t]}
    /\ Goto(t, "idle")
    /\ UNCHANGED <<drv, at, owns, mutex, gsem, list, reserved>>

-----------------------------------------------------------------------------
(* ethosu_reserve_driver.                                                   *)

\* An application reserves drivers once it has initialised one.
ReserveCall(t) ==
    /\ "reserve" \in Calls /\ pc[t] = "idle" /\ live # {}
    /\ owns[t] = {} \/ "hold_many" \in Calls
    /\ \/ Calls \cap {"deinit_any_time", "deinit_any"} # {}
       \/ \A u \in Threads : pc[u] \notin DeinitPCs
    /\ Goto(t, "res_take")
    /\ UNCHANGED <<drv, at, owns, live, mutex, gsem, list, reserved, jsem>>

ReserveTake(t) ==
    /\ pc[t] = "res_take" /\ Take
    /\ Goto(t, "res_lock")
    /\ UNCHANGED <<drv, at, owns, live, mutex, list, reserved, jsem>>

\* Slips: the mutex is not taken; the walk starts before the list.
ReserveWithoutLock(t) ==
    /\ pc[t] = "res_lock"
    /\ at' = [at EXCEPT ![t] = 1]
    /\ Goto(t, "res_test")
    /\ UNCHANGED <<drv, owns, live, mutex, gsem, list, reserved, jsem>>

ReserveFromZero(t) ==
    /\ pc[t] = "res_lock" /\ Lock(t)
    /\ at' = [at EXCEPT ![t] = 0]
    /\ Goto(t, "res_test")
    /\ UNCHANGED <<drv, owns, live, gsem, list, reserved, jsem>>

ReserveLock(t) ==
    /\ pc[t] = "res_lock" /\ Lock(t)
    /\ at' = [at EXCEPT ![t] = 1]
    /\ Goto(t, "res_test")
    /\ UNCHANGED <<drv, owns, live, gsem, list, reserved, jsem>>

\* The walk passes a reserved driver, stops at a free one, or finds the end.
ReserveNext(t) ==
    /\ pc[t] = "res_test" /\ at[t] <= Len(list) /\ reserved[list[at[t]]]
    /\ at' = [at EXCEPT ![t] = @ + 1]
    /\ UNCHANGED <<pc, drv, owns, live, mutex, gsem, list, reserved, jsem>>

ReserveFound(t) ==
    /\ pc[t] = "res_test" /\ at[t] <= Len(list) /\ ~reserved[list[at[t]]]
    /\ drv' = [drv EXCEPT ![t] = list[at[t]]]
    /\ Goto(t, "res_mark")
    /\ UNCHANGED <<at, owns, live, mutex, gsem, list, reserved, jsem>>

ReserveNone(t) ==
    /\ pc[t] = "res_test" /\ at[t] > Len(list)
    /\ Goto(t, "res_none")
    /\ UNCHANGED <<drv, at, owns, live, mutex, gsem, list, reserved, jsem>>

ReserveMark(t) ==
    /\ pc[t] = "res_mark"
    /\ reserved' = [reserved EXCEPT ![drv[t]] = TRUE]
    /\ Goto(t, "res_unlock")
    /\ UNCHANGED <<drv, at, owns, live, mutex, gsem, list, jsem>>

\* The call returns the driver, or NULL with the token it took.
ReserveUnlock(t) ==
    /\ pc[t] \in {"res_unlock", "res_none"} /\ Unlock(t)
    /\ Goto(t, "idle")
    /\ owns' = IF pc[t] = "res_none" THEN owns
               ELSE [owns EXCEPT ![t] = @ \cup {drv[t]}]
    /\ UNCHANGED <<drv, at, live, gsem, list, reserved, jsem>>

-----------------------------------------------------------------------------
(* ethosu_release_driver.                                                   *)

ReleaseCall(t, d) ==
    /\ "release" \in Calls /\ d \in owns[t]
    /\ Enter(t, d, "rel_lock")
    /\ owns' = [owns EXCEPT ![t] = @ \ {d}]
    /\ UNCHANGED <<at, live, mutex, gsem, list, reserved, jsem>>

ReleaseLock(t) ==
    /\ pc[t] = "rel_lock" /\ Lock(t)
    /\ Goto(t, "rel_test")
    /\ UNCHANGED <<drv, at, owns, live, gsem, list, reserved, jsem>>

\* Slip: the driver is freed and its token is not given back.
ReleaseKeepsToken(t) ==
    /\ pc[t] = "rel_test"
    /\ Goto(t, "rel_unlock")
    /\ reserved' = [reserved EXCEPT ![drv[t]] = FALSE]
    /\ UNCHANGED <<drv, at, owns, live, mutex, gsem, list, jsem>>

\* A driver that is reserved is settled and made free; any other is left alone.
ReleaseTest(t) ==
    /\ pc[t] = "rel_test"
    /\ Goto(t, IF reserved[drv[t]] THEN "rel_give" ELSE "rel_unlock")
    /\ reserved' = [reserved EXCEPT ![drv[t]] = FALSE]
    /\ UNCHANGED <<drv, at, owns, live, mutex, gsem, list, jsem>>

ReleaseGive(t) ==
    /\ pc[t] = "rel_give" /\ Give
    /\ Goto(t, "rel_unlock")
    /\ UNCHANGED <<drv, at, owns, live, mutex, list, reserved, jsem>>

\* Slip: the mutex stays locked.
ReleaseForgetsUnlock(t) ==
    /\ pc[t] = "rel_unlock"
    /\ Goto(t, "idle")
    /\ UNCHANGED <<drv, at, owns, live, mutex, gsem, list, reserved, jsem>>

ReleaseUnlock(t) ==
    /\ pc[t] = "rel_unlock" /\ Unlock(t)
    /\ Goto(t, "idle")
    /\ UNCHANGED <<drv, at, owns, live, gsem, list, reserved, jsem>>

-----------------------------------------------------------------------------
ApiCall(t) ==
    \/ \E d \in Drivers : InitCall(t, d) \/ DeinitCall(t, d) \/ ReleaseCall(t, d)
    \/ ReserveCall(t)

ThreadStep(t) ==
    \/ InitFails(t) \/ InitSetsUp(t)
    \/ RegisterLock(t) \/ RegisterLink(t) \/ RegisterUnlock(t) \/ RegisterGive(t)
    \/ DeregisterLock(t) \/ DeregisterNext(t) \/ DeregisterNone(t)
    \/ DeregisterUnlink(t) \/ DeregisterTake(t) \/ DeregisterUnlock(t)
    \/ DestroySemaphore(t)
    \/ ReserveTake(t) \/ ReserveLock(t) \/ ReserveNext(t) \/ ReserveFound(t)
    \/ ReserveNone(t) \/ ReserveMark(t) \/ ReserveUnlock(t)
    \/ ReleaseLock(t) \/ ReleaseTest(t) \/ ReleaseGive(t) \/ ReleaseUnlock(t)

Next == \E t \in Threads : ApiCall(t) \/ ThreadStep(t)

Spec == Init /\ [][Next]_vars

\* The RTOS lets every thread that is not blocked run, hands a mutex or a token
\* to each of its waiters in the end (hence strong fairness), and a thread that
\* was given a driver releases it some day.
FairSpec ==
    /\ Spec
    /\ \A t \in Threads : SF_vars(ThreadStep(t))
    /\ SF_vars(\E t \in Threads, d \in Drivers : ReleaseCall(t, d))

-----------------------------------------------------------------------------
(* Properties.                                                             *)

Listed == {list[i] : i \in 1..Len(list)}

\* Registered drivers nobody has reserved.
FreeDrivers == {d \in Listed : ~reserved[d]}

At(places) == {t \in Threads : pc[t] \in places}

\* No two threads have the same driver: the test and the setting of reserved
\* are two steps, and only the mutex keeps them together.
OwnershipExclusive ==
    \A t, u \in Threads : t # u => owns[t] \cap owns[u] = {}

\* The tokens in the semaphore, those that threads have taken and not yet turned
\* into a driver, and those still to be given are the free drivers, plus one for
\* a driver that has left the list before its token is taken.
TokensMatchDrivers ==
    gsem + Cardinality(At({"res_lock", "res_test", "res_mark"}))
         + Cardinality(At({"reg_unlock", "reg_give", "rel_give"}))
    = Cardinality(FreeDrivers) + Cardinality(At({"der_take"}))

\* A driver in the list or in the hands of a thread has its job semaphore, and
\* ethosu_deinit destroys one that exists: an initialisation that fails leaves
\* nothing to find, and nothing is destroyed twice or before it is out of reach.
JobSemaphores ==
    /\ \A d \in Listed \cup UNION {owns[t] : t \in Threads} : jsem[d] = "semaphore"
    /\ \A t \in At({"der_free"}) : jsem[drv[t]] = "semaphore"

\* ethosu_reserve_driver returns a "Pointer to driver handle", never NULL.
ReserveFindsDriver == At({"res_none"}) = {}

\* "Call will block until a driver is available": threads are blocked in
\* ethosu_reserve_driver, with nothing else going on, only if none is free.
BlocksOnlyIfNone ==
    gsem = 0 /\ At(PCs \ {"idle", "res_take"}) = {} => FreeDrivers = {}

\* A thread that reserves a driver gets one, as long as one is registered.
ReserveReturns ==
    \A t \in Threads : pc[t] = "res_take" /\ live # {} ~> pc[t] = "idle"

\* A thread that deinitialises a driver gets through.
DeinitReturns ==
    \A t \in Threads : pc[t] = "der_lock" ~> pc[t] = "idle"

-----------------------------------------------------------------------------
(* The pool implements DriverPool.                                         *)

\* A driver taken off the free ones belongs to the thread whose call marked it,
\* to the one that owns it, or to the one that is giving it back.
HolderOf(d) ==
    IF d \notin Listed THEN "absent"
    ELSE IF ~reserved[d] THEN "free"
    ELSE CHOOSE t \in Threads :
            \/ d \in owns[t]
            \/ pc[t] \in {"res_unlock", "rel_lock", "rel_test"} /\ drv[t] = d

Pool == INSTANCE DriverPool WITH
    Absent <- "absent", Free <- "free", holder <- [d \in Drivers |-> HolderOf(d)]

\* The list, the flags, the mutex and the semaphore together behave as a pool:
\* a driver is handed to one thread at a time and is free in between.
ImplementsPool == Pool!Spec
=============================================================================
