---------------------------- MODULE BaremetalJob ----------------------------
(***************************************************************************)
(* EthosuJob with the weak semaphore of ethosu_driver.c, for applications  *)
(* without an RTOS: taking it is a loop of test and WFE and then an        *)
(* unprotected decrement, which the interrupt handler, that increments the *)
(* count and gives a SEV, can come into the middle of.  The timeout is     *)
(* ignored.  The weak mutex does nothing, for the one thread there is.     *)
(***************************************************************************)
EXTENDS EthosuJobProtocol

ASSUME BaremetalAssumption == ~HasTimeout

VARIABLES
    at,      \* where in ethosu_semaphore_take the thread is
    local,   \* the register count is decremented in
    event    \* the event register of the core

weakVars == <<at, local, event>>
bareVars == <<vars, weakVars>>

BareInit == Init /\ at = "test" /\ local = 0 /\ event = FALSE

-----------------------------------------------------------------------------
\* while (s->count == 0)
Test ==
    /\ pc = "take" /\ at = "test"
    /\ at' = IF sem = 0 THEN "wfe" ELSE "load"
    /\ UNCHANGED <<vars, local, event>>

\* Slip: an "if" where there is a "while".
SleepOnce ==
    /\ pc = "take" /\ at = "wfe" /\ event
    /\ event' = FALSE
    /\ at' = "load"
    /\ UNCHANGED <<vars, local>>

\* __WFE: sleeps until there is an event, and consumes it.
Sleep ==
    /\ pc = "take" /\ at = "wfe" /\ event
    /\ event' = FALSE
    /\ at' = "test"
    /\ UNCHANGED <<vars, local>>

\* s->count--, a load and a store.
Load ==
    /\ pc = "take" /\ at = "load"
    /\ local' = sem
    /\ at' = "store"
    /\ UNCHANGED <<vars, event>>

Store ==
    /\ pc = "take" /\ at = "store"
    /\ sem' = (local - 1) % 256
    /\ at' = "test"
    /\ Goto("end")
    /\ UNCHANGED <<call, block, rest, job, power, device, held, open, local, event>>

WeakTake == Test \/ Sleep \/ Load \/ Store

\* Slip: the sleeping thread is not told.
BareIrqHandlerSilent ==
    /\ irq
    /\ DevClearIrq
    /\ IF result = "TIMEOUT"
       THEN UNCHANGED <<job, sem>>
       ELSE state' = "DONE" /\ result' = DevHandleInterrupt /\ sem' = (sem + 1) % 256
    /\ UNCHANGED <<thread, power, held, open, weakVars>>

\* ethosu_irq_handler, with ethosu_semaphore_give: s->count++ and __SEV.
BareIrqHandler ==
    /\ irq
    /\ DevClearIrq
    /\ IF result = "TIMEOUT"
       THEN UNCHANGED <<job, sem, event>>
       ELSE /\ state' = "DONE"
            /\ result' = DevHandleInterrupt
            /\ sem' = (sem + 1) % 256
            /\ event' = TRUE
    /\ UNCHANGED <<thread, power, held, open, at, local>>

\* Another interrupt, or another core's SEV.
OtherEvent ==
    /\ ~event /\ event' = TRUE
    /\ UNCHANGED <<vars, at, local>>

BareStep == WeakTake \/ (CallStep /\ UNCHANGED weakVars)

BareNext ==
    \/ BareStep \/ BareIrqHandler \/ OtherEvent
    \/ (ApiCall \/ Hardware) /\ UNCHANGED weakVars

BareSpec == BareInit /\ [][BareNext]_bareVars

\* As FairSpec of EthosuJob; a sleeping core owes nothing.
BareFairSpec ==
    /\ BareSpec
    /\ WF_bareVars(BareStep)
    /\ WF_bareVars(NpuComplete /\ UNCHANGED weakVars)
    /\ WF_bareVars(BareIrqHandler)

-----------------------------------------------------------------------------
\* The weak semaphore is as good as an RTOS's: no count is lost between the load
\* and the store, no event wakes the thread to a token that is not there.  It is
\* the protocol that makes it so: an inference interrupts once, and only then is
\* there something to decrement.
ImplementsJob == Spec
=============================================================================
