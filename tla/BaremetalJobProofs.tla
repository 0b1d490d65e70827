------------------------- MODULE BaremetalJobProofs -------------------------
(***************************************************************************)
(* The weak semaphore implements the blocking, atomic one of EthosuJob,    *)
(* for every application that keeps to the protocol.                       *)
(***************************************************************************)
EXTENDS BaremetalJob, EthosuJobProtocolProofs

\* What the thread knows on its way through ethosu_semaphore_take: once it has
\* seen a token the token stays, and nothing is added to it.
WeakInv ==
    /\ at \in {"test", "wfe", "load", "store"}
    /\ at # "test" => pc = "take"
    /\ at \in {"load", "store"} => sem > 0
    /\ at = "store" => local = sem

BareInv == JobInv /\ ProtocolInv /\ WeakInv

\* The interrupt of an inference comes before its token is seen, so it finds
\* the count at 0 and the thread outside the decrement.
LEMMA HandlerFindsNoToken ==
    ASSUME BareInv, irq, result # "TIMEOUT"
    PROVE  sem = 0 /\ at \notin {"load", "store"}
BY DEF BareInv, ProtocolInv, InterruptFitsState, TokenAccounting, WeakInv

\* The decrement takes the count from 1 to 0.
LEMMA StoreTakes ==
    ASSUME BareInv, at = "store"
    PROVE  local = 1 /\ sem = 1
BY DEF BareInv, ProtocolInv, TokenAccounting, WeakInv

\* Every step of the weak take is the atomic take or no step at all.
LEMMA TakeMaps == BareInv /\ WeakTake => [Next]_vars
<1> SUFFICES ASSUME BareInv, WeakTake PROVE [Next]_vars
  OBVIOUS
<1>1. Test \/ Sleep \/ Load => UNCHANGED vars
  BY DEF Test, Sleep, Load
<1>2. ASSUME Store PROVE Take
  <2>1. sem = 1 /\ sem' = (1 - 1) % 256
    BY <1>2, StoreTakes DEF Store
  <2>2. sem' = sem - 1
    BY <2>1
  <2> QED BY <1>2, <2>1, <2>2 DEF Store, Take
<1> QED BY <1>1, <1>2 DEF WeakTake, Next, ThreadStep, DriverStep

\* Every step of the weak handler is the handler's.
LEMMA HandlerMaps == BareInv /\ BareIrqHandler => IrqHandler
<1> SUFFICES ASSUME BareInv, BareIrqHandler PROVE IrqHandler
  OBVIOUS
<1>1. CASE result = "TIMEOUT"
  BY <1>1 DEF BareIrqHandler, IrqHandler
<1>2. CASE result # "TIMEOUT"
  <2>1. sem = 0 /\ sem' = (0 + 1) % 256
    BY <1>2, HandlerFindsNoToken DEF BareIrqHandler
  <2>2. sem' = Give(sem)
    BY <2>1, JobAssumption DEF JobAssumption, Give
  <2> QED BY <1>2, <2>2 DEF BareIrqHandler, IrqHandler
<1> QED BY <1>1, <1>2

\* So every step is one of EthosuJob.
LEMMA BareMaps == BareInv /\ [BareNext]_bareVars => [Next]_vars
BY TakeMaps, HandlerMaps
    DEF BareNext, BareStep, OtherEvent, Next, ThreadStep, DriverStep, bareVars

\* The semaphore's own part of the invariant.
LEMMA WeakStep == BareInv /\ [BareNext]_bareVars => WeakInv'
<1> SUFFICES ASSUME BareInv, [BareNext]_bareVars PROVE WeakInv'
  OBVIOUS
<1> USE DEF BareInv, WeakInv
<1>1. ASSUME UNCHANGED <<pc, sem, weakVars>> PROVE WeakInv'
  BY <1>1 DEF weakVars
<1>2. CASE Test
  BY <1>2 DEF Test, vars, JobInv, TypeOK
<1>3. CASE Sleep
  BY <1>3 DEF Sleep, vars
<1>4. CASE Load
  BY <1>4 DEF Load, vars
<1>5. CASE Store
  BY <1>5 DEF Store
<1>6. CASE BareIrqHandler
  <2>1. CASE result = "TIMEOUT"
    BY <1>6, <2>1 DEF BareIrqHandler, thread
  <2>2. CASE result # "TIMEOUT"
    BY <1>6, <2>2, HandlerFindsNoToken DEF BareIrqHandler, thread
  <2> QED BY <2>1, <2>2
<1>7. CASE OtherEvent
  BY <1>7 DEF OtherEvent, vars
<1>8. CASE Hardware /\ UNCHANGED weakVars
  BY <1>8, <1>1 DEF Hardware, NpuComplete, NpuResetDone, NpuPmuOverflow, thread
<1>9. CASE (CallStep \/ ApiCall) /\ UNCHANGED weakVars
  <2>1. CASE pc = "take"
    <3>1. ~CallStep
      BY <2>1 DEF CallStep, Fields, Parse, Parsed, PowerForRun, BeginCallback, RunStream, Err,
          WaitIdle, WaitRunning, WaitTake, Expired, Recheck, EndCallback, PowerAfterRun, Verdict,
          Clear, Kill, KillClear
    <3>2. ~ApiCall
      BY <2>1 DEF ApiCall, InvokeRefused, InvokeAccepted, WaitCall, ReleaseDriver,
          RequestPowerCall, PmuEnable, ReleasePowerCall, SoftResetCall, CallbackPmuEnable,
          CallbackPmuDisable
    <3> QED BY <1>9, <3>1, <3>2
  <2>2. CASE pc # "take"
    BY <1>9, <2>2 DEF weakVars
  <2> QED BY <2>1, <2>2
<1>10. CASE UNCHANGED bareVars
  BY <1>10, <1>1 DEF bareVars, vars
<1> QED
  BY <1>2, <1>3, <1>4, <1>5, <1>6, <1>7, <1>8, <1>9, <1>10 DEF BareNext, BareStep, WeakTake

\* An application that keeps to the protocol needs no RTOS: with the weak
\* semaphore, non-atomic count and all, the driver does what EthosuJob says, so
\* all that is proved of EthosuJob within the protocol holds of it.
THEOREM BaremetalImplementsJob ==
    ASSUME KeepsProtocol
    PROVE  BareSpec => ImplementsJob
<1>1. BareInit => Init /\ BareInv
  BY JobInit, ProtocolInit DEF BareInit, BareInv, WeakInv
<1>2. BareInv /\ [BareNext]_bareVars => BareInv' /\ [Next]_vars
  <2> SUFFICES ASSUME BareInv, [BareNext]_bareVars PROVE BareInv' /\ [Next]_vars
    OBVIOUS
  <2>1. [Next]_vars
    BY BareMaps
  <2>2. JobInv' /\ ProtocolInv'
    BY <2>1, JobStep, ProtocolStep DEF BareInv
  <2> QED BY <2>1, <2>2, WeakStep DEF BareInv
<1> QED BY <1>1, <1>2, PTL DEF BareSpec, ImplementsJob, Spec

\* So a wait without an RTOS answers 0 only for a stream the NPU ran to its end,
\* no job takes the token of another, and a driver at rest has a quiet NPU.
THEOREM BaremetalIsSafe ==
    ASSUME KeepsProtocol
    PROVE  BareSpec => [](SuccessMeansFinished /\ TokenAccounting /\ RestMeansQuiet
                            /\ CallbacksPaired /\ PowerAccounting)
BY BaremetalImplementsJob, SuccessIsReal, TokensMatchCompletions, RestIsQuiet, EveryBeginIsEnded,
    PowerIsAccounted, PTL DEF ImplementsJob

\* And it keeps the contract of ethosu_driver.h towards the application.
THEOREM BaremetalKeepsContract ==
    ASSUME KeepsProtocol
    PROVE  BareSpec => KeepsContract
BY BaremetalImplementsJob, DriverKeepsContract DEF ImplementsJob
=============================================================================
