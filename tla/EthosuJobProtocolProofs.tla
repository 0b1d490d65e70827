---------------------- MODULE EthosuJobProtocolProofs ----------------------
(***************************************************************************)
(* What the driver gives an application that keeps to the protocol, for    *)
(* every set of payloads, every bound and every outcome of the resets; and *)
(* that it then implements InferenceContract: each of its steps is,        *)
(* through Phase and Answer, a step of the contract or none.               *)
(***************************************************************************)
EXTENDS EthosuJobContract, EthosuJobProtocol, EthosuJobProofs

\* Parsing a word of a harmless rest cannot fail, and leaves a harmless rest.
LEMMA HarmlessTail ==
    ASSUME NEW s \in Seq(Words), s # << >>, Harmless(s)
    PROVE  /\ Head(s) \in {"NOP", "OPTIMIZER_CONFIG"}
           /\ Harmless(Tail(s))
BY HeadTailProperties DEF Harmless

\* Parsing a word of a well-formed rest leaves a well-formed rest, a harmless
\* one when the word starts the stream.
LEMMA WellFormedTail ==
    ASSUME NEW s \in Seq(Words), s # << >>, WellFormed(s)
    PROVE  /\ WellFormed(Tail(s))
           /\ Head(s) = "COMMAND_STREAM" => Harmless(Tail(s))
BY HeadTailProperties DEF WellFormed, Harmless

\* The driver ethosu_init leaves satisfies the protocol invariant.
LEMMA ProtocolInit == Init => ProtocolInv
BY DEF Init, DevInit, ProtocolInv, PlacesMatchState, CallFitsPlace, RestIsSafe, InterruptFitsState,
    ResultFitsState, CollectionIsJustified, TokenAccounting, CallbacksPaired,
    PowerAccounting, Collecting

\* Every step taken within the protocol keeps the protocol invariant.
LEMMA ProtocolStep ==
    ASSUME KeepsProtocol, JobInv, ProtocolInv, [Next]_vars
    PROVE  ProtocolInv'
<1> USE JobAssumption, DeviceAssumption
    DEF JobAssumption, DeviceAssumption, KeepsProtocol, JobInv, TypeOK, Flags, PCs, AllCalls, HeaderUnread,
        WaitStartsAtZero, ProtocolInv, PlacesMatchState, CallFitsPlace, RestIsSafe, InterruptFitsState,
        ResultFitsState, CollectionIsJustified, TokenAccounting, CallbacksPaired,
        PowerAccounting, Collecting, job, device, thread, Goto, Return, ResetJob, Abort
<1>1. CASE Fields
  BY <1>1, WellFormedTail DEF Fields
<1>2. CASE Parse
  BY <1>2, WellFormedTail, HarmlessTail DEF Parse
<1>3. CASE Parsed
  BY <1>3 DEF Parsed
<1>4. CASE PowerForRun
  BY <1>4 DEF PowerForRun, RequestPower, SoftReset, DevSoftReset, Outcomes
<1>5. CASE BeginCallback
  BY <1>5 DEF BeginCallback
<1>6. CASE RunStream
  BY <1>6 DEF RunStream, DevRunCommandStream
<1>7. CASE Err
  BY <1>7 DEF Err
<1>8. CASE WaitIdle
  BY <1>8 DEF WaitIdle
<1>9. CASE WaitRunning
  BY <1>9 DEF WaitRunning
<1>10. CASE WaitTake
  BY <1>10 DEF WaitTake
<1>11. CASE Take
  BY <1>11 DEF Take
<1>12. CASE TakeTimeout
  BY <1>12 DEF TakeTimeout
<1>13. CASE Expired
  BY <1>13 DEF Expired
<1>14. CASE Recheck
  BY <1>14 DEF Recheck
<1>15. CASE Retake
  BY <1>15 DEF Retake
<1>16. CASE EndCallback
  BY <1>16 DEF EndCallback
<1>17. CASE PowerAfterRun
  BY <1>17 DEF PowerAfterRun, ReleasePower, DevEnableGating
<1>18. CASE Verdict
  BY <1>18 DEF Verdict, SoftReset, DevSoftReset
<1>19. CASE Clear
  BY <1>19 DEF Clear
<1>20. CASE Kill
  BY <1>20 DEF Kill, SoftReset, DevSoftReset
<1>21. CASE KillClear
  BY <1>21 DEF KillClear
<1>22. ASSUME NEW c \in {"invoke_async", "invoke_v3"},
            InvokeRefused(c)
     PROVE  ProtocolInv'
  BY <1>22 DEF InvokeRefused
<1>23. ASSUME NEW c \in {"invoke_async", "invoke_v3"}, NEW p \in Payloads,
            InvokeAccepted(c, p)
     PROVE  ProtocolInv'
  BY <1>23 DEF InvokeAccepted
<1>24. ASSUME NEW c \in {"poll", "wait"},
            WaitCall(c)
     PROVE  ProtocolInv'
  BY <1>24 DEF WaitCall
<1>25. CASE ReleaseDriver
  BY <1>25 DEF ReleaseDriver
<1>26. CASE RequestPowerCall
  BY <1>26 DEF RequestPowerCall, RequestPower, SoftReset, DevSoftReset, Outcomes
<1>27. CASE PmuEnable
  BY <1>27 DEF PmuEnable, RequestPower, SoftReset, DevSoftReset, Outcomes
<1>28. CASE ReleasePowerCall
  BY <1>28 DEF ReleasePowerCall, ReleasePower, DevEnableGating
<1>29. CASE SoftResetCall
  BY <1>29 DEF SoftResetCall, SoftReset, DevSoftReset
<1>30. CASE IrqHandler
  BY <1>30 DEF IrqHandler, DevClearIrq, Give, DevHandleInterrupt
<1>31. CASE NpuComplete
  BY <1>31 DEF NpuComplete, DevStops
<1>32. CASE NpuResetDone
  BY <1>32 DEF NpuResetDone, DevResetEnds
<1>33. CASE NpuPmuOverflow
  BY <1>33 DEF NpuPmuOverflow
<1>35. CASE CallbackPmuEnable
  BY <1>35 DEF CallbackPmuEnable, RequestPower, SoftReset, DevSoftReset, Outcomes
<1>36. CASE CallbackPmuDisable
  BY <1>36 DEF CallbackPmuDisable, ReleasePower, DevEnableGating
<1>34. CASE UNCHANGED vars
  BY <1>34 DEF vars
<1> QED
  BY <1>1, <1>2, <1>3, <1>4, <1>5, <1>6, <1>7, <1>8, <1>9, <1>10, <1>11, <1>12, <1>13, <1>14, <1>15, <1>16, <1>17, <1>18, <1>19, <1>20, <1>21, <1>22, <1>23, <1>24, <1>25, <1>26, <1>27, <1>28, <1>29, <1>30, <1>31, <1>32, <1>33, <1>34, <1>35, <1>36 DEF Next, ApiCall, ThreadStep, DriverStep, CallStep, Hardware

\* The invariant of a driver whose application keeps to the protocol.
THEOREM ProtocolInvariant ==
    ASSUME KeepsProtocol
    PROVE  Spec => [](JobInv /\ ProtocolInv)
<1>1. Init => JobInv /\ ProtocolInv
  BY JobInit, ProtocolInit
<1>2. JobInv /\ ProtocolInv /\ [Next]_vars => (JobInv /\ ProtocolInv)'
  BY JobStep, ProtocolStep
<1> QED BY <1>1, <1>2, PTL DEF Spec

\* A wait answers 0 only for a job whose stream the NPU ran to its end.
THEOREM SuccessIsReal ==
    ASSUME KeepsProtocol
    PROVE  Spec => []SuccessMeansFinished
<1>1. JobInv /\ ProtocolInv => SuccessMeansFinished
  BY DEF SuccessMeansFinished, ProtocolInv, CollectionIsJustified, ResultFitsState
<1> QED BY ProtocolInvariant, <1>1, PTL

\* The semaphore counts the completion still to be collected, and nothing else:
\* no job can take the token of another.
THEOREM TokensMatchCompletions ==
    ASSUME KeepsProtocol
    PROVE  Spec => []TokenAccounting
<1>1. JobInv /\ ProtocolInv => TokenAccounting
  BY DEF ProtocolInv
<1> QED BY ProtocolInvariant, <1>1, PTL

\* A driver at rest has an NPU at rest and no interrupt pending.
THEOREM RestIsQuiet ==
    ASSUME KeepsProtocol
    PROVE  Spec => []RestMeansQuiet
<1>1. JobInv /\ ProtocolInv => RestMeansQuiet
  BY DEF RestMeansQuiet, ProtocolInv, InterruptFitsState
<1> QED BY ProtocolInvariant, <1>1, PTL

\* The end callback is owed from the begin callback to the collection.
THEOREM EveryBeginIsEnded ==
    ASSUME KeepsProtocol
    PROVE  Spec => []CallbacksPaired
<1>1. JobInv /\ ProtocolInv => CallbacksPaired
  BY DEF ProtocolInv
<1> QED BY ProtocolInvariant, <1>1, PTL

\* The power request counter is what the application holds plus the inference.
THEOREM PowerIsAccounted ==
    ASSUME KeepsProtocol
    PROVE  Spec => []PowerAccounting
<1>1. JobInv /\ ProtocolInv => PowerAccounting
  BY DEF ProtocolInv
<1> QED BY ProtocolInvariant, <1>1, PTL
-----------------------------------------------------------------------------
(* Power.                                                                  *)

\* Every soft reset ends, in the access state asked for.
ResetsSucceed == ResetOutcomes \subseteq {"ok"}

\* A reset that succeeds does not linger.
GateInv == GateFollowsRequests /\ npu # "resetting"

\* With resets that succeed, no operation leaves the q-channel enables out of
\* step with the counter, for every application.
LEMMA GateStep ==
    ASSUME ResetsSucceed, TypeOK, GateInv, [Next]_vars
    PROVE  GateInv'
<1> USE DeviceAssumption
    DEF DeviceAssumption, ResetsSucceed, TypeOK, GateInv, GateFollowsRequests, device, thread, job,
        Goto, Return, ResetJob
<1>a. ASSUME NEW o \in Outcomes, RequestPower(o) PROVE GateInv'
  <2>1. o = "ok"
    BY DEF Outcomes
  <2>2. CASE power > 0 /\ power' = power + 1 /\ UNCHANGED device
    BY <2>2
  <2>3. CASE power = 0 /\ power' = 1 /\ SoftReset(o, 1)
    BY <2>1, <2>3 DEF SoftReset, DevSoftReset
  <2> QED BY <1>a, <2>1, <2>2, <2>3 DEF RequestPower
<1>1. CASE Fields
  BY <1>1 DEF Fields
<1>2. CASE Parse
  BY <1>2 DEF Parse
<1>3. CASE Parsed
  BY <1>3 DEF Parsed
<1>4. CASE PowerForRun
  BY <1>4, <1>a DEF PowerForRun
<1>5. CASE BeginCallback
  BY <1>5 DEF BeginCallback
<1>6. CASE RunStream
  BY <1>6 DEF RunStream, DevRunCommandStream
<1>7. CASE Err
  BY <1>7 DEF Err
<1>8. CASE WaitIdle
  BY <1>8 DEF WaitIdle
<1>9. CASE WaitRunning
  BY <1>9 DEF WaitRunning
<1>10. CASE WaitTake
  BY <1>10 DEF WaitTake
<1>11. CASE Take
  BY <1>11 DEF Take
<1>12. CASE TakeTimeout
  BY <1>12 DEF TakeTimeout
<1>13. CASE Expired
  BY <1>13 DEF Expired
<1>14. CASE Recheck
  BY <1>14 DEF Recheck
<1>15. CASE Retake
  BY <1>15 DEF Retake
<1>16. CASE EndCallback
  BY <1>16 DEF EndCallback
<1>17. CASE PowerAfterRun
  BY <1>17 DEF PowerAfterRun, ReleasePower, DevEnableGating
<1>18. CASE Verdict
  BY <1>18 DEF Verdict, SoftReset, DevSoftReset
<1>19. CASE Clear
  BY <1>19 DEF Clear
<1>20. CASE Kill
  BY <1>20 DEF Kill, SoftReset, DevSoftReset
<1>21. CASE KillClear
  BY <1>21 DEF KillClear
<1>22. CASE ReleaseDriver
  BY <1>22 DEF ReleaseDriver
<1>23. CASE RequestPowerCall
  BY <1>23, <1>a DEF RequestPowerCall
<1>24. CASE PmuEnable
  BY <1>24, <1>a DEF PmuEnable
<1>25. CASE ReleasePowerCall
  BY <1>25 DEF ReleasePowerCall, ReleasePower, DevEnableGating
<1>26. CASE SoftResetCall
  BY <1>26 DEF SoftResetCall, SoftReset, DevSoftReset
<1>27. CASE CallbackPmuEnable
  BY <1>27, <1>a DEF CallbackPmuEnable
<1>28. CASE CallbackPmuDisable
  BY <1>28 DEF CallbackPmuDisable, ReleasePower, DevEnableGating
<1>29. CASE IrqHandler
  BY <1>29 DEF IrqHandler, DevClearIrq
<1>30. CASE NpuComplete
  BY <1>30 DEF NpuComplete, DevStops
<1>31. CASE NpuResetDone
  BY <1>31 DEF NpuResetDone, DevResetEnds
<1>32. CASE NpuPmuOverflow
  BY <1>32 DEF NpuPmuOverflow
<1>33. ASSUME NEW c \in {"invoke_async", "invoke_v3"}, InvokeRefused(c) PROVE GateInv'
  BY <1>33 DEF InvokeRefused
<1>34. ASSUME NEW c \in {"invoke_async", "invoke_v3"}, NEW p \in Payloads, InvokeAccepted(c, p) PROVE GateInv'
  BY <1>34 DEF InvokeAccepted
<1>35. ASSUME NEW c \in {"poll", "wait"}, WaitCall(c) PROVE GateInv'
  BY <1>35 DEF WaitCall
<1>36. CASE UNCHANGED vars
  BY <1>36 DEF vars
<1> QED
  BY <1>1, <1>2, <1>3, <1>4, <1>5, <1>6, <1>7, <1>8, <1>9, <1>10, <1>11, <1>12, <1>13, <1>14, <1>15, <1>16, <1>17, <1>18, <1>19, <1>20, <1>21, <1>22, <1>23, <1>24, <1>25, <1>26, <1>27, <1>28, <1>29, <1>30, <1>31, <1>32, <1>33, <1>34, <1>35, <1>36 DEF Next, ApiCall, ThreadStep, DriverStep, CallStep, Hardware

\* Power gating is enabled exactly when nobody holds a power request, for every
\* application, the ones that kill running jobs included.
THEOREM GateIsExact ==
    ASSUME ResetsSucceed
    PROVE  Spec => []GateFollowsRequests
<1>1. Init => GateInv
  BY DEF Init, DevInit, GateInv, GateFollowsRequests
<1>2. TypeOK /\ GateInv /\ [Next]_vars => GateInv'
  BY GateStep
<1>3. GateInv => GateFollowsRequests
  BY DEF GateInv
<1> QED BY JobTypeCorrect, <1>1, <1>2, <1>3, PTL DEF Spec

\* Within the protocol a running NPU is powered until a wait gives up on it and is
\* about to reset it.
THEOREM RunningIsPowered ==
    ASSUME KeepsProtocol, ResetsSucceed
    PROVE  Spec => []PoweredWhileRunning
<1>1. JobInv /\ ProtocolInv /\ GateFollowsRequests => PoweredWhileRunning
  BY DEF PoweredWhileRunning, GateFollowsRequests, JobInv, TypeOK, ProtocolInv, PlacesMatchState,
      InterruptFitsState, CollectionIsJustified, ResultFitsState, PowerAccounting
<1> QED BY ProtocolInvariant, GateIsExact, <1>1, PTL

\* And the reset is the thread's next step: an NPU that runs open to gating belongs
\* to a wait at its verdict of TIMEOUT, which is where the reset is made.
THEOREM GatedRunEnds ==
    ASSUME KeepsProtocol, ResetsSucceed
    PROVE  Spec => GatedRunIsReset
<1> DEFINE Reset == npu = "running" /\ gate /\ pc' # pc => npu' # "running"
<1>1. ASSUME TypeOK, PoweredWhileRunning, [Next]_vars PROVE [Reset]_vars
  <2> SUFFICES ASSUME npu = "running", gate, pc' # pc PROVE npu' # "running"
    OBVIOUS
  <2>1. pc = "verdict" /\ result = "TIMEOUT"
    BY <1>1 DEF PoweredWhileRunning, TypeOK
  <2>2. Verdict
    BY <1>1, <2>1 DEF Next, vars, ApiCall, ThreadStep, DriverStep, CallStep, Hardware, thread, device,
        InvokeRefused, InvokeAccepted, WaitCall, ReleaseDriver, RequestPowerCall, PmuEnable,
        ReleasePowerCall, SoftResetCall, CallbackPmuEnable, CallbackPmuDisable,
        Fields, Parse, Parsed, PowerForRun, BeginCallback, RunStream, Err,
        WaitIdle, WaitRunning, WaitTake, Take, TakeTimeout, Expired, Recheck, Retake,
        EndCallback, PowerAfterRun, Clear, Kill, KillClear,
        IrqHandler, NpuComplete, NpuResetDone, NpuPmuOverflow
  <2>3. \E o \in ResetOutcomes : SoftReset(o, power)
    BY <2>1, <2>2 DEF Verdict
  <2> QED BY <2>3 DEF SoftReset, DevSoftReset
<1>2. Spec => []TypeOK
  BY JobTypeCorrect
<1>3. Spec => []PoweredWhileRunning
  BY RunningIsPowered
<1> QED BY <1>1, <1>2, <1>3, PTL DEF Spec, GatedRunIsReset

-----------------------------------------------------------------------------
(* The contract.                                                           *)

\* The driver ethosu_init leaves is an initial state of the contract.
LEMMA ContractInit == Init => Contract!Init
BY DEF Init, DevInit, Contract!Init, Phase, Answer

\* Every step within the protocol is a step of the contract or a stutter.
LEMMA ContractStep ==
    ASSUME KeepsProtocol, JobInv, ProtocolInv, [Next]_vars
    PROVE  [Contract!Next]_<<Phase, Answer>>
<1> USE JobAssumption, DeviceAssumption
    DEF JobAssumption, DeviceAssumption, KeepsProtocol, JobInv, TypeOK, PCs, AllCalls,
        WaitStartsAtZero, ProtocolInv, PlacesMatchState, CallFitsPlace, InterruptFitsState,
        ResultFitsState, CollectionIsJustified, PowerAccounting,
        job, device, thread, Goto, Return, ResetJob, Abort,
        Phase, Answer, Contract!Next, Contract!Waits, Contract!CallNames
<1>1. CASE Fields
  BY <1>1 DEF Fields
<1>2. CASE Parse
  BY <1>2 DEF Parse
<1>3. CASE Parsed
  <2>1. CASE call = "invoke_v3"
    BY <1>3, <2>1 DEF Parsed
  <2>2. CASE call = "invoke_async"
    <3>1. Contract!Reply("invoke_async", 0)
      BY <1>3, <2>2 DEF Parsed, Contract!Reply
    <3> QED BY <3>1
  <2> QED BY <1>3, <2>1, <2>2 DEF Parsed
<1>4. CASE PowerForRun
  BY <1>4 DEF PowerForRun, RequestPower, SoftReset, DevSoftReset, Outcomes
<1>5. CASE BeginCallback
  BY <1>5 DEF BeginCallback
<1>6. CASE RunStream
  BY <1>6 DEF RunStream, DevRunCommandStream, Contract!Begin
<1>7. CASE Err
  <2>1. Contract!Reply(call, -1)
    BY <1>7 DEF Err, Contract!Reply
  <2>2. call \in Contract!CallNames /\ -1 \in -2..1
    BY <1>7 DEF Err
  <2> QED BY <2>1, <2>2
<1>8. CASE WaitIdle
  <2>1. Contract!Reply(call, -2)
    BY <1>8 DEF WaitIdle, Contract!Reply
  <2>2. call \in Contract!CallNames /\ -2 \in -2..1
    BY <1>8 DEF WaitIdle
  <2> QED BY <2>1, <2>2
<1>9. CASE WaitRunning
  <2>1. Contract!Reply(call, 1)
    BY <1>9 DEF WaitRunning, Contract!Reply
  <2>2. call \in Contract!CallNames /\ 1 \in -2..1
    BY <1>9 DEF WaitRunning
  <2> QED BY <2>1, <2>2
<1>10. CASE WaitTake
  BY <1>10 DEF WaitTake
<1>11. CASE Take
  BY <1>11 DEF Take
<1>12. CASE TakeTimeout
  BY <1>12 DEF TakeTimeout
<1>13. CASE Expired
  BY <1>13 DEF Expired, Contract!Abandon
<1>14. CASE Recheck
  BY <1>14 DEF Recheck
<1>15. CASE Retake
  BY <1>15 DEF Retake
<1>16. CASE EndCallback
  BY <1>16 DEF EndCallback
<1>17. CASE PowerAfterRun
  BY <1>17 DEF PowerAfterRun, ReleasePower, DevEnableGating
<1>18. CASE Verdict
  BY <1>18 DEF Verdict, SoftReset, DevSoftReset
<1>19. CASE Clear
  <2>1. Contract!Collect(call)
    BY <1>19 DEF Clear, Contract!Collect
  <2>2. call \in Contract!Waits \cup {"release"}
    BY <1>19 DEF Clear
  <2> QED BY <2>1, <2>2
<1>20. CASE Kill
  BY <1>20 DEF Kill, SoftReset, DevSoftReset
<1>21. CASE KillClear
  BY <1>21 DEF KillClear
<1>22. ASSUME NEW c \in {"invoke_async", "invoke_v3"},
            InvokeRefused(c)
     PROVE  [Contract!Next]_<<Phase, Answer>>
  BY <1>22 DEF InvokeRefused, Contract!Reply
<1>23. ASSUME NEW c \in {"invoke_async", "invoke_v3"}, NEW p \in Payloads,
            InvokeAccepted(c, p)
     PROVE  [Contract!Next]_<<Phase, Answer>>
  BY <1>23 DEF InvokeAccepted, Contract!Call
<1>24. ASSUME NEW c \in {"poll", "wait"},
            WaitCall(c)
     PROVE  [Contract!Next]_<<Phase, Answer>>
  BY <1>24 DEF WaitCall, Contract!Call
<1>25. CASE ReleaseDriver
  BY <1>25 DEF ReleaseDriver, Contract!Call, Contract!Reply
<1>26. CASE RequestPowerCall
  BY <1>26 DEF RequestPowerCall, RequestPower, SoftReset, DevSoftReset, Outcomes, Contract!Reply
<1>27. CASE PmuEnable
  BY <1>27 DEF PmuEnable, RequestPower, SoftReset, DevSoftReset, Outcomes, Contract!Reply
<1>28. CASE ReleasePowerCall
  BY <1>28 DEF ReleasePowerCall, ReleasePower, DevEnableGating, Contract!Reply
<1>29. CASE SoftResetCall
  BY <1>29 DEF SoftResetCall, SoftReset, DevSoftReset, Contract!Reply
<1>30. CASE IrqHandler
  BY <1>30 DEF IrqHandler, DevClearIrq, Give, DevHandleInterrupt
<1>31. CASE NpuComplete
  BY <1>31 DEF NpuComplete, DevStops, Contract!Finish
<1>32. CASE NpuResetDone
  BY <1>32 DEF NpuResetDone, DevResetEnds
<1>33. CASE NpuPmuOverflow
  BY <1>33 DEF NpuPmuOverflow
<1>35. CASE CallbackPmuEnable
  BY <1>35 DEF CallbackPmuEnable, RequestPower, SoftReset, DevSoftReset, Outcomes
<1>36. CASE CallbackPmuDisable
  BY <1>36 DEF CallbackPmuDisable, ReleasePower, DevEnableGating
<1>34. CASE UNCHANGED vars
  BY <1>34 DEF vars
<1> QED
  BY <1>1, <1>2, <1>3, <1>4, <1>5, <1>6, <1>7, <1>8, <1>9, <1>10, <1>11, <1>12, <1>13, <1>14, <1>15, <1>16, <1>17, <1>18, <1>19, <1>20, <1>21, <1>22, <1>23, <1>24, <1>25, <1>26, <1>27, <1>28, <1>29, <1>30, <1>31, <1>32, <1>33, <1>34, <1>35, <1>36 DEF Next, ApiCall, ThreadStep, DriverStep, CallStep, Hardware

\* The driver implements the contract, for every application that keeps to the
\* protocol.
THEOREM DriverKeepsContract ==
    ASSUME KeepsProtocol
    PROVE  Spec => KeepsContract
<1>1. JobInv /\ ProtocolInv /\ [Next]_vars => [Contract!Next]_<<Phase, Answer>>
  BY ContractStep
<1> QED BY ContractInit, ProtocolInvariant, <1>1, PTL DEF Spec, KeepsContract, Contract!Spec
=============================================================================
