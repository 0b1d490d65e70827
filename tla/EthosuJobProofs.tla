-------------------------- MODULE EthosuJobProofs --------------------------
(***************************************************************************)
(* What holds of EthosuJob for every application: the type invariant, and  *)
(* the agreement of job state, job result and semaphore that ethosu_wait   *)
(* and ethosu_irq_handler rest on.  Nothing is assumed but JobAssumption.  *)
(***************************************************************************)
EXTENDS EthosuJob, SequenceTheorems, TLAPS

\* The header is still there when Fields looks at it.
HeaderUnread == pc = "fields" => rest # << >>

\* ret is 0 from the entry of ethosu_wait to its take.
WaitStartsAtZero == pc \in {"wait", "take"} => ret = 0

\* The inductive invariant.
JobInv ==
    /\ TypeOK
    /\ HeaderUnread
    /\ WaitStartsAtZero
    /\ DoneHasToken
    /\ NeverBlocksUnasked
    /\ TimeoutSticks

\* What is left of a payload is a payload.
LEMMA TailType ==
    ASSUME NEW s \in Seq(Words), s # << >>
    PROVE  Tail(s) \in Seq(Words)
BY HeadTailProperties

\* The Boolean part of TypeOK.
Flags ==
    /\ block \in BOOLEAN /\ irq \in BOOLEAN /\ end \in BOOLEAN
    /\ fault \in BOOLEAN /\ gate \in BOOLEAN /\ open \in BOOLEAN

\* Every step leaves it so.
LEMMA FlagsStep == TypeOK /\ [Next]_vars => Flags'
<1> SUFFICES ASSUME TypeOK, [Next]_vars PROVE Flags'
  OBVIOUS
<1> USE DEF Flags, device, thread
<1>0. Flags
  BY DEF TypeOK
<1>a. ASSUME NEW o, NEW p, SoftReset(o, p), UNCHANGED <<block, open>> PROVE Flags'
  BY <1>0, <1>a, Zenon DEF SoftReset, DevSoftReset
<1>b. ASSUME NEW o, RequestPower(o), UNCHANGED <<block, open>> PROVE Flags'
  <2>1. CASE power > 0 /\ UNCHANGED device
    BY <1>0, <1>b, <2>1, Zenon
  <2>2. CASE SoftReset(o, 1)
    BY <1>a, <1>b, <2>2
  <2> QED BY <1>b, <2>1, <2>2 DEF RequestPower
<1>c. ReleasePower /\ UNCHANGED <<block, open>> => Flags'
  BY <1>0, Zenon DEF ReleasePower, DevEnableGating
<1>1. CASE Fields
  BY <1>0, <1>1, Zenon DEF Fields
<1>2. CASE Parse
  BY <1>0, <1>2, Zenon DEF Parse
<1>3. CASE Parsed
  BY <1>0, <1>3, Zenon DEF Parsed
<1>4. CASE PowerForRun
  BY <1>0, <1>4, <1>b, Zenon DEF PowerForRun
<1>5. CASE BeginCallback
  BY <1>0, <1>5, Zenon DEF BeginCallback
<1>6. CASE RunStream
  BY <1>0, <1>6, Zenon DEF RunStream, DevRunCommandStream
<1>7. CASE Err
  BY <1>0, <1>7, Zenon DEF Err
<1>8. CASE WaitIdle
  BY <1>0, <1>8, Zenon DEF WaitIdle
<1>9. CASE WaitRunning
  BY <1>0, <1>9, Zenon DEF WaitRunning
<1>10. CASE WaitTake
  BY <1>0, <1>10, Zenon DEF WaitTake
<1>11. CASE Take
  BY <1>0, <1>11, Zenon DEF Take
<1>12. CASE TakeTimeout
  BY <1>0, <1>12, Zenon DEF TakeTimeout
<1>13. CASE Expired
  BY <1>0, <1>13, Zenon DEF Expired
<1>14. CASE Recheck
  BY <1>0, <1>14, Zenon DEF Recheck
<1>15. CASE Retake
  BY <1>0, <1>15, Zenon DEF Retake
<1>16. CASE EndCallback
  BY <1>0, <1>16, Zenon DEF EndCallback
<1>17. CASE PowerAfterRun
  BY <1>0, <1>17, <1>c, Zenon DEF PowerAfterRun
<1>18. CASE Verdict
  BY <1>0, <1>18, <1>a, Zenon DEF Verdict
<1>19. CASE Clear
  BY <1>0, <1>19, Zenon DEF Clear
<1>20. CASE Kill
  BY <1>0, <1>20, <1>a, Zenon DEF Kill
<1>21. CASE KillClear
  BY <1>0, <1>21, Zenon DEF KillClear
<1>22. CASE ReleaseDriver
  BY <1>0, <1>22, Zenon DEF ReleaseDriver
<1>23. CASE RequestPowerCall
  BY <1>0, <1>23, <1>b, Zenon DEF RequestPowerCall
<1>24. CASE PmuEnable
  BY <1>0, <1>24, <1>b, Zenon DEF PmuEnable
<1>25. CASE ReleasePowerCall
  BY <1>0, <1>25, <1>c, Zenon DEF ReleasePowerCall
<1>26. CASE SoftResetCall
  BY <1>0, <1>26, <1>a, Zenon DEF SoftResetCall
<1>27. CASE IrqHandler
  BY <1>0, <1>27, Zenon DEF IrqHandler, DevClearIrq
<1>28. CASE NpuComplete
  BY <1>0, <1>28, Zenon DEF NpuComplete, DevStops
<1>29. CASE NpuResetDone
  BY <1>0, <1>29, Zenon DEF NpuResetDone, DevResetEnds
<1>30. CASE NpuPmuOverflow
  BY <1>0, <1>30, Zenon DEF NpuPmuOverflow
<1>31. ASSUME NEW c, InvokeRefused(c) PROVE Flags'
  BY <1>0, <1>31, Zenon DEF InvokeRefused
<1>32. ASSUME NEW c, NEW p, InvokeAccepted(c, p) PROVE Flags'
  BY <1>0, <1>32, Zenon DEF InvokeAccepted
<1>33. ASSUME NEW c, WaitCall(c) PROVE Flags'
  BY <1>0, <1>33, Zenon DEF WaitCall
<1>35. CASE CallbackPmuEnable
  BY <1>0, <1>35, <1>b, Zenon DEF CallbackPmuEnable
<1>36. CASE CallbackPmuDisable
  BY <1>0, <1>36, <1>c, Zenon DEF CallbackPmuDisable
<1>34. CASE UNCHANGED vars
  BY <1>0, <1>34, Zenon DEF vars
<1> QED
  BY <1>1, <1>2, <1>3, <1>4, <1>5, <1>6, <1>7, <1>8, <1>9, <1>10, <1>11, <1>12, <1>13, <1>14, <1>15, <1>16, <1>17, <1>18, <1>19, <1>20, <1>21, <1>22, <1>23, <1>24, <1>25, <1>26, <1>27, <1>28, <1>29, <1>30, <1>31, <1>32, <1>33, <1>34, <1>35, <1>36 DEF Next, ApiCall, ThreadStep, DriverStep, CallStep, Hardware

\* The driver ethosu_init leaves satisfies the invariant.
LEMMA JobInit == Init => JobInv
<1> SUFFICES ASSUME Init PROVE JobInv
  OBVIOUS
<1>1. TypeOK
  <2>1. rest \in Seq(Words)
    BY EmptySeq DEF Init
  <2>2. Flags
    BY Zenon DEF Init, DevInit, Flags
  <2> QED BY <2>1, <2>2, JobAssumption DEF JobAssumption, Init, DevInit, TypeOK, Flags, PCs
<1> QED BY <1>1 DEF Init, DevInit, JobInv, HeaderUnread, WaitStartsAtZero, DoneHasToken,
    NeverBlocksUnasked, TimeoutSticks, Collecting, TimedOut

\* Every step of the driver, the NPU or the application keeps the invariant.
LEMMA JobStep == JobInv /\ [Next]_vars => JobInv'
<1> SUFFICES ASSUME JobInv, [Next]_vars PROVE JobInv'
  OBVIOUS
<1>0. Flags'
  BY FlagsStep DEF JobInv
<1> USE <1>0, JobAssumption, DeviceAssumption
    DEF JobAssumption, DeviceAssumption, JobInv, TypeOK, Flags, PCs, AllCalls, HeaderUnread,
        WaitStartsAtZero, DoneHasToken, NeverBlocksUnasked, TimeoutSticks,
        Collecting, TimedOut, job, device, thread, Goto, Return, ResetJob
<1>1. CASE Fields
  BY <1>1, TailType DEF Fields
<1>2. CASE Parse
  BY <1>2, TailType DEF Parse
<1>3. CASE Parsed
  BY <1>3 DEF Parsed
<1>4. CASE PowerForRun
  BY <1>4 DEF PowerForRun, RequestPower, SoftReset, DevSoftReset, Outcomes
<1>5. CASE BeginCallback
  BY <1>5 DEF BeginCallback
<1>6. CASE RunStream
  BY <1>6 DEF RunStream, DevRunCommandStream
<1>7. CASE Err
  BY <1>7 DEF Err
<1>8. CASE WaitIdle
  BY <1>8 DEF WaitIdle
<1>9. CASE WaitRunning
  BY <1>9 DEF WaitRunning
<1>10. CASE WaitTake
  BY <1>10 DEF WaitTake
<1>11. CASE Take
  BY <1>11 DEF Take
<1>12. CASE TakeTimeout
  BY <1>12 DEF TakeTimeout
<1>13. CASE Expired
  BY <1>13 DEF Expired
<1>14. CASE Recheck
  BY <1>14 DEF Recheck
<1>15. CASE Retake
  BY <1>15 DEF Retake
<1>16. CASE EndCallback
  BY <1>16 DEF EndCallback
<1>17. CASE PowerAfterRun
  BY <1>17 DEF PowerAfterRun, ReleasePower, DevEnableGating
<1>18. CASE Verdict
  BY <1>18 DEF Verdict, SoftReset, DevSoftReset
<1>19. CASE Clear
  BY <1>19 DEF Clear
<1>20. CASE Kill
  BY <1>20 DEF Kill, SoftReset, DevSoftReset
<1>21. CASE KillClear
  BY <1>21 DEF KillClear
<1>22. ASSUME NEW c \in {"invoke_async", "invoke_v3"},
            InvokeRefused(c)
     PROVE  JobInv'
  BY <1>22 DEF InvokeRefused
<1>23. ASSUME NEW c \in {"invoke_async", "invoke_v3"}, NEW p \in Payloads,
            InvokeAccepted(c, p)
     PROVE  JobInv'
  BY <1>23 DEF InvokeAccepted
<1>24. ASSUME NEW c \in {"poll", "wait"},
            WaitCall(c)
     PROVE  JobInv'
  BY <1>24 DEF WaitCall
<1>25. CASE ReleaseDriver
  BY <1>25 DEF ReleaseDriver
<1>26. CASE RequestPowerCall
  BY <1>26 DEF RequestPowerCall, RequestPower, SoftReset, DevSoftReset, Outcomes
<1>27. CASE PmuEnable
  BY <1>27 DEF PmuEnable, RequestPower, SoftReset, DevSoftReset, Outcomes
<1>28. CASE ReleasePowerCall
  BY <1>28 DEF ReleasePowerCall, ReleasePower, DevEnableGating
<1>29. CASE SoftResetCall
  BY <1>29 DEF SoftResetCall, SoftReset, DevSoftReset
<1>30. CASE IrqHandler
  BY <1>30 DEF IrqHandler, DevClearIrq, Give, DevHandleInterrupt
<1>31. CASE NpuComplete
  BY <1>31 DEF NpuComplete, DevStops
<1>32. CASE NpuResetDone
  BY <1>32 DEF NpuResetDone, DevResetEnds
<1>33. CASE NpuPmuOverflow
  BY <1>33 DEF NpuPmuOverflow
<1>35. CASE CallbackPmuEnable
  BY <1>35 DEF CallbackPmuEnable, RequestPower, SoftReset, DevSoftReset, Outcomes
<1>36. CASE CallbackPmuDisable
  BY <1>36 DEF CallbackPmuDisable, ReleasePower, DevEnableGating
<1>34. CASE UNCHANGED vars
  BY <1>34 DEF vars
<1> QED
  BY <1>1, <1>2, <1>3, <1>4, <1>5, <1>6, <1>7, <1>8, <1>9, <1>10, <1>11, <1>12, <1>13, <1>14, <1>15, <1>16, <1>17, <1>18, <1>19, <1>20, <1>21, <1>22, <1>23, <1>24, <1>25, <1>26, <1>27, <1>28, <1>29, <1>30, <1>31, <1>32, <1>33, <1>34, <1>35, <1>36 DEF Next, ApiCall, ThreadStep, DriverStep, CallStep, Hardware

\* For every application, the variables keep their types.
THEOREM JobTypeCorrect == Spec => []TypeOK
<1>1. JobInv => TypeOK
  BY DEF JobInv
<1> QED BY JobInit, JobStep, <1>1, PTL DEF Spec

\* For every application, a finished job has its token until it is collected.
THEOREM DoneJobHasToken == Spec => []DoneHasToken
<1>1. JobInv => DoneHasToken
  BY DEF JobInv
<1> QED BY JobInit, JobStep, <1>1, PTL DEF Spec

\* For every application, a wait with block = FALSE never blocks, and neither
\* does the take that follows a timeout.
THEOREM PollDoesNotBlock == Spec => []NeverBlocksUnasked
<1>1. JobInv => NeverBlocksUnasked
  BY DEF JobInv
<1> QED BY JobInit, JobStep, <1>1, PTL DEF Spec

\* For every application, a timeout is final however late the interrupt comes.
THEOREM TimeoutIsFinal == Spec => []TimeoutSticks
<1>1. JobInv => TimeoutSticks
  BY DEF JobInv
<1> QED BY JobInit, JobStep, <1>1, PTL DEF Spec
=============================================================================
