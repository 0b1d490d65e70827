------------------------- MODULE EthosuJobProtocol -------------------------
(***************************************************************************)
(* Applications that keep to the documented protocol, as a condition on    *)
(* the constants of EthosuJob, and the inductive invariant their driver    *)
(* has.                                                                    *)
(***************************************************************************)
EXTENDS EthosuJob

\* Words that neither start anything nor fail.
Harmless(s) == \A i \in 1..Len(s) : s[i] \in {"NOP", "OPTIMIZER_CONFIG"}

\* "Vela only supports putting one COMMAND_STREAM per op": once a stream is
\* started, nothing that could fail or start another follows it.
WellFormed(s) ==
    \A i \in 1..Len(s) : s[i] = "COMMAND_STREAM" =>
        \A j \in (i+1)..Len(s) : s[j] \in {"NOP", "OPTIMIZER_CONFIG"}

\* No release or reset of a driver with an inference outstanding, no PMU
\* interrupts, and no reset that fails behind the back of ETHOSU_PMU_Enable.
KeepsProtocol ==
    /\ "abort" \notin Calls
    /\ ~PmuIrq
    /\ "pmu_enable" \notin Calls \/ ResetOutcomes \subseteq {"ok"}
    /\ \A p \in Payloads : WellFormed(p)

-----------------------------------------------------------------------------
\* Where the thread can be with a job at rest, with one under way, or both.
PlacesMatchState ==
    /\ pc \in {"fields", "power", "start", "err"} => state = "IDLE"
    /\ pc = "run" => state = "RUNNING"
    /\ pc \in {"take", "expired", "recheck", "retake", "end", "unpower",
               "verdict", "clear"} => state # "IDLE"
    /\ pc = "retake" => state = "DONE"
    /\ pc \notin {"kill", "killclear"}
    /\ pc = "wait" /\ call = "release" => state = "DONE"

\* Which call the thread is in.
CallFitsPlace ==
    /\ pc \in {"fields", "parse", "power", "start", "run", "err"} =>
        call \in {"invoke_async", "invoke_v3"}
    /\ pc \in {"wait", "take", "expired", "recheck", "retake", "end", "unpower",
               "verdict", "clear"} =>
        call \in {"invoke_v3", "poll", "wait", "release"}
    /\ pc = "wait" /\ call = "invoke_v3" => block

\* What is still to be parsed cannot fail once the stream has been started.
RestIsSafe ==
    /\ pc = "fields" => WellFormed(rest)
    /\ pc = "parse" => IF state = "IDLE" THEN WellFormed(rest) ELSE Harmless(rest)
    /\ pc \in {"power", "start", "run"} => Harmless(rest)

\* A stop is announced by the interrupt once, to a job that is running.
InterruptFitsState ==
    /\ state = "IDLE" \/ pc = "run" => npu # "running" /\ ~irq
    /\ state = "DONE" => npu # "running" /\ ~irq
    /\ irq => npu = "stopped"

\* The result is set by the handler, or by a wait that gives up.
ResultFitsState ==
    /\ state = "IDLE" => result = "OK"
    /\ state = "RUNNING" => result \in {"OK", "TIMEOUT"}
    /\ result = "TIMEOUT" => pc \in {"recheck", "retake", "end", "unpower",
                                     "verdict", "clear"}
    /\ state = "DONE" /\ result = "OK" => npu = "stopped" /\ end /\ ~fault

\* A collection goes by the token it took or by the timeout it saw.
CollectionIsJustified ==
    /\ pc \in {"end", "unpower", "verdict"} => \/ ret = 0 /\ state = "DONE"
                                               \/ ret = -1 /\ result = "TIMEOUT"
    /\ pc \in {"expired", "recheck", "retake"} => ret = -1
    /\ pc \in {"recheck", "retake"} => result = "TIMEOUT"
    /\ pc = "clear" => \/ ret = 0 /\ state = "DONE" /\ result = "OK"
                       \/ ret = -1 /\ result # "OK" /\ npu # "running" /\ ~irq

ProtocolInv ==
    /\ PlacesMatchState
    /\ CallFitsPlace
    /\ RestIsSafe
    /\ InterruptFitsState
    /\ ResultFitsState
    /\ CollectionIsJustified
    /\ TokenAccounting
    /\ CallbacksPaired
    /\ PowerAccounting
=============================================================================
