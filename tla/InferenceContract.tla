------------------------- MODULE InferenceContract -------------------------
(***************************************************************************)
(* What a driver handle promises its application about inferences, with    *)
(* nothing of how it keeps the promise: no semaphore, no registers, no     *)
(* handler.  An application calls ethosu_invoke_async, ethosu_invoke_v3,   *)
(* ethosu_wait, ...; each call is answered with its name and its return    *)
(* value.                                                                  *)
(***************************************************************************)
EXTENDS Integers

VARIABLES
    phase,  \* of the inference: "idle" when there is none
    answer  \* {<<call, value>>} of the last call; {} while a call is going on

Phases == {"idle", "running", "finished", "failed", "abandoned"}

\* The calls whose value 0 says "the inference has been carried out".
Waits == {"wait", "poll", "invoke_v3"}

Init == phase = "idle" /\ answer = {<<"none", 0>>}

\* The application calls the driver.
Call == answer' = {} /\ UNCHANGED phase

\* A call starts an inference on the NPU.
Begin == phase = "idle" /\ answer = {} /\ phase' = "running" /\ UNCHANGED answer

\* The NPU ends the inference, whatever the application is doing.
Finish == phase = "running" /\ phase' \in {"finished", "failed"} /\ UNCHANGED answer

\* A waiting call has waited long enough.  This is final.
Abandon ==
    /\ phase \in {"running", "finished", "failed"} /\ answer = {}
    /\ phase' = "abandoned" /\ UNCHANGED answer

\* The inference is handed back: 0 if, and only if, it has been carried out.
Collect(c) ==
    /\ phase \in {"finished", "failed", "abandoned"} /\ answer = {}
    /\ phase' = "idle"
    /\ answer' = {<<c, IF phase = "finished" THEN 0 ELSE -1>>}

\* Any other answer changes no inference and never says that one was carried
\* out; "nothing was invoked" (-2) and "still running" (1) tell the truth, and a
\* wait with nothing to hand back has no other answer than these two.
Reply(c, r) ==
    /\ c \in {"wait", "poll"} => r \in {-2, 1}
    /\ c = "invoke_v3" => r \in {-2, -1}
    /\ r = -2 => phase = "idle"
    /\ r = 1 => phase \in {"running", "finished", "failed"}
    /\ answer' = {<<c, r>>} /\ UNCHANGED phase

CallNames == Waits \cup {"invoke_async", "release", "request_power",
                         "pmu_enable", "release_power", "soft_reset"}

Next ==
    \/ Call \/ Begin \/ Finish \/ Abandon
    \/ \E c \in Waits \cup {"release"} : Collect(c)
    \/ \E c \in CallNames, r \in -2..1 : Reply(c, r)

Spec == Init /\ [][Next]_<<phase, answer>>
=============================================================================
