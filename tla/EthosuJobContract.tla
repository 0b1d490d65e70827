------------------------- MODULE EthosuJobContract -------------------------
(* How the driver of EthosuJob keeps the promise of InferenceContract.      *)
EXTENDS EthosuJob

\* An inference exists from the write of CMD to the reset of the job.  It is
\* abandoned once the result says so; otherwise its outcome is where the code
\* will find it: in the job when the handler has run, before that in STATUS.
Phase ==
    IF state = "IDLE" \/ pc = "run" THEN "idle"
    ELSE IF result = "TIMEOUT" THEN "abandoned"
    ELSE IF state = "DONE" THEN (IF result = "OK" THEN "finished" ELSE "failed")
    ELSE IF ~irq THEN "running"
    ELSE IF end /\ ~fault THEN "finished" ELSE "failed"

Answer == IF pc = "idle" THEN {<<call, ret>>} ELSE {}

Contract == INSTANCE InferenceContract WITH phase <- Phase, answer <- Answer

\* The driver implements the contract, for applications that keep to the
\* protocol: 0 is answered for an inference that was carried out and for no
\* other, a timeout is final, and each inference is handed back once.
KeepsContract == Contract!Spec
=============================================================================
