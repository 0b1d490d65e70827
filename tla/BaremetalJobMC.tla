--------------------------- MODULE BaremetalJobMC ---------------------------
(* Payloads for checking BaremetalJob. *)
EXTENDS BaremetalJob

\* A payload with one command stream, and one that is turned down.
BarePayloads ==
    { <<"FOURCC", "OPTIMIZER_CONFIG", "COMMAND_STREAM", "NOP">>, <<"BAD_HEADER">> }

BareCalls == AllCalls \ {"abort", "pmu_enable"}
=============================================================================
