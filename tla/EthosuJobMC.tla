---------------------------- MODULE EthosuJobMC ----------------------------
(* Payloads for checking EthosuJob. *)
EXTENDS EthosuJobContract

\* What Vela emits: a header, a configuration, one command stream; and
\* payloads the driver turns down before it starts anything.
DocumentedPayloads ==
    { <<"FOURCC", "OPTIMIZER_CONFIG", "COMMAND_STREAM">>,
      <<"FOURCC", "COMMAND_STREAM", "NOP">>,
      <<"FOURCC", "CMS_UNALIGNED">>,
      <<"BAD_HEADER">> }

\* One command stream and nothing else.
StreamOnly == { <<"FOURCC", "COMMAND_STREAM">> }

\* A stream, and then a configuration the device turns down.
LateFailure == { <<"FOURCC", "COMMAND_STREAM", "OPT_MISMATCH">> }

\* Payloads that start a stream and then fail, start two, or start none.
AnyPayloads ==
    { <<"FOURCC", "OPTIMIZER_CONFIG", "COMMAND_STREAM">>,
      <<"FOURCC", "COMMAND_STREAM", "OPT_MISMATCH">>,
      <<"FOURCC", "COMMAND_STREAM", "COMMAND_STREAM">>,
      <<"FOURCC", "NOP">>,
      <<"FOURCC", "UNSUPPORTED">> }

Documented == AllCalls \ {"abort", "pmu_enable"}
=============================================================================
