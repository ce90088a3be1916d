\* open() against every device of MC_Devices, as a sink and as a source,
\* with any subset of MC_FailingCalls returning an error.
CONSTANTS
  DeviceTypes = {"Sink", "Source"}
  ConfigRate = 44100
  ConfigChannels = 2
  LatencyNs = 20000700
  Devices <- MC_Devices
  FailingCalls <- MC_FailingCalls
SPECIFICATION Spec
INVARIANT TypeOK
INVARIANT NoPanic
INVARIANT OpenFailsOnlyForCause
INVARIANT FailedOpenKeepsConfig
\* open() is the only AlsaDevice method with a body (state(), pause(),
\* resume(), restart() and close are TODO), so the device stops after it.
CHECK_DEADLOCK FALSE
